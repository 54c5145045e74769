SPECIFICATION Spec
CONSTANTS
  Programs <- MCPrograms
  None = none
INVARIANTS NoMisuse FactsSound
PROPERTIES LeakOnlyIfAmbiguous
CHECK_DEADLOCK FALSE
