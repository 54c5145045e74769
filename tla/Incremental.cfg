SPECIFICATION Spec
CONSTANTS
  Processes = {p1, p2}
  Versions <- MCVersions
  None = none
  MaxBuilds = 3
  MaxEdits = 2
  MaxFaults = 1
SYMMETRY ProcessSymmetry
INVARIANTS RightUnlessMixed ObjectsHeld
CHECK_DEADLOCK FALSE
