SPECIFICATION Spec
CONSTANTS
  ArenaCap = 2
  SlotCap = 2
  Limit = 2
  MaxIssued = 3
INVARIANT NoSlotLost
PROPERTIES ImplementsHandleSet
