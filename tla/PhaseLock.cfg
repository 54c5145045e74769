CONSTANTS
  t1 = t1
  t2 = t2
  t3 = t3
  t4 = t4
  NoOwner = NoOwner
  Threads <- MCThreads
  UsizeMax = 3
  MaxDepth = 2
SPECIFICATION FairHSpec
INVARIANTS MutualExclusion GuardReleaseSucceeds NoLostWaiter BoundedOvertaking
PROPERTIES WaiterAdmitted ImplementsRwLock
