SPECIFICATION FairSpec
CONSTANTS
  c1 = c1
  c2 = c2
  k1 = k1
  k2 = k2
  idA = idA
  idB = idB
  Clients = {c1, c2}
  Daemons = {d1, d2}
  Keys = {k1, k2}
  Ids = {idA, idB}
  None = none
  Shutdown = shutdown
  Asks <- MCAsks
  Impatient = {c2}
  MaxConnections = 2
  MaxSuperseded = 1
INVARIANTS FreshAnswer BuilderOutlivesJobs OneBuilder
PROPERTY RequestsEnd
