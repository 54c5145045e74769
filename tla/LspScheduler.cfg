SPECIFICATION FairSpec
CONSTANTS
  Requests = {r1, r2}
  Docs = {d1, d2}
  Open = {d1}
  Reload = reload
  Workers = {w1}
  None = none
  QueueCap = 1
  ResultCap = 1
  MaxPending = 1
  MaxEvents = 2
INVARIANTS SingleReply SnapshotsReachable RetiredBeforeCommit
PROPERTY RequestsAnswered
CHECK_DEADLOCK FALSE
