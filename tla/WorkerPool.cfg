CONSTANTS
  Workers = {w1}
  Clients = {c1, c2}
  Owner = c1
  Tasks = {k1, k2, k3}
  Nobody = nobody
  Bound = 1
  NestedOps = {"submit", "try_submit"}
  Results = {"completed"}
SPECIFICATION FairSpec
INVARIANTS TaskInOnePlace DropDrains
PROPERTIES NobodyBlocksForever
CHECK_DEADLOCK FALSE
