SPECIFICATION FairSpec
CONSTANTS
  t1 = t1
  t2 = t2
  t3 = t3
  Threads = {t1, t2, t3}
  Calls <- MCCalls
  Nobody = Nobody
  MaxProcesses = 3
  MaxWorkers = 2
  MaxRestarts = 1
INVARIANT NoOrphan
PROPERTY CallsReturn
