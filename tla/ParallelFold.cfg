CONSTANTS
  MaxChunks = 3
  MaxWorkers = 3
  Codes = {1, 2}
  None = none
  Running = running
SPECIFICATION FairSpec
INVARIANTS SuccessMeansAllChunks LowestErrorReported NothingRunsAfterReturn
PROPERTIES FoldReturns
