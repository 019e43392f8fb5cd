SPECIFICATION FairSpec
CONSTANTS
  c1 = c1
  j1 = j1
  j2 = j2
  j3 = j3
  NULL = NULL
  NumWorkers = 2
  Clients = {c1}
  Jobs = {j1, j2, j3}
  MayAllocate <- OneBlock
  Works <- MCWorks
  Pins <- NoPins
  UInt32 = 4
  k_LoopsUntilGC = 1
  k_RecyclingCapacity = 0
  MayUseParent = FALSE
  MayChainLate = TRUE
  MayShutdown = FALSE
PROPERTIES
  WaitReturns
