SPECIFICATION FairSpec
CONSTANTS
  NULL = NULL
  Callers = {c1, c2}
  Requests <- MCRequests
  HardwareConcurrency = 3
  MaxWorkers = 3
  MaxJobs = 2
CHECK_DEADLOCK FALSE
INVARIANTS
  TypeOK
  WorkersFindEverything
  StartTogether
  StealsFromAWorker
PROPERTIES
  InitialisedOnce
  BreaksOnlyIfOvertaken
  EarlyJobsAreTaken
