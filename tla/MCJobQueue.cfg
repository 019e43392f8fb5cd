SPECIFICATION FairSpec
CONSTANTS
  t1 = t1
  t2 = t2
  b1 = b1
  b2 = b2
  NULL = NULL
  Threads = {t1, t2}
  Jobs = {j1, j2, j3}
  SharedQueues = {q1}
  Bins = {b1, b2}
  Owner <- MCOwner
INVARIANTS
  TypeOK
  MutualExclusion
  ListsAreWellLinked
  OneListAtATime
PROPERTIES
  LockIsReleased
  ImplementsFifo
