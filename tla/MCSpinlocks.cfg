SPECIFICATION FairSpec
CONSTANTS
  Threads = {t1, t2, t3}
  MaxDepth = 2
INVARIANTS
  TypeOK
  MutualExclusion
  CountIsDepth
PROPERTIES
  ImplementsSpinLock
  ImplementsRecursiveLock
  FreeLockIsTaken
