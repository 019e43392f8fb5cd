SPECIFICATION LibrarySpec
CONSTANTS
  NULL = NULL
  Threads = {t1, t2}
  Tasks = {k1, k2, k3}
  TaskQueues = {q1}
  Args = {0, 1, 2}
  SizeT = 4
  Generators = {g1, g2}
  Frames = {f1, f2}
  Ranges <- MCRanges
  UpTos = {0, 3}
  MaxI = 3
  CoJobObjects = {o1, o2, o3}
  CoFrames = {x1, x2}
  Functions = {n1, n2}
  square = square
  double = double
  ping = ping
  Callables = {square, double, ping}
  TypeOf <- MCTypeOf
  MaxCalls = 2
CHECK_DEADLOCK FALSE
INVARIANTS
  RemainingCountsMissing
  CallFindsItsArguments
  
  YieldsTheSequence
  KeepsItsCoroutine
  
PROPERTIES
  LoopEnds
  TaskQueueImplementsFifo
