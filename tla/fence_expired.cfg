SPECIFICATION Spec
CONSTANTS
  a = a
  b = b
  NoThread = NoThread
  Threads <- TwoThreads
  Flushers <- TwoThreads
  Finishers <- TwoThreads
  Timed <- OneThread
  N = 2
  Wrap = 10
  MaxAge = 3
  MaxFence = 13
  Faults <- NoFaults
INVARIANT ExpiredComplete
CHECK_DEADLOCK FALSE
