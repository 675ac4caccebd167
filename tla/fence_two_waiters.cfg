SPECIFICATION FairSpec
CONSTANTS
  a = a
  b = b
  NoThread = NoThread
  Threads <- TwoThreads
  Flushers <- OneThread
  Finishers <- TwoThreads
  Timed <- None
  N = 2
  Wrap = 16
  MaxAge = 5
  MaxFence = 3
  Faults <- NoFaults
PROPERTY FinishReturns
CHECK_DEADLOCK FALSE
