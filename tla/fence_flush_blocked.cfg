SPECIFICATION FairSpec
CONSTANTS
  a = a
  b = b
  NoThread = NoThread
  Threads <- TwoThreads
  Flushers <- OneThread
  Finishers <- OtherThread
  Timed <- None
  N = 2
  Wrap = 16
  MaxAge = 5
  MaxFence = 7
  Faults <- NoFaults
PROPERTY FlushReturns
CHECK_DEADLOCK FALSE
