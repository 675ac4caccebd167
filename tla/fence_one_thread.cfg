SPECIFICATION FairSpec
CONSTANTS
  a = a
  b = b
  NoThread = NoThread
  Threads <- OneThread
  Flushers <- OneThread
  Finishers <- OneThread
  Timed <- None
  N = 3
  Wrap = 24
  MaxAge = 6
  MaxFence = 9
  Faults <- AllFaults
PROPERTY FlushReturns
PROPERTY FinishReturns
CHECK_DEADLOCK FALSE
