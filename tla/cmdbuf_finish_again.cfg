SPECIFICATION Spec
CONSTANTS
  NumBufs = 2
  Size = 12
  Begin = 2
  End = 2
  MaxUnsignaled = 1
  QueueCap = 1
  Reserves <- ReserveAny
  MaxEmitted = 4
  MaxEvents = 2
  Faults <- WaitFaults
PROPERTY FinishComplete
CHECK_DEADLOCK FALSE
