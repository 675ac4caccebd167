SPECIFICATION Spec
CONSTANTS
  NumBufs = 2
  Size = 18
  Begin = 2
  End = 2
  MaxUnsignaled = 1
  QueueCap = 2
  Reserves <- ReserveFew
  MaxEmitted = 3
  MaxEvents = 2
  Faults <- NoFaults
INVARIANT SilenceAsSaid
CHECK_DEADLOCK FALSE
