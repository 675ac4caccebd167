SPECIFICATION Spec
CONSTANTS
  NumBufs = 2
  Size = 12
  Begin = 2
  End = 2
  MaxUnsignaled = 1
  QueueCap = 1
  Reserves <- ReserveAny
  MaxEmitted = 4
  MaxEvents = 2
  Faults <- CommitFaults
INVARIANT TypeOK
INVARIANT WriteRegionFree
INVARIANT CommitsDisjoint
INVARIANT FetchesWritten
INVARIANT NoOverflow
INVARIANT SignalsConserved
PROPERTY StreamPreserved
CHECK_DEADLOCK FALSE
