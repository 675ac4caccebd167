SPECIFICATION FairSpec
CONSTANTS
  NumBuffers = 3
  MaxFrames = 8
  Faults <- AllFaults
INVARIANT TypeOK
INVARIANT BuffersCirculate
INVARIANT OneSwapPerBuffer
PROPERTY SwapReturns
PROPERTY FreeReturns
CHECK_DEADLOCK FALSE
