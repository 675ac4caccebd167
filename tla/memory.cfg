SPECIFICATION Spec
CONSTANTS
  Contexts = {c1, c2}
  Resources = {r1}
  CtxBufs = {b1, b2, b3, b4}
  NoContext = NoContext
  HasContext = TRUE
  QueueCap = 2
  MaxRing = 4
  Practices <- NoPractices
  Faults <- AllFaults
SYMMETRY Symmetry
INVARIANT TypeOK
INVARIANT NoUseAfterFree
INVARIANT MemoryConserved
INVARIANT ContextBufferIdle
CHECK_DEADLOCK FALSE
