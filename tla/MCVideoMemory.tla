---------------------------- MODULE MCVideoMemory ----------------------------
EXTENDS VideoMemory, TLC

\* What the configurations give the constants.
NoPractices == {}
Sampling == {"sample"}
AllFaults == {"commit", "event", "unlock", "lock"}
NoFaults == {}

Symmetry == Permutations(CtxBufs) \union Permutations(Resources) \union Permutations(Contexts)

=============================================================================
