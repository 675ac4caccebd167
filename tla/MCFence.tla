------------------------------- MODULE MCFence -------------------------------
(* Small instances of Fence for TLC. *)
EXTENDS Fence, TLC

CONSTANTS a, b

OneThread == {a}
TwoThreads == {a, b}
OtherThread == {b}
NoFaults == {}
CommitFaults == {"commit"}
AllFaults == {"commit", "wait"}
None == {}

Symmetry2 == Permutations(TwoThreads)
=============================================================================
