---------------------------- MODULE MCBufferSwap ----------------------------
(* Small instances of BufferSwap for TLC. *)
EXTENDS BufferSwap

NoFaults == {}
AllFaults == {"queue", "wait"}
=============================================================================
