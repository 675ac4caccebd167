------------------------------ MODULE MCCmdBuf ------------------------------
(* Small instances of CmdBuf for TLC. *)
EXTENDS CmdBuf

ReserveAny == {2, 3, 8}
ReserveFew == {2, 8}
NoFaults == {}
CommitFaults == {"commit"}
WaitFaults == {"wait"}
AllFaults == {"commit", "wait"}
=============================================================================
