---------------------------- MODULE CommandStream ----------------------------
(***************************************************************************)
(* What the command submission of src/attic/etnaviv/etna.c promises to its *)
(* client: the groups of commands the client emits are one stream, flushes *)
(* hand a prefix of it to the GPU, the GPU executes the stream in order    *)
(* and every group once, and etna_finish returns when the GPU has caught   *)
(* up with the client.  Buffers, offsets, signals and queues do not show.  *)
(***************************************************************************)
EXTENDS Integers, Sequences

VARIABLES
  emitted,   \* groups of commands written by the client
  submitted, \* groups handed to the kernel
  executed,  \* groups executed by the GPU, by number, in the order executed
  finishing  \* the client is inside etna_finish

svars == << emitted, submitted, executed, finishing >>

Init ==
  /\ emitted = 0
  /\ submitted = 0
  /\ executed = << >>
  /\ finishing = FALSE

Emit ==
  /\ ~finishing
  /\ emitted' = emitted + 1
  /\ UNCHANGED << submitted, executed, finishing >>

\* A flush hands over everything written so far.
Submit ==
  /\ ~finishing
  /\ submitted' = emitted
  /\ UNCHANGED << emitted, executed, finishing >>

StartFinish ==
  /\ ~finishing
  /\ submitted' = emitted
  /\ finishing' = TRUE
  /\ UNCHANGED << emitted, executed >>

\* The GPU executes the next groups of what was handed over.
Execute ==
  /\ \E k \in 1 .. submitted - Len(executed) :
       executed' = executed \o [i \in 1 .. k |-> Len(executed) + i]
  /\ UNCHANGED << emitted, submitted, finishing >>

EndFinish ==
  /\ finishing
  /\ Len(executed) = emitted
  /\ finishing' = FALSE
  /\ UNCHANGED << emitted, submitted, executed >>

Next == Emit \/ Submit \/ StartFinish \/ Execute \/ EndFinish

Spec == Init /\ [][Next]_svars

=============================================================================
