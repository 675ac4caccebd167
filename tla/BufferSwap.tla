------------------------------ MODULE BufferSwap ------------------------------
(***************************************************************************)
(* Swapping of the screen buffers: src/attic/lib/etna_bswap.c.             *)
(*                                                                         *)
(* The client copies each finished frame to the back buffer and queues the *)
(* buffer's "ready" signal behind the copy.  A display thread goes round   *)
(* the buffers: it waits until a buffer is ready, shows it, and makes the  *)
(* next one available.  Before it copies, the client waits until the back  *)
(* buffer is available.                                                    *)
(*                                                                         *)
(* The command stream below is abstract: a list of copies that the GPU     *)
(* executes in order (see CommandStream).                                  *)
(***************************************************************************)
EXTENDS Integers, Sequences, FiniteSets

CONSTANTS
  NumBuffers, \* bufs->num_buffers: 2 or 3
  MaxFrames,  \* bound: frames the client draws
  Faults      \* calls that may fail: subset of {"queue", "wait"}

ASSUME BuffersAssumption == NumBuffers \in 2 .. 3
ASSUME BoundAssumption == MaxFrames \in Nat
ASSUME FaultAssumption == Faults \subseteq {"queue", "wait"}

VARIABLES
  backbuffer,   \* the client's buffer
  is_available, \* of each buffer
  ready,        \* kernel: state of each buffer's sig_id_ready
  terminate,    \* etna_bswap_free was called
  client,       \* where the client is
  signalled,    \* etna_bswap_free: number of buffers signalled
  display,      \* where the display thread is
  cur,          \* the buffer the display thread is at
  front,        \* hardware: the buffer on the screen
  unsent,       \* copies in the command buffer
  ring,         \* copies handed to the GPU
  frame,        \* frames drawn by the client
  failed        \* history: a call failed

vars == << backbuffer, is_available, ready, terminate, client, signalled, display, cur, front,
           unsent, ring, frame, failed >>

-----------------------------------------------------------------------------
Buffers == 0 .. NumBuffers - 1
NextBuffer_NoWrap(b) == b + 1
NextBuffer(b) == (b + 1) % NumBuffers
Copy(b, signals) == [buf |-> b, signals |-> signals]

\* etna_bswap_create
Init ==
  /\ backbuffer = 1
  /\ is_available = [b \in Buffers |-> TRUE]
  /\ ready = [b \in Buffers |-> FALSE]
  /\ terminate = FALSE
  /\ client = "idle"
  /\ signalled = 0
  /\ display = "loop"
  /\ cur = 0
  /\ front = 0
  /\ unsent = << >>
  /\ ring = << >>
  /\ frame = 0
  /\ failed = FALSE

-----------------------------------------------------------------------------
(* The client: etna_swap_buffers. *)

\* etna_bswap_wait_available up to the wait: flush if it has to wait (whether
\* that flush succeeds is ignored).
SwapBuffers ==
  /\ client = "idle"
  /\ frame < MaxFrames
  /\ frame' = frame + 1
  /\ client' = "wait"
  /\ \/ /\ is_available[backbuffer] \/ "queue" \in Faults
        /\ UNCHANGED << ring, unsent >>
     \/ /\ ~is_available[backbuffer]
        /\ ring' = ring \o unsent
        /\ unsent' = << >>
  /\ UNCHANGED << backbuffer, is_available, ready, terminate, signalled, display, cur, front,
                  failed >>

WaitAvailable_KeepFlag ==
  /\ client = "wait"
  /\ is_available[backbuffer]
  /\ client' = "copy"
  /\ UNCHANGED << backbuffer, is_available, ready, terminate, signalled, display, cur, front,
                  unsent, ring, frame, failed >>

WaitAvailable ==
  /\ client = "wait"
  /\ is_available[backbuffer]
  /\ is_available' = [is_available EXCEPT ![backbuffer] = FALSE]
  /\ client' = "copy"
  /\ UNCHANGED << backbuffer, ready, terminate, signalled, display, cur, front, unsent, ring,
                  frame, failed >>

\* Copy, then etna_bswap_queue_swap.
QueueSwap ==
  /\ client = "copy"
  /\ ring' = ring \o unsent \o << Copy(backbuffer, TRUE) >>
  /\ unsent' = << >>
  /\ backbuffer' = NextBuffer(backbuffer)
  /\ client' = "idle"
  /\ UNCHANGED << is_available, ready, terminate, signalled, display, cur, front, frame, failed >>

\* Queueing the signal or the flush fails: etna_swap_buffers goes on.
QueueSwapFails ==
  /\ "queue" \in Faults
  /\ client = "copy"
  /\ unsent' = Append(unsent, Copy(backbuffer, FALSE))
  /\ client' = "idle"
  /\ failed' = TRUE
  /\ UNCHANGED << backbuffer, is_available, ready, terminate, signalled, display, cur, front,
                  ring, frame >>

\* etna_bswap_free
Free ==
  /\ client = "idle"
  /\ terminate' = TRUE
  /\ client' = "signal"
  /\ UNCHANGED << backbuffer, is_available, ready, signalled, display, cur, front, unsent,
                  ring, frame, failed >>

\* The ready signals are set one by one, so that the thread sees terminate.
FreeSignal_AllButLast ==
  /\ client = "signal"
  /\ ready' = [ready EXCEPT ![signalled] = TRUE]
  /\ signalled' = signalled + 1
  /\ client' = IF signalled + 1 = NumBuffers - 1 THEN "join" ELSE "signal"
  /\ UNCHANGED << backbuffer, is_available, terminate, display, cur, front, unsent, ring,
                  frame, failed >>

FreeSignal ==
  /\ client = "signal"
  /\ ready' = [ready EXCEPT ![signalled] = TRUE]
  /\ signalled' = signalled + 1
  /\ client' = IF signalled + 1 = NumBuffers THEN "join" ELSE "signal"
  /\ UNCHANGED << backbuffer, is_available, terminate, display, cur, front, unsent, ring,
                  frame, failed >>

FreeJoin ==
  /\ client = "join"
  /\ display = "ended"
  /\ client' = "freed"
  /\ UNCHANGED << backbuffer, is_available, ready, terminate, signalled, display, cur, front,
                  unsent, ring, frame, failed >>

-----------------------------------------------------------------------------
(* etna_bswap_thread. *)

DisplayLoop ==
  /\ display = "loop"
  /\ display' = IF terminate THEN "ended" ELSE "wait"
  /\ UNCHANGED << backbuffer, is_available, ready, terminate, client, signalled, cur, front,
                  unsent, ring, frame, failed >>

DisplayReady ==
  /\ display = "wait"
  /\ ready[cur]
  /\ ready' = [ready EXCEPT ![cur] = FALSE]
  /\ display' = "show"
  /\ UNCHANGED << backbuffer, is_available, terminate, client, signalled, cur, front, unsent,
                  ring, frame, failed >>

\* The wait fails: the thread returns.
DisplayWaitFails ==
  /\ "wait" \in Faults
  /\ display = "wait"
  /\ display' = "ended"
  /\ failed' = TRUE
  /\ UNCHANGED << backbuffer, is_available, ready, terminate, client, signalled, cur, front,
                  unsent, ring, frame >>

DisplayShow_SameBuffer ==
  /\ display = "show"
  /\ front' = cur
  /\ display' = "release"
  /\ UNCHANGED << backbuffer, is_available, ready, terminate, client, signalled, cur, unsent,
                  ring, frame, failed >>

DisplayShow ==
  /\ display = "show"
  /\ front' = cur
  /\ cur' = NextBuffer(cur)
  /\ display' = "release"
  /\ UNCHANGED << backbuffer, is_available, ready, terminate, client, signalled, unsent, ring,
                  frame, failed >>

DisplayRelease ==
  /\ display = "release"
  /\ is_available' = [is_available EXCEPT ![cur] = TRUE]
  /\ display' = "loop"
  /\ UNCHANGED << backbuffer, ready, terminate, client, signalled, cur, front, unsent, ring,
                  frame, failed >>

-----------------------------------------------------------------------------
(* The GPU copies a frame to its buffer, then the kernel sets the signal. *)

Gpu ==
  LET copy == Head(ring) IN
  /\ ring # << >>
  /\ ready' = IF copy.signals THEN [ready EXCEPT ![copy.buf] = TRUE] ELSE ready
  /\ ring' = Tail(ring)
  /\ UNCHANGED << backbuffer, is_available, terminate, client, signalled, display, cur,
                  front, unsent, frame, failed >>

-----------------------------------------------------------------------------
Client == SwapBuffers \/ WaitAvailable \/ QueueSwap \/ QueueSwapFails
Freeing == FreeSignal \/ FreeJoin
Display == DisplayLoop \/ DisplayReady \/ DisplayShow \/ DisplayRelease

Next == Client \/ Free \/ Freeing \/ Display \/ DisplayWaitFails \/ Gpu

Spec == Init /\ [][Next]_vars

\* Both threads and the GPU run; a client may stop drawing, or fail to.
FairSpec ==
  /\ Spec
  /\ WF_vars(WaitAvailable) /\ WF_vars(Freeing)
  /\ WF_vars(Display) /\ WF_vars(Gpu)

-----------------------------------------------------------------------------
(* Properties. *)

\* Every variable has its type.
TypeOK ==
  /\ backbuffer \in Buffers /\ cur \in Buffers /\ front \in Buffers
  /\ is_available \in [Buffers -> BOOLEAN]
  /\ ready \in [Buffers -> BOOLEAN]
  /\ terminate \in BOOLEAN /\ failed \in BOOLEAN
  /\ client \in {"idle", "wait", "copy", "signal", "join", "freed"}
  /\ signalled \in 0 .. NumBuffers
  /\ display \in {"loop", "wait", "show", "release", "ended"}
  /\ ring \in Seq([buf : Buffers, signals : BOOLEAN])
  /\ unsent \in Seq([buf : Buffers, signals : BOOLEAN])
  /\ frame \in Nat

\* Until the buffers are freed, the display thread never gives back a buffer
\* that is available already: no release is lost.
ReleasedOnce == display = "release" /\ ~terminate => ~is_available[cur]

\* The threads never wait for each other: unless a call failed, a client that waits for
\* its back buffer when the GPU is done has it, or the display thread has a frame to
\* show; a client that joins the display thread has set the signal that wakes it up.
NeverStuck ==
  /\ client = "wait" /\ display = "wait" /\ ring = << >> /\ ~failed =>
       is_available[backbuffer] \/ ready[cur]
  /\ client = "join" /\ display = "wait" => ready[cur]

\* No release is lost, and none is missing.
BuffersCirculate == ReleasedOnce /\ NeverStuck

\* Until the buffers are freed, a buffer is on its way to the screen once at
\* most, and not available meanwhile: is_available keeps the client from
\* queueing a second copy to a buffer whose first the GPU has not reached.
OneSwapPerBuffer ==
  ~terminate =>
    \A i \in DOMAIN ring :
      /\ ~is_available[ring[i].buf]
      /\ \A j \in DOMAIN ring : ring[i].buf = ring[j].buf => i = j

\* A client that waits for its back buffer gets it, if no call fails.
SwapReturns == client = "wait" ~> client # "wait" \/ failed

\* etna_bswap_free joins the display thread and returns, wherever the two were
\* and whatever failed before.
FreeReturns == client = "signal" ~> client = "freed"

=============================================================================
