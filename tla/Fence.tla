-------------------------------- MODULE Fence --------------------------------
(***************************************************************************)
(* Fence emulation of src/attic/etnaviv/viv.c.                             *)
(*                                                                         *)
(* The kernel has no fences, only user signals.  The library deals fence   *)
(* numbers from a 32-bit counter, and gives fence f the kernel signal of   *)
(* slot f % N.  A context thread asks for a fence inside etna_flush, which *)
(* holds fence_mutex from the allocation of the number to the commit; any  *)
(* thread waits for a fence with viv_fence_finish, which lets go of the    *)
(* mutex while it blocks.  The signals are created with automatic reset:   *)
(* a completed wait takes the signal away from every other waiter.         *)
(*                                                                         *)
(* Fences are modelled by their position in the sequence of all fences     *)
(* ever dealt (a natural number); the code sees only Id(f), that number    *)
(* modulo Wrap.  Everything the code computes, it computes from ids.       *)
(***************************************************************************)
EXTENDS Integers, FiniteSets

CONSTANTS
  Threads,    \* threads that share one struct viv_conn
  Flushers,   \* threads that call etna_flush with a fence pointer
  Finishers,  \* threads that call viv_fence_finish
  Timed,      \* finishers that pass a finite timeout
  NoThread,   \* fence_mutex is free
  N,          \* VIV_NUM_FENCE_SIGNALS (32)
  Wrap,       \* number of fence ids (2^32)
  MaxAge,     \* bound: a handle is given up after that many newer fences
  MaxFence,   \* bound: number of fences dealt
  Faults      \* which kernel calls may fail: subset of {"commit", "wait"}

ASSUME ThreadsAssumption ==
  /\ Flushers \subseteq Threads
  /\ Finishers \subseteq Threads
  /\ Timed \subseteq Finishers
  /\ NoThread \notin Threads
ASSUME WidthAssumption ==
  /\ N \in Nat /\ N > 1
  /\ Wrap \in Nat /\ Wrap % N = 0
  /\ MaxAge \in Nat /\ 2 * (MaxAge + N) <= Wrap
ASSUME BoundAssumption == MaxFence \in Nat
ASSUME FaultAssumption == Faults \subseteq {"commit", "wait"}

VARIABLES
  issued,         \* fences dealt so far; next_fence_id is Id(issued)
  last_fence_id,  \* most recent fence known to be signalled
  fences_pending, \* slots whose signal was handed to the kernel, not yet waited for
  fence_mutex,    \* the holder, or NoThread
  signal,         \* kernel: state of the signal of each slot
  inflight,       \* kernel ring: committed fences the GPU has not reached
  returned,       \* fences a successful etna_flush gave to its caller
  pc,             \* where each thread is
  fence           \* the fence each thread works on

vars == << issued, last_fence_id, fences_pending, fence_mutex, signal,
           inflight, returned, pc, fence >>

-----------------------------------------------------------------------------
(* Arithmetic on fence ids. *)

Slots == 0 .. N - 1
Ids == 0 .. Wrap - 1
Id(f) == f % Wrap
Slot_NoModulo(f) == Id(f)
Slot(f) == Id(f) % N

\* (int32_t)(b - a) > 0 and >= 0
FenceBefore(a, b) == (b - a) % Wrap \in 1 .. (Wrap \div 2) - 1
FenceBeforeEq(a, b) == (b - a) % Wrap \in 0 .. (Wrap \div 2) - 1

\* next_fence_id - fence, as an unsigned number
Distance(f) == (Id(issued) - Id(f)) % Wrap
TooOld(f) == Distance(f) >= N

\* last_fence_id only moves to a later fence.
Later(id) == IF FenceBefore(last_fence_id, id) THEN id ELSE last_fence_id

\* The fence whose signal a new fence f takes over.
OldFence_OffByOne(f) == Id(f - N + 1)
OldFence(f) == Id(f - N)

MustReuse_TrustLast(f) == Slot(f) \in fences_pending /\ FenceBefore(last_fence_id, OldFence(f))
MustReuse_Never(f) == Slot(f) \in {}
MustReuse(f) == Slot(f) \in fences_pending

\* The early return of viv_fence_finish.
KnownSignalled_Swapped(f) == Slot(f) \notin fences_pending \/ FenceBeforeEq(last_fence_id, Id(f))
KnownSignalled(f) == Slot(f) \notin fences_pending \/ FenceBeforeEq(Id(f), last_fence_id)

-----------------------------------------------------------------------------
Locations == { "idle",      \* outside the library
               "new",       \* etna_flush: mutex held, about to deal a fence
               "reuse",     \* _viv_fence_new: waiting for the slot's old signal
               "commit",    \* etna_flush: signal queued, about to commit
               "mark",      \* etna_flush: committed, not marked pending
               "wait",      \* viv_fence_finish: waiting for the signal
               "relock",    \* viv_fence_finish: signal taken, mutex not yet
               "ok",        \* viv_fence_finish: returned VIV_STATUS_OK
               "old" }      \* viv_fence_finish: returned OK for a too old fence

Init ==
  /\ issued = 0
  /\ last_fence_id = Wrap - 1
  /\ fences_pending = {}
  /\ fence_mutex = NoThread
  /\ signal = [s \in Slots |-> FALSE]
  /\ inflight = {}
  /\ returned = {}
  /\ pc = [t \in Threads |-> "idle"]
  /\ fence = [t \in Threads |-> 0]

Goto(t, l) == pc' = [pc EXCEPT ![t] = l]

-----------------------------------------------------------------------------
(* etna_flush with a fence pointer. *)

\* Nobody still waits for a fence dealt MaxAge fences ago.
NoAncientWaiter ==
  \A u \in Threads : pc[u] \in {"wait", "relock"} => issued - fence[u] < MaxAge

FlushLock_NoMutex(t) ==
  /\ pc[t] = "idle"
  /\ issued < MaxFence
  /\ NoAncientWaiter
  /\ Goto(t, "new")
  /\ UNCHANGED << issued, last_fence_id, fences_pending, fence_mutex, signal, inflight, returned, fence >>

FlushLock(t) ==
  /\ pc[t] = "idle"
  /\ issued < MaxFence
  /\ NoAncientWaiter
  /\ fence_mutex = NoThread
  /\ fence_mutex' = t
  /\ Goto(t, "new")
  /\ UNCHANGED << issued, last_fence_id, fences_pending, signal, inflight, returned, fence >>

\* etna_flush asks again when it was dealt the id 0.
AfterNew(f) == IF Id(f) = 0 THEN "new" ELSE "commit"

\* _viv_fence_new up to the wait for the old signal.
FenceNew(t) ==
  /\ pc[t] = "new"
  /\ issued' = issued + 1
  /\ fence' = [fence EXCEPT ![t] = issued]
  /\ Goto(t, IF MustReuse(issued) THEN "reuse" ELSE AfterNew(issued))
  /\ UNCHANGED << last_fence_id, fences_pending, fence_mutex, signal, inflight, returned >>

\* _viv_fence_new: the wait for the old signal succeeds.
FenceReuse(t) ==
  LET f == fence[t] IN
  /\ pc[t] = "reuse"
  /\ signal[Slot(f)]
  /\ signal' = [signal EXCEPT ![Slot(f)] = FALSE]
  /\ last_fence_id' = Later(OldFence(f))
  /\ fences_pending' = fences_pending \ {Slot(f)}
  /\ Goto(t, AfterNew(f))
  /\ UNCHANGED << issued, fence_mutex, inflight, returned, fence >>

\* The wait fails: etna_flush unlocks and returns the error.
FenceReuseFails(t) ==
  /\ "wait" \in Faults
  /\ pc[t] = "reuse"
  /\ fence_mutex' = NoThread
  /\ Goto(t, "idle")
  /\ UNCHANGED << issued, last_fence_id, fences_pending, signal, inflight, returned, fence >>

\* The kernel takes the commands and the queue with the fence's signal.
FlushCommit(t) ==
  /\ pc[t] = "commit"
  /\ inflight' = inflight \union {fence[t]}
  /\ Goto(t, "mark")
  /\ UNCHANGED << issued, last_fence_id, fences_pending, fence_mutex, signal, returned, fence >>

\* Bound: no half of the id space is lost to failed commits in a row, without
\* one fence that moves last_fence_id along.
LossBound == (Id(issued) - last_fence_id) % Wrap <= Wrap \div 2 - N

\* Queueing the signal or committing fails: the number dealt is lost.
FlushCommitFails_NoUnlock(t) ==
  /\ "commit" \in Faults
  /\ LossBound
  /\ pc[t] = "commit"
  /\ Goto(t, "idle")
  /\ UNCHANGED << issued, last_fence_id, fences_pending, fence_mutex, signal, inflight, returned, fence >>

FlushCommitFails(t) ==
  /\ "commit" \in Faults
  /\ LossBound
  /\ pc[t] = "commit"
  /\ fence_mutex' = NoThread
  /\ Goto(t, "idle")
  /\ UNCHANGED << issued, last_fence_id, fences_pending, signal, inflight, returned, fence >>

\* _viv_fence_mark_pending, unlock, return the fence to the caller.
FlushMarkPending(t) ==
  LET f == fence[t] IN
  /\ pc[t] = "mark"
  /\ fences_pending' = IF TooOld(f) THEN fences_pending ELSE fences_pending \union {Slot(f)}
  /\ fence_mutex' = NoThread
  /\ returned' = returned \union {f}
  /\ Goto(t, "idle")
  /\ UNCHANGED << issued, last_fence_id, signal, inflight, fence >>

-----------------------------------------------------------------------------
(* viv_fence_finish. *)

\* From taking the mutex to the early return or to the wait.
FinishCheck(t, f) ==
  /\ pc[t] = "idle"
  /\ issued - f <= MaxAge
  /\ fence_mutex = NoThread
  /\ fence' = [fence EXCEPT ![t] = f]
  /\ Goto(t, IF TooOld(f) THEN "old"
             ELSE IF KnownSignalled(f) THEN "ok" ELSE "wait")
  /\ UNCHANGED << issued, last_fence_id, fences_pending, fence_mutex, signal, inflight, returned >>

FinishSignalled(t) ==
  /\ pc[t] = "wait"
  /\ signal[Slot(fence[t])]
  /\ signal' = [signal EXCEPT ![Slot(fence[t])] = FALSE]
  /\ Goto(t, "relock")
  /\ UNCHANGED << issued, last_fence_id, fences_pending, fence_mutex, inflight, returned, fence >>

\* VIV_STATUS_TIMEOUT, or an error from the kernel: nothing is recorded.
FinishTimeout(t) ==
  /\ t \in Timed
  /\ pc[t] = "wait"
  /\ Goto(t, "idle")
  /\ UNCHANGED << issued, last_fence_id, fences_pending, fence_mutex, signal, inflight, returned, fence >>

FinishRecord_Forgets(t) ==
  /\ pc[t] = "relock"
  /\ Goto(t, "ok")
  /\ UNCHANGED << issued, last_fence_id, fences_pending, fence_mutex, signal, inflight, returned, fence >>

FinishRecord(t) ==
  LET f == fence[t] IN
  /\ pc[t] = "relock"
  /\ fence_mutex = NoThread
  /\ fences_pending' = fences_pending \ {Slot(f)}
  /\ last_fence_id' = Later(Id(f))
  /\ Goto(t, "ok")
  /\ UNCHANGED << issued, fence_mutex, signal, inflight, returned, fence >>

\* The caller of viv_fence_finish goes on.
FinishReturn(t) ==
  /\ pc[t] \in {"ok", "old"}
  /\ Goto(t, "idle")
  /\ UNCHANGED << issued, last_fence_id, fences_pending, fence_mutex, signal, inflight, returned, fence >>

-----------------------------------------------------------------------------
(* The kernel has one ring: the GPU reaches fences in the order of their     *)
(* commits, and the kernel then sets the signal queued with the fence.       *)

NextInRing(f) == f \in inflight /\ \A g \in inflight : f <= g

GpuComplete(f) ==
  /\ NextInRing(f)
  /\ inflight' = inflight \ {f}
  /\ signal' = [signal EXCEPT ![Slot(f)] = TRUE]
  /\ UNCHANGED << issued, last_fence_id, fences_pending, fence_mutex, returned, pc, fence >>

-----------------------------------------------------------------------------
FlushStep(t) ==
  \/ FenceNew(t)
  \/ FenceReuse(t)
  \/ FlushCommit(t)
  \/ FlushMarkPending(t)

FlushFault(t) == FenceReuseFails(t) \/ FlushCommitFails(t)

FinishStep(t) ==
  \/ FinishSignalled(t)
  \/ FinishRecord(t)
  \/ FinishReturn(t)

Gpu == \E f \in inflight : GpuComplete(f)

Next ==
  \/ \E t \in Flushers : FlushLock(t) \/ FlushStep(t) \/ FlushFault(t)
  \/ \E t \in Finishers : (\E f \in returned : FinishCheck(t, f)) \/ FinishStep(t) \/ FinishTimeout(t)
  \/ Gpu

Spec == Init /\ [][Next]_vars

\* The GPU makes progress, every thread that can run eventually does, and the
\* mutex is not withheld for ever from a thread that keeps asking for it.
Fairness ==
  /\ WF_vars(Gpu)
  /\ \A t \in Flushers : SF_vars(FlushStep(t))
  /\ \A t \in Finishers : SF_vars(FinishStep(t))

FairSpec == Spec /\ Fairness

-----------------------------------------------------------------------------
(* Properties. *)

\* Every variable has its type.
TypeOK ==
  /\ issued \in Nat
  /\ last_fence_id \in Ids
  /\ fences_pending \subseteq Slots
  /\ fence_mutex \in Threads \union {NoThread}
  /\ signal \in [Slots -> BOOLEAN]
  /\ inflight \subseteq Nat
  /\ returned \subseteq Nat
  /\ pc \in [Threads -> Locations]
  /\ fence \in [Threads -> Nat]

(* Where the completion of a slot's fence can be: still with the GPU, in the
   signal, or taken by a viv_fence_finish that has yet to record it. *)
AtGpu(s) == \E f \in inflight : Slot(f) = s
AtCpu(s) == \E t \in Threads : pc[t] = "relock" /\ Slot(fence[t]) = s
Owed(s) == s \in fences_pending \/ \E t \in Threads : pc[t] = "mark" /\ Slot(fence[t]) = s

\* At most one completion exists per slot: no fence is committed to a slot
\* whose previous fence can still set the signal or be recorded.
CompletionUnique ==
  /\ \A f, g \in inflight : Slot(f) = Slot(g) => f = g
  /\ \A t, u \in Threads :
       pc[t] = "relock" /\ pc[u] = "relock" /\ Slot(fence[t]) = Slot(fence[u]) => t = u
  /\ \A s \in Slots : /\ ~(AtGpu(s) /\ signal[s])
                      /\ ~(AtGpu(s) /\ AtCpu(s))
                      /\ ~(signal[s] /\ AtCpu(s))

\* fences_pending says exactly of which slots a completion is outstanding,
\* whichever threads, timeouts and failed calls came in between.
CompletionConserved ==
  /\ CompletionUnique
  /\ \A s \in Slots : Owed(s) <=> (AtGpu(s) \/ signal[s] \/ AtCpu(s))

\* Every fence at or before last_fence_id has been reached by the GPU (the
\* comment in viv_fence_finish on the single ring buffer).
LastSignalledComplete ==
  \A f \in inflight : ~FenceBeforeEq(Id(f), last_fence_id)

\* viv_fence_finish reports OK by its wait or by its second early return only
\* for a fence the GPU has reached.
FinishSound == \A t \in Threads : pc[t] = "ok" => fence[t] \notin inflight

\* viv_fence_finish calls a fence too old only if the GPU has reached it ("it must
\* have been signalled already").
ExpiredComplete == \A t \in Threads : pc[t] = "old" => fence[t] \notin inflight

\* The ring of signals is never lapped: whoever gets the mutex finds that every
\* fence dealt more than N fences ago has been reached by the GPU.
RingNotLapped == fence_mutex = NoThread => \A f \in inflight : issued - f <= N

\* Submits are ordered by fence number (the comment in etna_flush): a commit
\* carries a later fence than every commit before it.
SubmitsOrdered ==
  [][\A f \in inflight' \ inflight : \A g \in inflight \union returned : g < f]_vars

\* An etna_flush that took the mutex lets go of it.
FlushReturns == \A t \in Flushers : fence_mutex = t ~> fence_mutex # t

\* A viv_fence_finish that waits returns.
FinishReturns == \A t \in Finishers : pc[t] = "wait" ~> pc[t] \in {"ok", "idle"}

=============================================================================
