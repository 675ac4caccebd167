---------------------------- MODULE FenceProofs ----------------------------
(***************************************************************************)
(* Proofs about Fence, for every number of threads, of signals and of ids, *)
(* and whichever kernel calls fail.                                        *)
(***************************************************************************)
EXTENDS Fence, TLAPS

-----------------------------------------------------------------------------
(* Arithmetic on ids. *)

\* Quotient and remainder.
LEMMA DivMod ==
  ASSUME NEW x \in Int, NEW m \in Nat, m > 0
  PROVE  /\ x = (m * (x \div m)) + (x % m)
         /\ x \div m \in Int
         /\ x % m \in 0 .. m - 1
  OBVIOUS

\* A remainder is determined by its range.
LEMMA ModUnique ==
  ASSUME NEW q \in Int, NEW r \in Int, NEW m \in Nat, m > 0, 0 <= r, r < m
  PROVE  ((m * q) + r) % m = r
  OBVIOUS

\* Adding a multiple of the modulus changes nothing.
LEMMA ModShift ==
  ASSUME NEW x \in Int, NEW q \in Int, NEW m \in Nat, m > 0
  PROVE  (x + (m * q)) % m = x % m
<1>1. PICK p \in Int, r \in 0 .. m - 1 : x = (m * p) + r /\ x % m = r
  BY DivMod
<1>2. x + (m * q) = (m * (p + q)) + r
  BY <1>1
<1>3. ((m * (p + q)) + r) % m = r
  BY <1>1, ModUnique
<1>4. QED BY <1>1, <1>2, <1>3

\* Subtracting ids gives the difference of the numbers, modulo.
LEMMA ModDifference ==
  ASSUME NEW x \in Int, NEW y \in Int, NEW m \in Nat, m > 0
  PROVE  ((x % m) - (y % m)) % m = (x - y) % m
<1>1. PICK p \in Int, r \in 0 .. m - 1 : x = (m * p) + r /\ x % m = r
  BY DivMod
<1>2. PICK q \in Int, s \in 0 .. m - 1 : y = (m * q) + s /\ y % m = s
  BY DivMod
<1>3. x - y = (r - s) + (m * (p - q))
  BY <1>1, <1>2
<1>4. r - s \in Int /\ p - q \in Int
  BY <1>1, <1>2
<1>5. ((r - s) + (m * (p - q))) % m = (r - s) % m
  BY <1>4, ModShift
<1>6. QED BY <1>1, <1>2, <1>3, <1>5

\* Every fence has a slot, and every id is in range.
LEMMA SlotType ==
  ASSUME NEW f \in Int
  PROVE  Slot(f) \in Slots /\ Id(f) \in Ids
<1>1. Wrap \in Nat /\ Wrap > 0 /\ N \in Nat /\ N > 0
  BY WidthAssumption
<1>2. Id(f) \in Ids /\ Id(f) \in Int
  BY <1>1, DivMod DEF Id, Ids
<1>3. QED BY <1>1, <1>2, DivMod DEF Slot, Slots

\* The fence dealt last is never too old.
LEMMA NewestNotTooOld ==
  ASSUME NEW f \in Nat, issued = f + 1
  PROVE  ~TooOld(f)
<1>1. Wrap \in Nat /\ Wrap > 1 /\ N \in Nat /\ N > 1
  BY WidthAssumption
<1>2. Distance(f) = (issued - f) % Wrap
  BY <1>1, ModDifference DEF Distance, Id
<1>3. (issued - f) = (Wrap * 0) + 1
  BY <1>1
<1>4. ((Wrap * 0) + 1) % Wrap = 1
  BY <1>1, ModUnique
<1>5. QED BY <1>1, <1>2, <1>3, <1>4 DEF TooOld

-----------------------------------------------------------------------------
(* Type correctness. *)

LEMMA TypeInit == Init => TypeOK
<1>1. Wrap \in Nat /\ Wrap > 0
  BY WidthAssumption
<1>2. QED BY <1>1 DEF Init, TypeOK, Ids, Locations

LEMMA TypePreserved == TypeOK /\ [Next]_vars => TypeOK'
<1> SUFFICES ASSUME TypeOK, [Next]_vars PROVE TypeOK'
  OBVIOUS
<1> USE DEF TypeOK, Goto, Locations
<1>1. ASSUME NEW f \in Nat
      PROVE  Slot(f) \in Slots /\ Later(Id(f)) \in Ids /\ Later(OldFence(f)) \in Ids
  <2>1. f - N \in Int
    BY WidthAssumption
  <2>2. Id(f) \in Ids /\ OldFence(f) \in Ids
    BY <2>1, SlotType DEF OldFence, Id
  <2>3. QED BY <2>2, SlotType DEF Later
<1>2. ASSUME NEW t \in Flushers, FlushLock(t) PROVE TypeOK'
  BY <1>2, ThreadsAssumption DEF FlushLock
<1>3. ASSUME NEW t \in Flushers, FenceNew(t) PROVE TypeOK'
  BY <1>3, ThreadsAssumption DEF FenceNew, AfterNew
<1>4. ASSUME NEW t \in Flushers, FenceReuse(t) PROVE TypeOK'
  BY <1>4, <1>1, ThreadsAssumption DEF FenceReuse, AfterNew
<1>5. ASSUME NEW t \in Flushers, FlushCommit(t) PROVE TypeOK'
  BY <1>5, ThreadsAssumption DEF FlushCommit
<1>6. ASSUME NEW t \in Flushers, FlushMarkPending(t) PROVE TypeOK'
  BY <1>6, <1>1, ThreadsAssumption DEF FlushMarkPending
<1>7. ASSUME NEW t \in Flushers, FlushFault(t) PROVE TypeOK'
  BY <1>7, ThreadsAssumption DEF FlushFault, FenceReuseFails, FlushCommitFails
<1>8. ASSUME NEW t \in Finishers, NEW f \in returned, FinishCheck(t, f) PROVE TypeOK'
  BY <1>8, ThreadsAssumption DEF FinishCheck
<1>9. ASSUME NEW t \in Finishers, FinishSignalled(t) PROVE TypeOK'
  BY <1>9, ThreadsAssumption DEF FinishSignalled
<1>10. ASSUME NEW t \in Finishers, FinishRecord(t) PROVE TypeOK'
  BY <1>10, <1>1, ThreadsAssumption DEF FinishRecord
<1>11. ASSUME NEW t \in Finishers, FinishReturn(t) \/ FinishTimeout(t) PROVE TypeOK'
  BY <1>11, ThreadsAssumption DEF FinishReturn, FinishTimeout
<1>12. ASSUME NEW f \in inflight, GpuComplete(f) PROVE TypeOK'
  BY <1>12 DEF GpuComplete
<1>13. CASE UNCHANGED vars
  BY <1>13 DEF vars
<1>14. QED
  BY <1>2, <1>3, <1>4, <1>5, <1>6, <1>7, <1>8, <1>9, <1>10, <1>11, <1>12, <1>13
     DEF Next, FlushStep, FinishStep, Gpu

\* Every reachable state is well typed (TypeOK).
THEOREM TypeCorrect == Spec => []TypeOK
<1>1. QED BY TypeInit, TypePreserved, PTL DEF Spec

-----------------------------------------------------------------------------
(* The inductive invariant. *)

\* A thread between FlushLock and the unlock holds the mutex, works on the
\* fence dealt last, waits only for a slot that is pending, and commits only to
\* a slot that is not.
MutexDiscipline ==
  \A t \in Threads :
    /\ pc[t] \in {"new", "reuse", "commit", "mark"} => fence_mutex = t
    /\ pc[t] \in {"reuse", "commit", "mark"} => issued = fence[t] + 1
    /\ pc[t] = "commit" => Slot(fence[t]) \notin fences_pending
    /\ pc[t] = "reuse" => Slot(fence[t]) \in fences_pending

FenceInv == TypeOK /\ MutexDiscipline /\ CompletionConserved

LEMMA FenceInvInit == Init => FenceInv
<1> SUFFICES ASSUME Init PROVE FenceInv
  OBVIOUS
<1>1. TypeOK
  BY TypeInit
<1>2. MutexDiscipline
  BY DEF Init, MutexDiscipline
<1>3. CompletionConserved
  BY DEF Init, CompletionConserved, CompletionUnique, Owed, AtGpu, AtCpu
<1>4. QED BY <1>1, <1>2, <1>3 DEF FenceInv

\* The mutex excludes: only its holder is between FlushLock and the unlock.
LEMMA MutexPreserved ==
  ASSUME TypeOK, MutexDiscipline, [Next]_vars
  PROVE  MutexDiscipline'
<1> USE ThreadsAssumption DEF TypeOK, MutexDiscipline, Goto, Locations
<1>1. ASSUME NEW t \in Flushers, FlushLock(t) PROVE MutexDiscipline'
  BY <1>1 DEF FlushLock
<1>2. ASSUME NEW t \in Flushers, FenceNew(t) PROVE MutexDiscipline'
  BY <1>2 DEF FenceNew, AfterNew, MustReuse
<1>3. ASSUME NEW t \in Flushers, FenceReuse(t) PROVE MutexDiscipline'
  BY <1>3 DEF FenceReuse, AfterNew
<1>4. ASSUME NEW t \in Flushers, FlushCommit(t) PROVE MutexDiscipline'
  BY <1>4 DEF FlushCommit
<1>5. ASSUME NEW t \in Flushers, FlushMarkPending(t) PROVE MutexDiscipline'
  BY <1>5 DEF FlushMarkPending
<1>6. ASSUME NEW t \in Flushers, FlushFault(t) PROVE MutexDiscipline'
  BY <1>6 DEF FlushFault, FenceReuseFails, FlushCommitFails
<1>7. ASSUME NEW t \in Finishers, NEW f \in returned, FinishCheck(t, f) PROVE MutexDiscipline'
  BY <1>7 DEF FinishCheck
<1>8. ASSUME NEW t \in Finishers, FinishStep(t) \/ FinishTimeout(t) PROVE MutexDiscipline'
  BY <1>8 DEF FinishStep, FinishSignalled, FinishRecord, FinishReturn, FinishTimeout
<1>9. ASSUME NEW f \in inflight, GpuComplete(f) PROVE MutexDiscipline'
  BY <1>9 DEF GpuComplete
<1>10. CASE UNCHANGED vars
  BY <1>10 DEF vars, Slot, Id
<1>11. QED
  BY <1>1, <1>2, <1>3, <1>4, <1>5, <1>6, <1>7, <1>8, <1>9, <1>10 DEF Next, FlushStep, Gpu

\* No step loses or duplicates the completion of a slot.
LEMMA CompletionPreserved ==
  ASSUME TypeOK, MutexDiscipline, CompletionConserved, [Next]_vars
  PROVE  CompletionConserved'
<1> USE ThreadsAssumption DEF TypeOK, Goto, Locations, CompletionConserved,
        CompletionUnique, Owed, AtGpu, AtCpu
<1>0. \A f \in Nat : Slot(f) \in Slots
  BY SlotType
\* A step of a thread that neither enters nor leaves "mark" or "relock" moves
\* no completion.
<1>q. ASSUME NEW t \in Threads, NEW l \in Locations \ {"mark", "relock"},
             NEW f \in Nat,
             pc[t] \notin {"mark", "relock"}, Goto(t, l),
             fence' = [fence EXCEPT ![t] = f] \/ fence' = fence,
             UNCHANGED << fences_pending, signal, inflight >>
      PROVE  CompletionConserved'
  <2>1. \A u \in Threads : pc'[u] \in {"mark", "relock"} \/ pc[u] \in {"mark", "relock"}
                          => pc'[u] = pc[u] /\ fence'[u] = fence[u]
    BY <1>q
  <2>2. \A s \in Slots : /\ AtCpu(s)' <=> AtCpu(s)
                         /\ AtGpu(s)' <=> AtGpu(s)
                         /\ Owed(s)' <=> Owed(s)
    BY <1>q, <2>1 DEF Slot, Id
  <2>3. CompletionUnique'
    BY <1>q, <2>1, <2>2 DEF Slot, Id
  <2>4. QED BY <2>2, <2>3, <1>q
<1>1. ASSUME NEW t \in Flushers, FlushLock(t) PROVE CompletionConserved'
  BY <1>1, <1>q DEF FlushLock
<1>2. ASSUME NEW t \in Flushers, FenceNew(t) PROVE CompletionConserved'
  BY <1>2, <1>q DEF FenceNew, AfterNew
<1>3. ASSUME NEW t \in Flushers, FlushFault(t) PROVE CompletionConserved'
  BY <1>3, <1>q DEF FlushFault, FenceReuseFails, FlushCommitFails
<1>4. ASSUME NEW t \in Finishers, NEW f \in returned, FinishCheck(t, f)
      PROVE  CompletionConserved'
  BY <1>4, <1>q DEF FinishCheck
<1>5. ASSUME NEW t \in Finishers, FinishReturn(t) \/ FinishTimeout(t)
      PROVE  CompletionConserved'
  BY <1>5, <1>q DEF FinishReturn, FinishTimeout
\* The slot's signal is taken: the slot owes nothing any more.
<1>6. ASSUME NEW t \in Flushers, FenceReuse(t) PROVE CompletionConserved'
  BY <1>6, <1>0 DEF FenceReuse, AfterNew, MutexDiscipline
\* A commit to a slot that owes nothing.
<1>7. ASSUME NEW t \in Flushers, FlushCommit(t) PROVE CompletionConserved'
  BY <1>7, <1>0 DEF FlushCommit, MutexDiscipline
<1>8. ASSUME NEW t \in Flushers, FlushMarkPending(t) PROVE CompletionConserved'
  <2>1. ~TooOld(fence[t])
    BY <1>8, NewestNotTooOld DEF FlushMarkPending, MutexDiscipline
  <2>2. fences_pending' = fences_pending \union {Slot(fence[t])}
    BY <1>8, <2>1 DEF FlushMarkPending
  <2>3. QED BY <1>8, <2>2, <1>0 DEF FlushMarkPending, MutexDiscipline
\* The completion moves from the GPU to the signal to the waiter to the record.
<1>9. ASSUME NEW f \in inflight, GpuComplete(f) PROVE CompletionConserved'
  BY <1>9, <1>0 DEF GpuComplete, NextInRing
<1>10. ASSUME NEW t \in Finishers, FinishSignalled(t) PROVE CompletionConserved'
  BY <1>10, <1>0 DEF FinishSignalled
<1>11. ASSUME NEW t \in Finishers, FinishRecord(t) PROVE CompletionConserved'
  BY <1>11, <1>0 DEF FinishRecord, MutexDiscipline
<1>12. CASE UNCHANGED vars
  BY <1>12 DEF vars, Slot, Id
<1>13. QED
  BY <1>1, <1>2, <1>3, <1>4, <1>5, <1>6, <1>7, <1>8, <1>9, <1>10, <1>11, <1>12
     DEF Next, FlushStep, FinishStep, Gpu

LEMMA FenceInvPreserved == FenceInv /\ [Next]_vars => FenceInv'
  BY TypePreserved, MutexPreserved, CompletionPreserved DEF FenceInv

\* The completion of a slot's fence is in exactly one place, and
\* fences_pending says which slots have one: in every reachable state, for all
\* interleavings of flushes, waits, timeouts and failed kernel calls.
THEOREM CompletionSafety == Spec => []CompletionConserved
<1>1. FenceInv => CompletionConserved
  BY DEF FenceInv
<1>2. QED BY <1>1, FenceInvInit, FenceInvPreserved, PTL DEF Spec

\* An etna_flush that waits for the signal of an old fence waits for the GPU,
\* or for a thread that took the signal in viv_fence_finish and now waits for
\* the mutex that etna_flush holds.
BlockedByFinisher ==
  \A t \in Threads :
    LET s == Slot(fence[t]) IN pc[t] = "reuse" => AtGpu(s) \/ signal[s] \/ AtCpu(s)

\* The only ways for etna_flush to block in _viv_fence_new.
THEOREM FlushBlocksOnlyBehindFinisher == Spec => []BlockedByFinisher
<1>1. FenceInv => BlockedByFinisher
  <2> SUFFICES ASSUME FenceInv, NEW t \in Threads, pc[t] = "reuse"
               PROVE  AtGpu(Slot(fence[t])) \/ signal[Slot(fence[t])] \/ AtCpu(Slot(fence[t]))
    BY DEF BlockedByFinisher
  <2>1. Slot(fence[t]) \in Slots /\ Slot(fence[t]) \in fences_pending
    BY SlotType DEF FenceInv, TypeOK, MutexDiscipline
  <2>2. QED BY <2>1 DEF FenceInv, CompletionConserved, Owed
<1>2. QED BY <1>1, FenceInvInit, FenceInvPreserved, PTL DEF Spec

-----------------------------------------------------------------------------
(* The order of the commits. *)

\* Every fence in the ring or with a caller was dealt before the one that is
\* about to be committed.
OrderInv ==
  /\ \A g \in inflight \union returned : g < issued
  /\ \A t \in Threads : pc[t] \in {"reuse", "commit"} =>
       \A g \in inflight \union returned : g < fence[t]
  /\ \A t \in Threads : pc[t] = "mark" => fence[t] \in Nat /\ fence[t] < issued

LEMMA OrderPreserved ==
  ASSUME TypeOK, MutexDiscipline, OrderInv, [Next]_vars
  PROVE  OrderInv'
<1> USE ThreadsAssumption DEF TypeOK, OrderInv, MutexDiscipline, Goto, Locations
<1>1. ASSUME NEW t \in Flushers, FlushLock(t) PROVE OrderInv'
  BY <1>1 DEF FlushLock
<1>2. ASSUME NEW t \in Flushers, FenceNew(t) PROVE OrderInv'
  BY <1>2 DEF FenceNew, AfterNew
<1>3. ASSUME NEW t \in Flushers, FenceReuse(t) PROVE OrderInv'
  BY <1>3 DEF FenceReuse, AfterNew
<1>4. ASSUME NEW t \in Flushers, FlushCommit(t) PROVE OrderInv'
  BY <1>4 DEF FlushCommit
<1>5. ASSUME NEW t \in Flushers, FlushMarkPending(t) PROVE OrderInv'
  BY <1>5 DEF FlushMarkPending
<1>6. ASSUME NEW t \in Flushers, FlushFault(t) PROVE OrderInv'
  BY <1>6 DEF FlushFault, FenceReuseFails, FlushCommitFails
<1>7. ASSUME NEW t \in Finishers, NEW f \in returned, FinishCheck(t, f) PROVE OrderInv'
  BY <1>7 DEF FinishCheck
<1>8. ASSUME NEW t \in Finishers, FinishStep(t) \/ FinishTimeout(t) PROVE OrderInv'
  BY <1>8 DEF FinishStep, FinishSignalled, FinishRecord, FinishReturn, FinishTimeout
<1>9. ASSUME NEW f \in inflight, GpuComplete(f) PROVE OrderInv'
  BY <1>9 DEF GpuComplete
<1>10. CASE UNCHANGED vars
  BY <1>10 DEF vars
<1>11. QED
  BY <1>1, <1>2, <1>3, <1>4, <1>5, <1>6, <1>7, <1>8, <1>9, <1>10 DEF Next, FlushStep, Gpu

\* Submits are ordered by fence number: what etna_flush takes the mutex for.
THEOREM SubmitOrder == Spec => SubmitsOrdered
<1>1. Init => TypeOK /\ MutexDiscipline /\ OrderInv
  BY FenceInvInit DEF FenceInv, Init, OrderInv
<1>2. TypeOK /\ MutexDiscipline /\ OrderInv /\ [Next]_vars => MutexDiscipline' /\ OrderInv'
  BY MutexPreserved, OrderPreserved
<1>3. TypeOK /\ MutexDiscipline /\ OrderInv /\ [Next]_vars
        => [\A f \in inflight' \ inflight : \A g \in inflight \union returned : g < f]_vars
  <2> SUFFICES ASSUME TypeOK, OrderInv, Next,
                      NEW f \in inflight' \ inflight, NEW g \in inflight \union returned
               PROVE  g < f
    OBVIOUS
  <2>1. PICK t \in Flushers : FlushCommit(t)
    BY DEF Next, FlushStep, FlushFault, FinishStep, Gpu, FlushLock, FenceNew, FenceReuse,
           FlushMarkPending, FenceReuseFails, FlushCommitFails, FinishCheck, FinishSignalled,
           FinishRecord, FinishReturn, FinishTimeout, GpuComplete
  <2>2. QED BY <2>1, ThreadsAssumption DEF FlushCommit, OrderInv
<1>4. QED BY <1>1, <1>2, <1>3, TypeCorrect, PTL DEF Spec, SubmitsOrdered

-----------------------------------------------------------------------------
(* Which fence a signal stands for, and where last_fence_id is. *)

Half == Wrap \div 2

\* The mutex is held only between FlushLock and the unlock.
Holder == fence_mutex \in Threads => pc[fence_mutex] \in {"new", "reuse", "commit", "mark"}

\* No waiting flush deals with fence k.
Settled(k) == \A t \in Threads : pc[t] = "reuse" => fence[t] # k

\* A fence in the ring is the newest of its slot.
NewestInRing ==
  \A f \in inflight : \A k \in Int :
    k < issued /\ Slot(k) = Slot(f) /\ Settled(k) => k <= f

\* A signal that is set is the one of the newest fence of its slot: the ring holds
\* only fences behind it.
SignalledPassed ==
  \A h \in inflight : \A k \in Int :
    k < issued /\ signal[Slot(k)] /\ Settled(k) => k < h

\* The same of a fence whose signal a waiter took, and of a finished one.
WaitersPassed ==
  \A t \in Threads :
    /\ pc[t] \in {"wait", "relock", "ok"} => fence[t] \in returned
    /\ pc[t] = "relock" => \A h \in inflight : fence[t] < h
    /\ pc[t] = "ok" => fence[t] \notin inflight

\* The fences a waiter may lag behind: the id 0 is dealt in addition to the next one.
Skipped(k) == IF Id(k) = 0 THEN 1 ELSE 0
Ages ==
  \A t \in Threads : pc[t] \in {"wait", "relock"} =>
    /\ fence_mutex = NoThread => issued - fence[t] <= MaxAge + Skipped(issued - 2)
    /\ \A u \in Threads :
         /\ pc[u] = "new" => issued - fence[t] <= MaxAge - 1 + Skipped(issued - 1)
         /\ pc[u] \in {"reuse", "commit", "mark"} =>
              issued - fence[t] <= MaxAge + Skipped(issued - 2)

\* last_fence_id is the id of fence l.  It lags behind the fences that may be
\* lost in a row, and the one that is being committed ...
Short(l) ==
  /\ fence_mutex = NoThread => issued - l <= Half - N + Skipped(issued - 2)
  /\ \A t \in Threads :
       /\ pc[t] = "new" =>
            issued - l <= Half - N + Skipped(issued - 1) + Skipped(issued - 2)
       /\ pc[t] \in {"reuse", "commit", "mark"} =>
            issued - l <= Half - N + 1 + Skipped(issued - 2) + Skipped(issued - 3)

\* ... or N fences more behind one that is pending, since its slot comes up by then.
Held(l) ==
  \E c \in 0 .. issued - 1 :
    /\ c - l <= Half - N + 1
    /\ Slot(c) \in fences_pending
    /\ issued - c <= N \/ (issued - c = N + 1 /\ \E t \in Threads : pc[t] = "reuse")

LastIs(l) ==
  /\ last_fence_id = Id(l)
  /\ l < issued
  /\ \A t \in Threads : pc[t] \in {"reuse", "commit"} => l < fence[t]
  /\ \A h \in inflight : l < h
  /\ Short(l) \/ Held(l)

LastKnown == \E l \in Int : LastIs(l)

WindowInv == Holder /\ NewestInRing /\ SignalledPassed /\ WaitersPassed /\ Ages /\ LastKnown

\* The constants, where handles may be as old as the ring of signals is long.
LEMMA Sizes ==
  ASSUME N <= MaxAge
  PROVE  /\ N \in Nat /\ N >= 2
         /\ Wrap \in Nat /\ Wrap >= 8
         /\ MaxAge \in Nat
         /\ Half \in Nat /\ 2 * Half <= Wrap /\ Wrap <= (2 * Half) + 1
         /\ MaxAge + N <= Half
  BY WidthAssumption DEF Half

\* Quotient and remainder, to be picked.
LEMMA Divided ==
  ASSUME NEW x \in Int, NEW m \in Nat, m > 0
  PROVE  \E q \in Int, r \in 0 .. m - 1 : x = (m * q) + r /\ x % m = r
  BY DivMod

\* The difference of two ids is the difference of the fences.
LEMMA IdDifference ==
  ASSUME NEW x \in Int, NEW y \in Int
  PROVE  (Id(x) - Id(y)) % Wrap = (x - y) % Wrap
<1>1. Wrap \in Nat /\ Wrap > 0
  BY WidthAssumption
<1>2. QED BY <1>1, ModDifference DEF Id

\* The slot of a fence is its remainder: N divides the number of ids.
LEMMA SlotIs ==
  ASSUME NEW f \in Int
  PROVE  Slot(f) = f % N
<1>1. N \in Nat /\ N > 0 /\ Wrap \in Nat /\ Wrap > 0
  BY WidthAssumption
<1>2. PICK p \in Int : Wrap = N * p
  BY <1>1, DivMod, WidthAssumption
<1>3. PICK q \in Int, r \in 0 .. Wrap - 1 : f = (Wrap * q) + r /\ f % Wrap = r
  BY <1>1, Divided
<1>4. f = r + (N * (p * q)) /\ p * q \in Int /\ r \in Int
  <2>1. (N * p) * q = N * (p * q)
    BY <1>1
  <2>2. QED BY <1>1, <1>2, <1>3, <2>1
<1>5. (r + (N * (p * q))) % N = r % N
  BY <1>1, <1>3, <1>4, ModShift
<1>6. QED BY <1>3, <1>4, <1>5 DEF Slot, Id

\* Two fences of one slot are at least N apart, and N apart they have one slot.
LEMMA SlotApart ==
  ASSUME NEW f \in Int, NEW g \in Int, Slot(f) = Slot(g), f < g
  PROVE  f + N <= g
<1>1. N \in Nat /\ N > 0
  BY WidthAssumption
<1>2. PICK p \in Int, r \in 0 .. N - 1 : f = (N * p) + r /\ f % N = r
  BY <1>1, Divided
<1>3. PICK q \in Int, s \in 0 .. N - 1 : g = (N * q) + s /\ g % N = s
  BY <1>1, Divided
<1>4. r = s
  BY <1>2, <1>3, SlotIs
<1>5. g - f = N * (q - p)
  BY <1>1, <1>2, <1>3, <1>4
<1>6. q - p >= 1
  BY <1>1, <1>5
<1>7. N * (q - p) >= N
  BY <1>1, <1>6
<1>8. QED BY <1>1, <1>5, <1>7

LEMMA SlotAgain ==
  ASSUME NEW f \in Int
  PROVE  Slot(f + N) = Slot(f) /\ Slot(f - N) = Slot(f)
<1>1. N \in Nat /\ N > 0
  BY WidthAssumption
<1>2. (f + (N * 1)) % N = f % N /\ (f + (N * (-1))) % N = f % N
  <2>1. 1 \in Int /\ -1 \in Int
    OBVIOUS
  <2>2. QED BY <1>1, <2>1, ModShift
<1>3. f + N \in Int /\ f - N \in Int /\ f + (N * 1) = f + N /\ f + (N * (-1)) = f - N
  BY <1>1
<1>4. Slot(f) = f % N /\ Slot(f + N) = (f + N) % N /\ Slot(f - N) = (f - N) % N
  BY <1>3, SlotIs
<1>5. QED BY <1>2, <1>3, <1>4

\* The id 0 is dealt once in Wrap fences.
LEMMA SkippedOnce ==
  ASSUME N <= MaxAge, NEW k \in Int
  PROVE  /\ Skipped(k) \in {0, 1}
         /\ Id(k) = 0 => Skipped(k) = 1
         /\ Id(k) # 0 => Skipped(k) = 0
         /\ Id(k) = 0 => Id(k + 1) # 0 /\ Id(k + 2) # 0
<1>1. Wrap \in Nat /\ Wrap >= 8
  BY Sizes
<1>2. ASSUME Id(k) = 0 PROVE Id(k + 1) # 0 /\ Id(k + 2) # 0
  <2>1. PICK p \in Int : k = (Wrap * p) + 0
    BY <1>1, <1>2, DivMod DEF Id
  <2>2. ((Wrap * p) + 1) % Wrap = 1 /\ ((Wrap * p) + 2) % Wrap = 2
    BY <1>1, ModUnique
  <2>3. k + 1 = (Wrap * p) + 1 /\ k + 2 = (Wrap * p) + 2
    BY <1>1, <2>1
  <2>4. QED BY <2>2, <2>3 DEF Id
<1>3. QED BY <1>2 DEF Skipped

\* The signed comparison is the comparison of positions that are less than half
\* the ids apart.
LEMMA IdsCompared ==
  ASSUME N <= MaxAge, NEW a \in Int, NEW b \in Int, b - a \in -Half .. Half
  PROVE  /\ FenceBefore(Id(a), Id(b)) <=> a < b /\ b - a < Half
         /\ FenceBeforeEq(Id(a), Id(b)) <=> a <= b /\ b - a < Half
<1>1. /\ Wrap \in Nat /\ Wrap >= 8
      /\ Half \in Nat /\ 2 * Half <= Wrap /\ Wrap <= (2 * Half) + 1
  BY Sizes
<1>2. (Id(b) - Id(a)) % Wrap = (b - a) % Wrap
  BY IdDifference
<1>3. CASE b >= a
  <2>1. ((Wrap * 0) + (b - a)) % Wrap = b - a
    BY <1>1, <1>3, ModUnique
  <2>2. (Wrap * 0) + (b - a) = b - a
    BY <1>1
  <2>3. QED BY <1>1, <1>2, <1>3, <2>1, <2>2 DEF FenceBefore, FenceBeforeEq, Half
<1>4. CASE b < a
  <2>1. ((Wrap * (-1)) + ((b - a) + Wrap)) % Wrap = (b - a) + Wrap
    BY <1>1, <1>4, ModUnique
  <2>2. (Wrap * (-1)) + ((b - a) + Wrap) = b - a
    BY <1>1
  <2>3. QED BY <1>1, <1>2, <1>4, <2>1, <2>2 DEF FenceBefore, FenceBeforeEq, Half
<1>5. QED BY <1>3, <1>4

\* Where last_fence_id goes.
LEMMA LaterIs ==
  ASSUME N <= MaxAge, NEW l \in Int, NEW x \in Int, last_fence_id = Id(l),
         x - l \in -Half .. Half
  PROVE  Later(Id(x)) = Id(IF l < x /\ x - l < Half THEN x ELSE l)
  BY IdsCompared DEF Later

-----------------------------------------------------------------------------
(* Each part is kept by each step. *)

LEMMA HolderPreserved ==
  ASSUME TypeOK, MutexDiscipline, Holder, [Next]_vars
  PROVE  Holder'
<1> USE ThreadsAssumption DEF TypeOK, MutexDiscipline, Holder, Goto, Locations
<1>1. ASSUME NEW t \in Flushers, FlushLock(t) \/ FlushStep(t) \/ FlushFault(t) PROVE Holder'
  BY <1>1 DEF FlushLock, FlushStep, FlushFault, FenceNew, FenceReuse, FlushCommit,
              FlushMarkPending, FenceReuseFails, FlushCommitFails, AfterNew
<1>2. ASSUME NEW t \in Finishers, NEW f \in returned, FinishCheck(t, f) PROVE Holder'
  BY <1>2 DEF FinishCheck
<1>3. ASSUME NEW t \in Finishers, FinishStep(t) \/ FinishTimeout(t) PROVE Holder'
  BY <1>3 DEF FinishStep, FinishSignalled, FinishRecord, FinishReturn, FinishTimeout
<1>4. ASSUME NEW f \in inflight, GpuComplete(f) PROVE Holder'
  BY <1>4 DEF GpuComplete
<1>5. CASE UNCHANGED vars
  BY <1>5 DEF vars
<1>6. QED BY <1>1, <1>2, <1>3, <1>4, <1>5 DEF Next, Gpu

\* A slot that a flush finds free of a signal owes none: nothing of it is on the way.
LEMMA NothingOwed ==
  ASSUME TypeOK, MutexDiscipline, CompletionConserved, NEW s \in Slots, s \notin fences_pending,
         \A u \in Threads : pc[u] # "mark"
  PROVE  ~signal[s] /\ \A f \in inflight : Slot(f) # s
  BY DEF CompletionConserved, Owed, AtGpu

\* NewestInRing and SignalledPassed.
LEMMA RingPreserved ==
  ASSUME TypeOK, MutexDiscipline, CompletionConserved, OrderInv, NewestInRing, SignalledPassed,
         "wait" \notin Faults, [Next]_vars
  PROVE  NewestInRing' /\ SignalledPassed'
<1> USE ThreadsAssumption DEF TypeOK
<1>0. \A k \in Int : Slot(k) \in Slots
  BY SlotType
<1>p. \A k \in Int : Slot(k)' = Slot(k)
  BY DEF Slot, Id
\* A step that neither sets a signal nor ends a wait.
<1>q. ASSUME issued' = issued, inflight' \subseteq inflight,
             \A s \in Slots : signal'[s] => signal[s],
             \A u \in Threads : pc[u] = "reuse" => pc'[u] = "reuse" /\ fence'[u] = fence[u]
      PROVE  NewestInRing' /\ SignalledPassed'
  <2>1. \A k \in Int : Settled(k)' => Settled(k)
    BY <1>q DEF Settled
  <2>2. QED BY <2>1, <1>q, <1>0, <1>p DEF NewestInRing, SignalledPassed
<1>1. ASSUME NEW t \in Flushers, FlushLock(t) \/ FlushFault(t) \/ FlushMarkPending(t)
      PROVE  NewestInRing' /\ SignalledPassed'
  BY <1>1, <1>q DEF FlushLock, FlushFault, FenceReuseFails, FlushCommitFails, FlushMarkPending, Goto
<1>2. ASSUME NEW t \in Finishers, NEW f \in returned, FinishCheck(t, f)
      PROVE  NewestInRing' /\ SignalledPassed'
  BY <1>2, <1>q DEF FinishCheck, Goto
<1>3. ASSUME NEW t \in Finishers, FinishStep(t) \/ FinishTimeout(t)
      PROVE  NewestInRing' /\ SignalledPassed'
  BY <1>3, <1>q, <1>0 DEF FinishStep, FinishSignalled, FinishRecord, FinishReturn, FinishTimeout, Goto
\* The new fence either waits for its slot, or nothing of its slot is on the way.
<1>4. ASSUME NEW t \in Flushers, FenceNew(t) PROVE NewestInRing' /\ SignalledPassed'
  <2>1. issued' = issued + 1 /\ issued \in Int
    BY <1>4 DEF FenceNew
  <2>2. UNCHANGED << inflight, signal >>
    BY <1>4 DEF FenceNew
  <2>3. \A k \in Int : k < issued /\ Settled(k)' => Settled(k)
    BY <1>4 DEF FenceNew, Settled, Goto
  <2>4. ASSUME NEW k \in Int, k = issued, Settled(k)'
        PROVE  ~signal[Slot(k)] /\ \A f \in inflight : Slot(f) # Slot(k)
    <3>1. Slot(k) \notin fences_pending
      BY <1>4, <2>1, <2>4 DEF FenceNew, Settled, Goto, MustReuse
    <3>2. \A u \in Threads : pc[u] # "mark"
      BY <1>4 DEF FenceNew, MutexDiscipline
    <3>3. QED BY <3>1, <3>2, <1>0, NothingOwed
  <2>5. \A k \in Int : k < issued' => k < issued \/ k = issued
    BY <2>1
  <2>6. QED BY <2>2, <2>3, <2>4, <2>5, <1>p DEF NewestInRing, SignalledPassed
<1>5. ASSUME NEW t \in Flushers, FenceReuse(t) PROVE NewestInRing' /\ SignalledPassed'
  <2>1. Slot(fence[t]) \in Slots /\ signal[Slot(fence[t])]
    BY <1>5, <1>0 DEF FenceReuse
  <2>2. \A f \in inflight : Slot(f) # Slot(fence[t])
    BY <2>1 DEF CompletionConserved, CompletionUnique, AtGpu
  <2>3. \A k \in Int : Settled(k)' => Settled(k) \/ k = fence[t]
    BY <1>5 DEF FenceReuse, Settled, Goto
  <2>4. /\ \A s \in Slots : signal'[s] => signal[s] /\ s # Slot(fence[t])
        /\ UNCHANGED << inflight, issued, fence >>
    BY <1>5, <2>1 DEF FenceReuse
  <2>5. QED BY <2>1, <2>2, <2>3, <2>4, <1>0, <1>p DEF NewestInRing, SignalledPassed
<1>6. ASSUME NEW t \in Flushers, FlushCommit(t) PROVE NewestInRing' /\ SignalledPassed'
  <2>1. /\ issued = fence[t] + 1 /\ fence[t] \in Int
        /\ Slot(fence[t]) \notin fences_pending
        /\ \A u \in Threads : pc[u] # "mark"
    BY <1>6 DEF FlushCommit, MutexDiscipline
  <2>2. ~signal[Slot(fence[t])]
    BY <2>1, <1>0, NothingOwed
  <2>3. UNCHANGED << issued, signal, fence >> /\ inflight' = inflight \union {fence[t]}
    BY <1>6 DEF FlushCommit
  <2>4. \A k \in Int : Settled(k)' => Settled(k)
    BY <1>6 DEF FlushCommit, Settled, Goto
  <2>5. \A k \in Int : k < issued => k <= fence[t]
    BY <2>1
  <2>6. \A k \in Int : k < issued /\ signal[Slot(k)] => k < fence[t]
    <3>1. \A k \in Int : k <= fence[t] /\ k # fence[t] => k < fence[t]
      BY <2>1
    <3>2. QED BY <2>2, <2>5, <3>1
  <2>7. QED BY <2>3, <2>4, <2>5, <2>6, <1>p DEF NewestInRing, SignalledPassed
\* The ring is in order: what is behind the fence is later than all of its slot.
<1>7. ASSUME NEW f \in inflight, GpuComplete(f) PROVE NewestInRing' /\ SignalledPassed'
  <2>1. UNCHANGED << issued, pc, fence >> /\ inflight' = inflight \ {f}
    BY <1>7 DEF GpuComplete
  <2>2. \A k \in Int : Settled(k)' => Settled(k)
    BY <2>1 DEF Settled
  <2>3. \A h \in inflight' : f < h
    BY <1>7, <2>1 DEF GpuComplete, NextInRing
  <2>4. \A s \in Slots : signal'[s] => signal[s] \/ s = Slot(f)
    BY <1>7 DEF GpuComplete
  <2>5. \A k \in Int : k < issued /\ Settled(k) /\ Slot(k) = Slot(f) => \A h \in inflight' : k < h
    BY <2>1, <2>3 DEF NewestInRing
  <2>6. NewestInRing'
    BY <2>1, <2>2, <1>p DEF NewestInRing
  <2>7. SignalledPassed'
    BY <2>1, <2>2, <2>4, <2>5, <1>0, <1>p DEF SignalledPassed
  <2>8. QED BY <2>6, <2>7
<1>8. CASE UNCHANGED vars
  BY <1>8, <1>q DEF vars
<1>9. QED
  BY <1>1, <1>2, <1>3, <1>4, <1>5, <1>6, <1>7, <1>8 DEF Next, FlushStep, Gpu

\* Whoever is inside etna_flush is alone there, and nobody is while the mutex is free.
LEMMA Alone ==
  ASSUME TypeOK, MutexDiscipline, NEW t \in Threads,
         NEW u \in Threads, pc[u] \in {"new", "reuse", "commit", "mark"}
  PROVE  /\ fence_mutex # NoThread
         /\ pc[t] \in {"new", "reuse", "commit", "mark"} => u = t
         /\ fence_mutex = t => u = t
  BY ThreadsAssumption DEF MutexDiscipline

\* The fences in the ring are ahead of last_fence_id, by no more than the signed
\* comparison can tell.
LEMMA RingAhead ==
  ASSUME N <= MaxAge, TypeOK, MutexDiscipline, Holder, OrderInv, NEW l \in Int, LastIs(l),
         NEW h \in inflight
  PROVE  h - l \in 1 .. Half
<1>1. /\ N \in Nat /\ N >= 2 /\ Half \in Nat /\ MaxAge \in Nat /\ MaxAge + N <= Half
      /\ issued \in Nat /\ h \in Nat
  BY Sizes DEF TypeOK
<1>2. h < issued /\ l < h
  BY DEF OrderInv, LastIs
<1>3. \A k \in Int : Skipped(k) \in {0, 1}
  BY SkippedOnce
<1>4. CASE Short(l)
  <2>1. Skipped(issued - 1) \in {0, 1} /\ Skipped(issued - 2) \in {0, 1} /\ Skipped(issued - 3) \in {0, 1}
    BY <1>1, <1>3
  <2>2. issued - l <= Half - N + 3
    <3>1. CASE fence_mutex = NoThread
      BY <1>1, <1>4, <2>1, <3>1 DEF Short
    <3>2. CASE fence_mutex \in Threads
      BY <1>1, <1>4, <2>1, <3>2 DEF Short, Holder
    <3>3. QED BY <3>1, <3>2 DEF TypeOK
  <2>3. CASE issued - l <= Half - N + 2
    BY <1>1, <1>2, <2>3
  <2>4. CASE issued - l = Half - N + 3
    BY <1>1, <1>2, <2>4
  <2>5. QED BY <2>2, <2>3, <2>4, <1>1
<1>5. CASE Held(l)
  <2>1. PICK c \in 0 .. issued - 1 :
          /\ c - l <= Half - N + 1
          /\ issued - c <= N \/ (issued - c = N + 1 /\ \E t \in Threads : pc[t] = "reuse")
    BY <1>5 DEF Held
  <2>2. CASE issued - c <= N
    BY <1>1, <1>2, <2>1, <2>2
  <2>3. CASE issued - c = N + 1 /\ \E t \in Threads : pc[t] = "reuse"
    <3>1. PICK t \in Threads : pc[t] = "reuse"
      BY <2>3
    <3>2. h < fence[t] /\ issued = fence[t] + 1 /\ fence[t] \in Nat
      BY <3>1 DEF OrderInv, MutexDiscipline, TypeOK
    <3>3. QED BY <1>1, <1>2, <2>1, <2>3, <3>2
  <2>4. QED BY <2>1, <2>2, <2>3
<1>6. QED BY <1>4, <1>5 DEF LastIs

\* No fence in the ring is at or before last_fence_id.
LEMMA LastComplete ==
  ASSUME N <= MaxAge, TypeOK, MutexDiscipline, Holder, OrderInv, LastKnown
  PROVE  LastSignalledComplete
<1> SUFFICES ASSUME NEW h \in inflight PROVE ~FenceBeforeEq(Id(h), last_fence_id)
  BY DEF LastSignalledComplete
<1>1. PICK l \in Int : LastIs(l)
  BY DEF LastKnown
<1>2. h \in Int /\ Half \in Nat
  BY Sizes DEF TypeOK
<1>3. h - l \in 1 .. Half
  BY <1>1, RingAhead
<1>4. l - h \in -Half .. Half /\ ~(h <= l)
  BY <1>2, <1>3
<1>5. ~FenceBeforeEq(Id(h), Id(l))
  BY <1>2, <1>4, IdsCompared
<1>6. QED BY <1>1, <1>5 DEF LastIs

LEMMA WaitersPreserved ==
  ASSUME N <= MaxAge, TypeOK, MutexDiscipline, CompletionConserved, OrderInv, WindowInv, [Next]_vars
  PROVE  WaitersPassed'
<1> USE ThreadsAssumption DEF TypeOK, WaitersPassed, Goto, Locations
<1>0. WaitersPassed
  BY DEF WindowInv
<1>1. ASSUME NEW t \in Flushers, FlushLock(t) \/ FlushFault(t) \/ FlushMarkPending(t) PROVE WaitersPassed'
  BY <1>0, <1>1 DEF FlushLock, FlushFault, FenceReuseFails, FlushCommitFails, FlushMarkPending
<1>2. ASSUME NEW t \in Flushers, FenceNew(t) \/ FenceReuse(t) PROVE WaitersPassed'
  BY <1>0, <1>2 DEF FenceNew, FenceReuse, AfterNew
<1>3. ASSUME NEW t \in Flushers, FlushCommit(t) PROVE WaitersPassed'
  <2>1. \A g \in returned : g < fence[t] /\ g # fence[t]
    BY <1>3 DEF FlushCommit, OrderInv
  <2>2. QED BY <1>0, <1>3, <2>1 DEF FlushCommit
\* The early return: nothing of the slot is on the way, or last_fence_id says so.
<1>4. ASSUME NEW t \in Finishers, NEW f \in returned, FinishCheck(t, f) PROVE WaitersPassed'
  <2>1. ASSUME KnownSignalled(f) PROVE f \notin inflight
    <3>1. CASE Slot(f) \notin fences_pending
      <4>1. Slot(f) \in Slots
        BY SlotType
      <4>2. \A u \in Threads : pc[u] # "mark"
        BY <1>4 DEF FinishCheck, MutexDiscipline
      <4>3. QED BY <3>1, <4>1, <4>2, NothingOwed
    <3>2. CASE FenceBeforeEq(Id(f), last_fence_id)
      BY <3>2, LastComplete DEF LastSignalledComplete, WindowInv
    <3>3. QED BY <2>1, <3>1, <3>2 DEF KnownSignalled
  <2>2. QED BY <1>0, <1>4, <2>1 DEF FinishCheck
\* The signal is of the newest fence of the slot, and the GPU is past that one.
<1>5. ASSUME NEW t \in Finishers, FinishSignalled(t) PROVE WaitersPassed'
  <2>1. fence[t] \in returned /\ fence[t] \in Int /\ signal[Slot(fence[t])]
    BY <1>0, <1>5 DEF FinishSignalled
  <2>2. fence[t] < issued /\ Settled(fence[t])
    BY <2>1 DEF OrderInv, Settled
  <2>3. \A h \in inflight : fence[t] < h
    BY <2>1, <2>2 DEF WindowInv, SignalledPassed
  <2>4. QED BY <1>0, <1>5, <2>1, <2>3 DEF FinishSignalled
<1>6. ASSUME NEW t \in Finishers, FinishRecord(t) PROVE WaitersPassed'
  <2>1. fence[t] \notin inflight
    BY <1>0, <1>6 DEF FinishRecord
  <2>2. QED BY <1>0, <1>6, <2>1 DEF FinishRecord
<1>7. ASSUME NEW t \in Finishers, FinishReturn(t) \/ FinishTimeout(t) PROVE WaitersPassed'
  BY <1>0, <1>7 DEF FinishReturn, FinishTimeout
<1>8. ASSUME NEW f \in inflight, GpuComplete(f) PROVE WaitersPassed'
  BY <1>0, <1>8 DEF GpuComplete
<1>9. CASE UNCHANGED vars
  BY <1>0, <1>9 DEF vars
<1>10. QED
  BY <1>1, <1>2, <1>3, <1>4, <1>5, <1>6, <1>7, <1>8, <1>9 DEF Next, FlushStep, FinishStep, Gpu

LEMMA AgesPreserved ==
  ASSUME N <= MaxAge, TypeOK, MutexDiscipline, OrderInv, Ages, [Next]_vars
  PROVE  Ages'
<1> USE ThreadsAssumption DEF TypeOK, Goto, Locations
<1>0. /\ MaxAge \in Nat /\ issued \in Nat
      /\ \A k \in Int : Skipped(k) \in {0, 1}
      /\ \A k \in Int : Skipped(k)' = Skipped(k)
  BY Sizes, SkippedOnce DEF Skipped, Id
<1>1. /\ Skipped(issued) \in {0, 1} /\ Skipped(issued - 1) \in {0, 1} /\ Skipped(issued - 2) \in {0, 1}
      /\ Id(issued) = 0 => Skipped(issued) = 1 /\ Skipped(issued - 1) = 0
      /\ Id(issued - 1) = 0 => Skipped(issued - 1) = 1 /\ Skipped(issued - 2) = 0
  <2>1. /\ issued - 1 \in Int /\ issued - 2 \in Int /\ issued \in Int
        /\ (issued - 1) + 1 = issued /\ (issued - 2) + 1 = issued - 1
    BY <1>0
  <2>2. /\ Id(issued - 1) = 0 => Id(issued) # 0
        /\ Id(issued - 2) = 0 => Id(issued - 1) # 0
    BY <2>1, SkippedOnce
  <2>3. QED BY <2>1, <2>2, SkippedOnce
\* A step by which nobody starts to wait nor gets on inside etna_flush.
<1>q. ASSUME issued' = issued, fence_mutex' = fence_mutex,
             \A u \in Threads :
               /\ pc'[u] \in {"wait", "relock"} => pc[u] \in {"wait", "relock"} /\ fence'[u] = fence[u]
               /\ pc'[u] = "new" => pc[u] = "new"
               /\ pc'[u] \in {"reuse", "commit", "mark"} => pc[u] \in {"reuse", "commit", "mark"}
      PROVE  Ages'
  <2>1. Skipped(issued - 1)' = Skipped(issued - 1) /\ Skipped(issued - 2)' = Skipped(issued - 2)
    BY <1>q DEF Skipped, Id
  <2>2. QED BY <1>q, <2>1 DEF Ages
\* A thread inside etna_flush speaks for the whole of Ages: it is alone there.
<1>a. ASSUME NEW t \in Threads, fence_mutex' = t,
             \A u \in Threads : u # t => pc'[u] \notin {"new", "reuse", "commit", "mark"},
             \A w \in Threads : pc'[w] \in {"wait", "relock"} =>
               /\ pc'[t] = "new" => issued' - fence'[w] <= MaxAge - 1 + Skipped(issued - 1)'
               /\ pc'[t] \in {"reuse", "commit", "mark"} =>
                    issued' - fence'[w] <= MaxAge + Skipped(issued - 2)'
      PROVE  Ages'
  BY <1>a DEF Ages
<1>2. ASSUME NEW t \in Flushers, FlushLock(t) PROVE Ages'
  <2>1. \A u \in Threads : pc[u] \notin {"new", "reuse", "commit", "mark"}
    BY <1>2 DEF FlushLock, MutexDiscipline
  <2>2. issued' = issued /\ fence' = fence /\ Skipped(issued - 1)' = Skipped(issued - 1)
    BY <1>2 DEF FlushLock, Skipped, Id
  <2>3. \A w \in Threads : pc'[w] \in {"wait", "relock"} =>
          issued - fence[w] <= MaxAge - 1 + Skipped(issued - 1)
    <3> SUFFICES ASSUME NEW w \in Threads, pc'[w] \in {"wait", "relock"}
                 PROVE  issued - fence[w] <= MaxAge - 1 + Skipped(issued - 1)
      OBVIOUS
    <3>1. issued - fence[w] < MaxAge
      BY <1>2 DEF FlushLock, NoAncientWaiter
    <3>2. fence[w] \in Nat
      OBVIOUS
    <3>3. QED BY <1>0, <1>1, <3>1, <3>2
  <2>4. fence_mutex' = t /\ pc'[t] = "new" /\ \A u \in Threads : u # t => pc'[u] = pc[u]
    BY <1>2 DEF FlushLock
  <2>5. QED BY <1>a, <2>1, <2>2, <2>3, <2>4
<1>3. ASSUME NEW t \in Flushers, FenceNew(t) PROVE Ages'
  <2>1. pc[t] = "new" /\ fence_mutex = t /\ \A u \in Threads : u # t => pc[u] \notin {"new", "reuse", "commit", "mark"}
    BY <1>3, Alone DEF FenceNew, MutexDiscipline
  <2>2. /\ issued' = issued + 1 /\ fence_mutex' = t
        /\ \A u \in Threads : u # t => pc'[u] = pc[u] /\ fence'[u] = fence[u]
        /\ pc'[t] = "new" => Id(issued) = 0
        /\ pc'[t] \in {"new", "reuse", "commit"}
    BY <1>3, <2>1 DEF FenceNew, AfterNew
  <2>3. Skipped(issued - 1)' = Skipped(issued) /\ Skipped(issued - 2)' = Skipped(issued - 1)
    <3>1. issued' - 1 = issued /\ issued' - 2 = issued - 1
      BY <2>2, <1>0
    <3>2. QED BY <3>1 DEF Skipped, Id
  <2>4. ASSUME NEW w \in Threads, pc'[w] \in {"wait", "relock"}
        PROVE  /\ pc'[t] = "new" => issued' - fence'[w] <= MaxAge - 1 + Skipped(issued)
               /\ pc'[t] \in {"reuse", "commit", "mark"} => issued' - fence'[w] <= MaxAge + Skipped(issued - 1)
    <3>1. w # t /\ pc[w] \in {"wait", "relock"} /\ fence'[w] = fence[w] /\ fence[w] \in Nat
      BY <2>2, <2>4
    <3>2. issued - fence[w] <= MaxAge - 1 + Skipped(issued - 1)
      BY <2>1, <3>1 DEF Ages
    <3>3. QED BY <1>0, <1>1, <2>2, <3>1, <3>2
  <2>5. QED BY <1>a, <2>1, <2>2, <2>3, <2>4
<1>4. ASSUME NEW t \in Flushers, FenceReuse(t) \/ FlushCommit(t) PROVE Ages'
  <2>1. /\ pc[t] \in {"reuse", "commit"} /\ fence_mutex = t /\ issued = fence[t] + 1
        /\ \A u \in Threads : u # t => pc[u] \notin {"new", "reuse", "commit", "mark"}
    BY <1>4, Alone DEF FenceReuse, FlushCommit, MutexDiscipline
  <2>2. /\ issued' = issued /\ fence_mutex' = t /\ fence' = fence
        /\ \A u \in Threads : u # t => pc'[u] = pc[u]
        /\ pc'[t] = "new" => Id(fence[t]) = 0
        /\ pc'[t] \in {"new", "commit", "mark"}
    BY <1>4, <2>1 DEF FenceReuse, FlushCommit, AfterNew
  <2>3. Skipped(issued - 1)' = Skipped(issued - 1) /\ Skipped(issued - 2)' = Skipped(issued - 2)
    BY <2>2 DEF Skipped, Id
  <2>4. ASSUME NEW w \in Threads, pc'[w] \in {"wait", "relock"}
        PROVE  /\ pc'[t] = "new" => issued' - fence'[w] <= MaxAge - 1 + Skipped(issued - 1)
               /\ pc'[t] \in {"reuse", "commit", "mark"} => issued' - fence'[w] <= MaxAge + Skipped(issued - 2)
    <3>1. w # t /\ pc[w] \in {"wait", "relock"} /\ fence[w] \in Nat /\ fence[t] \in Nat
      BY <2>2, <2>4
    <3>2. issued - fence[w] <= MaxAge + Skipped(issued - 2)
      BY <2>1, <3>1 DEF Ages
    <3>3. fence[t] = issued - 1
      BY <2>1, <3>1, <1>0
    <3>4. QED BY <1>0, <1>1, <2>2, <3>1, <3>2, <3>3
  <2>5. QED BY <1>a, <2>1, <2>2, <2>3, <2>4
<1>5. ASSUME NEW t \in Flushers, FlushMarkPending(t) \/ FlushFault(t) PROVE Ages'
  <2>1. /\ pc[t] \in {"reuse", "commit", "mark"}
        /\ \A u \in Threads : u # t => pc[u] \notin {"new", "reuse", "commit", "mark"}
    BY <1>5, Alone DEF FlushMarkPending, FlushFault, FenceReuseFails, FlushCommitFails
  <2>2. /\ issued' = issued /\ fence' = fence /\ fence_mutex' = NoThread
        /\ \A u \in Threads : u # t => pc'[u] = pc[u]
        /\ pc'[t] = "idle"
    BY <1>5 DEF FlushMarkPending, FlushFault, FenceReuseFails, FlushCommitFails
  <2>3. Skipped(issued - 2)' = Skipped(issued - 2)
    BY <2>2 DEF Skipped, Id
  <2>4. \A w \in Threads : pc'[w] \in {"wait", "relock"} => issued' - fence'[w] <= MaxAge + Skipped(issued - 2)
    BY <2>1, <2>2 DEF Ages
  <2>5. QED BY <2>1, <2>2, <2>3, <2>4 DEF Ages
<1>6. ASSUME NEW t \in Finishers, NEW f \in returned, FinishCheck(t, f) PROVE Ages'
  <2>1. \A u \in Threads : pc[u] \notin {"new", "reuse", "commit", "mark"}
    BY <1>6 DEF FinishCheck, MutexDiscipline
  <2>2. /\ issued' = issued /\ fence_mutex' = NoThread /\ fence_mutex = NoThread /\ fence'[t] = f
        /\ \A u \in Threads : u # t => pc'[u] = pc[u] /\ fence'[u] = fence[u]
        /\ pc'[t] \notin {"new", "reuse", "commit", "mark"}
        /\ issued - f <= MaxAge /\ f \in Nat
    BY <1>6 DEF FinishCheck
  <2>3. Skipped(issued - 2)' = Skipped(issued - 2)
    BY <2>2 DEF Skipped, Id
  <2>4. ASSUME NEW w \in Threads, pc'[w] \in {"wait", "relock"}
        PROVE  issued' - fence'[w] <= MaxAge + Skipped(issued - 2)
    <3>1. CASE w = t
      BY <1>0, <1>1, <2>2, <3>1
    <3>2. CASE w # t
      BY <2>2, <2>4, <3>2 DEF Ages
    <3>3. QED BY <3>1, <3>2
  <2>5. QED BY <2>1, <2>2, <2>3, <2>4 DEF Ages
<1>7. ASSUME NEW t \in Finishers, FinishStep(t) \/ FinishTimeout(t) PROVE Ages'
  BY <1>7, <1>q DEF FinishStep, FinishSignalled, FinishRecord, FinishReturn, FinishTimeout
<1>8. ASSUME NEW f \in inflight, GpuComplete(f) PROVE Ages'
  BY <1>8, <1>q DEF GpuComplete
<1>9. CASE UNCHANGED vars
  BY <1>9, <1>q DEF vars
<1>10. QED
  BY <1>2, <1>3, <1>4, <1>5, <1>6, <1>7, <1>8, <1>9 DEF Next, FlushStep, Gpu

\* last_fence_id stays the id of a fence that the GPU has reached, not too far back.
LEMMA LastPreserved ==
  ASSUME N <= MaxAge, "wait" \notin Faults,
         TypeOK, MutexDiscipline, CompletionConserved, OrderInv, WindowInv, [Next]_vars
  PROVE  LastKnown'
<1> USE ThreadsAssumption DEF TypeOK, Goto, Locations
<1>0. /\ N \in Nat /\ N >= 2 /\ MaxAge \in Nat /\ issued \in Nat
      /\ Half \in Nat /\ MaxAge + N <= Half
      /\ Wrap \in Nat /\ Wrap >= 8 /\ 2 * Half <= Wrap
      /\ \A k \in Int : Skipped(k) \in {0, 1}
  BY Sizes, SkippedOnce
<1>1. /\ Skipped(issued) \in {0, 1} /\ Skipped(issued - 1) \in {0, 1}
      /\ Skipped(issued - 2) \in {0, 1} /\ Skipped(issued - 3) \in {0, 1}
      /\ Id(issued) = 0 => /\ Skipped(issued) = 1
                           /\ Skipped(issued - 1) = 0 /\ Skipped(issued - 2) = 0
      /\ Id(issued - 1) = 0 => Skipped(issued - 1) = 1 /\ Skipped(issued - 2) = 0
      /\ Skipped(issued - 1) + Skipped(issued - 2) <= 1
      /\ Skipped(issued - 2) + Skipped(issued - 3) <= 1
  <2>1. /\ issued \in Int /\ issued - 1 \in Int /\ issued - 2 \in Int /\ issued - 3 \in Int
        /\ (issued - 1) + 1 = issued /\ (issued - 2) + 2 = issued
        /\ (issued - 2) + 1 = issued - 1 /\ (issued - 3) + 1 = issued - 2
    BY <1>0
  <2>2. /\ Id(issued - 1) = 0 => Id(issued) # 0
        /\ Id(issued - 2) = 0 => Id(issued - 1) # 0 /\ Id(issued) # 0
        /\ Id(issued - 3) = 0 => Id(issued - 2) # 0
    BY <2>1, SkippedOnce
  <2>3. QED BY <2>1, <2>2, SkippedOnce
<1>2. PICK l \in Int : LastIs(l)
  BY DEF WindowInv, LastKnown
<1>s. \A k \in Int : Slot(k) \in Slots /\ Slot(k)' = Slot(k)
  BY SlotType DEF Slot, Id
\* A step that moves neither the numbers nor anybody inside etna_flush.
<1>q. ASSUME UNCHANGED << issued, last_fence_id, fences_pending, fence_mutex >>,
             inflight' \subseteq inflight,
             \A u \in Threads :
               pc[u] \in {"new", "reuse", "commit", "mark"} \/ pc'[u] \in {"new", "reuse", "commit", "mark"}
                 => pc'[u] = pc[u] /\ fence'[u] = fence[u]
      PROVE  LastKnown'
  <2>1. \A k \in Int : Skipped(k)' = Skipped(k) /\ Id(k)' = Id(k)
    BY DEF Skipped, Id
  <2>2. issued' - 1 \in Int /\ issued' - 2 \in Int /\ issued' - 3 \in Int
    BY <1>0, <1>q
  <2>3. Short(l) => Short(l)'
    BY <1>q, <2>1, <2>2 DEF Short, Skipped, Id
  <2>4. Held(l) => Held(l)'
    BY <1>q, <1>s DEF Held
  <2>5. LastIs(l)'
    BY <1>2, <1>q, <2>1, <2>3, <2>4 DEF LastIs
  <2>6. QED BY <2>5 DEF LastKnown
<1>3. ASSUME NEW t \in Finishers, NEW f \in returned, FinishCheck(t, f) PROVE LastKnown'
  BY <1>3, <1>q DEF FinishCheck, MutexDiscipline
<1>4. ASSUME NEW t \in Finishers, FinishSignalled(t) \/ FinishReturn(t) \/ FinishTimeout(t) PROVE LastKnown'
  BY <1>4, <1>q DEF FinishSignalled, FinishReturn, FinishTimeout
<1>5. ASSUME NEW f \in inflight, GpuComplete(f) PROVE LastKnown'
  BY <1>5, <1>q DEF GpuComplete
<1>6. CASE UNCHANGED vars
  BY <1>6, <1>q DEF vars
<1>7. ASSUME NEW t \in Flushers, FlushLock(t) PROVE LastKnown'
  <2>1. /\ \A u \in Threads : pc[u] \notin {"new", "reuse", "commit", "mark"}
        /\ fence_mutex = NoThread
    BY <1>7 DEF FlushLock, MutexDiscipline
  <2>2. /\ UNCHANGED << issued, last_fence_id, fences_pending, inflight, fence >>
        /\ fence_mutex' = t /\ pc'[t] = "new" /\ \A u \in Threads : u # t => pc'[u] = pc[u]
    BY <1>7 DEF FlushLock
  <2>3. /\ Skipped(issued - 1)' = Skipped(issued - 1) /\ Skipped(issued - 2)' = Skipped(issued - 2)
        /\ Id(l)' = Id(l)
    BY <2>2 DEF Skipped, Id
  <2>4. ASSUME Short(l) PROVE Short(l)'
    <3>1. issued - l <= Half - N + Skipped(issued - 2)
      BY <2>1, <2>4 DEF Short
    <3>2. issued - l <= Half - N + Skipped(issued - 1) + Skipped(issued - 2)
      BY <1>0, <1>1, <3>1
    <3>3. \A u \in Threads : pc'[u] = "new" => u = t
      BY <2>1, <2>2
    <3>4. Half' = Half /\ fence_mutex' # NoThread
      BY <2>2 DEF Half
    <3>5. QED BY <2>1, <2>2, <2>3, <3>2, <3>3, <3>4 DEF Short
  <2>5. ASSUME Held(l) PROVE Held(l)'
    BY <2>1, <2>2, <2>5, <1>s DEF Held
  <2>6. LastIs(l)'
    BY <1>2, <2>1, <2>2, <2>3, <2>4, <2>5 DEF LastIs
  <2>7. QED BY <2>6 DEF LastKnown
<1>8. ASSUME NEW t \in Flushers, FenceNew(t) PROVE LastKnown'
  <2>1. /\ pc[t] = "new" /\ fence_mutex = t
        /\ \A u \in Threads : u # t => pc[u] \notin {"new", "reuse", "commit", "mark"}
    BY <1>8, Alone DEF FenceNew, MutexDiscipline
  <2>2. /\ issued' = issued + 1 /\ fence_mutex' = t /\ fence'[t] = issued
        /\ UNCHANGED << last_fence_id, fences_pending, inflight >>
        /\ \A u \in Threads : u # t => pc'[u] = pc[u]
        /\ pc'[t] = "new" => Id(issued) = 0
        /\ pc'[t] \in {"new", "reuse", "commit"}
        /\ Slot(issued) \in fences_pending => pc'[t] = "reuse"
    BY <1>8, <2>1 DEF FenceNew, AfterNew, MustReuse
  <2>3. /\ Skipped(issued - 1)' = Skipped(issued) /\ Skipped(issued - 2)' = Skipped(issued - 1)
        /\ Skipped(issued - 3)' = Skipped(issued - 2) /\ Id(l)' = Id(l)
    <3>1. issued' - 1 = issued /\ issued' - 2 = issued - 1 /\ issued' - 3 = issued - 2
      BY <2>2, <1>0
    <3>2. QED BY <3>1 DEF Skipped, Id
  <2>4. ASSUME Short(l) PROVE Short(l)'
    <3>1. issued - l <= Half - N + Skipped(issued - 1) + Skipped(issued - 2)
      BY <2>1, <2>4 DEF Short
    <3>2. /\ pc'[t] = "new" => (issued + 1) - l <= Half - N + Skipped(issued) + Skipped(issued - 1)
          /\ (issued + 1) - l <= Half - N + 1 + Skipped(issued - 1) + Skipped(issued - 2)
      BY <1>0, <1>1, <2>2, <3>1
    <3>3. \A u \in Threads : pc'[u] \in {"new", "reuse", "commit", "mark"} => u = t
      BY <2>1, <2>2
    <3>4. Half' = Half /\ fence_mutex' # NoThread
      BY <2>2 DEF Half
    <3>5. QED BY <2>2, <2>3, <3>2, <3>3, <3>4 DEF Short
  <2>5. ASSUME Held(l) PROVE Held(l)'
    <3>1. PICK c \in 0 .. issued - 1 :
            c - l <= Half - N + 1 /\ Slot(c) \in fences_pending /\ issued - c <= N
      BY <2>1, <2>5 DEF Held
    <3>2. c \in 0 .. issued' - 1 /\ c - l <= Half' - N + 1 /\ Slot(c)' \in fences_pending'
      BY <1>0, <1>s, <2>2, <3>1 DEF Half
    <3>3. CASE issued - c = N
      <4>1. Slot(issued) = Slot(c)
        <5>1. issued = c + N /\ c \in Int
          BY <1>0, <3>1, <3>3
        <5>2. QED BY <5>1, SlotAgain
      <4>2. pc'[t] = "reuse" /\ issued' - c = N + 1
        BY <1>0, <2>2, <3>1, <3>3, <4>1
      <4>3. QED BY <3>2, <4>2 DEF Held
    <3>4. CASE issued - c < N
      <4>1. issued' - c <= N
        BY <1>0, <2>2, <3>1, <3>4
      <4>2. QED BY <3>2, <4>1 DEF Held
    <3>5. QED BY <1>0, <3>1, <3>3, <3>4
  <2>6. l < issued /\ l < issued' /\ l < fence'[t]
    BY <1>0, <1>2, <2>2 DEF LastIs
  <2>7. LastIs(l)'
    BY <1>2, <2>1, <2>2, <2>3, <2>4, <2>5, <2>6 DEF LastIs
  <2>8. QED BY <2>7 DEF LastKnown
\* The old fence has been reached, and takes last_fence_id to N fences behind.
<1>9. ASSUME NEW t \in Flushers, FenceReuse(t) PROVE LastKnown'
  <2>1. /\ pc[t] = "reuse" /\ fence_mutex = t /\ issued = fence[t] + 1 /\ fence[t] \in Nat
        /\ \A u \in Threads : u # t => pc[u] \notin {"new", "reuse", "commit", "mark"}
    BY <1>9, Alone DEF FenceReuse, MutexDiscipline
  <2>2. /\ UNCHANGED << issued, fence_mutex, inflight, fence >>
        /\ last_fence_id' = Later(OldFence(fence[t]))
        /\ \A u \in Threads : u # t => pc'[u] = pc[u]
        /\ pc'[t] = "new" => Id(fence[t]) = 0
        /\ pc'[t] \in {"new", "commit"}
        /\ signal[Slot(fence[t])]
    BY <1>9, <2>1 DEF FenceReuse, AfterNew
  <2>3. PICK x \in Int : x = fence[t] - N
    BY <1>0, <2>1
  <2>4. issued - l <= Half + 2 \/ issued - l <= Half - N + 3
    <3>1. CASE Short(l)
      BY <1>0, <1>1, <2>1, <3>1 DEF Short
    <3>2. CASE Held(l)
      BY <1>0, <3>2 DEF Held
    <3>3. QED BY <1>2, <3>1, <3>2 DEF LastIs
  <2>5. l < fence[t]
    BY <1>2, <2>1 DEF LastIs
  <2>6. x - l \in -Half .. Half /\ x - l < Half
    BY <1>0, <2>1, <2>3, <2>4, <2>5
  <2>7. PICK k \in Int : k = IF l < x THEN x ELSE l
    OBVIOUS
  <2>8. last_fence_id' = Id(k)
    <3>1. last_fence_id = Id(l) /\ OldFence(fence[t]) = Id(x)
      BY <1>2, <2>3 DEF LastIs, OldFence
    <3>2. Later(Id(x)) = Id(IF l < x /\ x - l < Half THEN x ELSE l)
      BY <2>6, <3>1, LaterIs
    <3>3. QED BY <2>2, <2>6, <2>7, <3>1, <3>2
  <2>9. \A h \in inflight : k < h
    <3>1. Slot(x) = Slot(fence[t])
      BY <2>1, <2>3, SlotAgain
    <3>2. x < issued /\ Settled(x)
      BY <1>0, <2>1, <2>3 DEF Settled
    <3>3. \A h \in inflight : x < h
      BY <2>2, <3>1, <3>2 DEF WindowInv, SignalledPassed
    <3>4. QED BY <1>2, <2>7, <3>3 DEF LastIs
  <2>10. k < fence[t] /\ k < issued /\ issued - k <= N + 1
    BY <1>0, <2>1, <2>3, <2>5, <2>7
  <2>11. /\ Skipped(issued - 1)' = Skipped(issued - 1) /\ Skipped(issued - 2)' = Skipped(issued - 2)
         /\ Skipped(issued - 3)' = Skipped(issued - 3) /\ Id(k)' = Id(k) /\ Half' = Half
    BY <2>2 DEF Skipped, Id, Half
  <2>12. /\ pc'[t] = "new" => issued - k <= Half - N + Skipped(issued - 1) + Skipped(issued - 2)
         /\ issued - k <= Half - N + 1 + Skipped(issued - 2) + Skipped(issued - 3)
    <3>1. fence[t] = issued - 1
      BY <1>0, <2>1
    <3>2. QED BY <1>0, <1>1, <2>2, <2>10, <3>1
  <2>13. Short(k)'
    <3>1. \A u \in Threads : pc'[u] \in {"new", "reuse", "commit", "mark"} => u = t
      BY <2>1, <2>2
    <3>2. fence_mutex' # NoThread
      BY <2>1, <2>2
    <3>3. QED BY <2>2, <2>11, <2>12, <3>1, <3>2 DEF Short
  <2>14. LastIs(k)'
    BY <2>1, <2>2, <2>8, <2>9, <2>10, <2>11, <2>13 DEF LastIs
  <2>15. QED BY <2>14 DEF LastKnown
<1>10. ASSUME NEW t \in Flushers, FlushCommit(t) PROVE LastKnown'
  <2>1. /\ pc[t] = "commit" /\ fence_mutex = t
        /\ \A u \in Threads : u # t => pc[u] \notin {"new", "reuse", "commit", "mark"}
    BY <1>10, Alone DEF FlushCommit, MutexDiscipline
  <2>2. /\ UNCHANGED << issued, last_fence_id, fences_pending, fence_mutex, fence >>
        /\ inflight' = inflight \union {fence[t]} /\ pc'[t] = "mark"
        /\ \A u \in Threads : u # t => pc'[u] = pc[u]
    BY <1>10 DEF FlushCommit
  <2>3. /\ Skipped(issued - 1)' = Skipped(issued - 1) /\ Skipped(issued - 2)' = Skipped(issued - 2)
        /\ Skipped(issued - 3)' = Skipped(issued - 3) /\ Id(l)' = Id(l) /\ Half' = Half
    BY <2>2 DEF Skipped, Id, Half
  <2>4. Short(l) => Short(l)'
    BY <2>1, <2>2, <2>3 DEF Short
  <2>5. Held(l) => Held(l)'
    BY <2>1, <2>2, <2>3, <1>s DEF Held
  <2>6. LastIs(l)'
    BY <1>2, <2>1, <2>2, <2>3, <2>4, <2>5 DEF LastIs
  <2>7. QED BY <2>6 DEF LastKnown
\* A number may only be lost while last_fence_id is near.
<1>11. ASSUME NEW t \in Flushers, FlushFault(t) PROVE LastKnown'
  <2>0. FlushCommitFails(t)
    BY <1>11 DEF FlushFault, FenceReuseFails
  <2>1. /\ pc[t] = "commit" /\ fence_mutex = t
        /\ \A u \in Threads : u # t => pc[u] \notin {"new", "reuse", "commit", "mark"}
    BY <2>0, Alone DEF FlushCommitFails, MutexDiscipline
  <2>2. /\ UNCHANGED << issued, last_fence_id, inflight, fence >>
        /\ fence_mutex' = NoThread
        /\ \A u \in Threads : u # t => pc'[u] = pc[u]
        /\ pc'[t] = "idle"
    BY <2>0 DEF FlushCommitFails
  <2>3. issued - l <= Half + 2
    <3>1. CASE Short(l)
      BY <1>0, <1>1, <2>1, <3>1 DEF Short
    <3>2. CASE Held(l)
      BY <1>0, <2>1, <3>2 DEF Held
    <3>3. QED BY <1>2, <3>1, <3>2 DEF LastIs
  <2>4. l < issued /\ last_fence_id = Id(l)
    BY <1>2 DEF LastIs
  <2>5. (Id(issued) - Id(l)) % Wrap = issued - l
    <3>1. Wrap \in Nat /\ Wrap > 0 /\ issued \in Int
      BY <1>0
    <3>2. (Id(issued) - Id(l)) % Wrap = (issued - l) % Wrap
      BY <3>1, IdDifference
    <3>3. issued - l \in Int /\ 0 <= issued - l /\ issued - l < Wrap
      BY <1>0, <2>3, <2>4
    <3>4. ((Wrap * 0) + (issued - l)) % Wrap = issued - l
      BY <1>0, <3>1, <3>3, ModUnique
    <3>5. (Wrap * 0) + (issued - l) = issued - l
      BY <1>0, <3>3
    <3>6. QED BY <3>2, <3>4, <3>5
  <2>6. issued - l <= Half - N
    BY <2>0, <2>4, <2>5 DEF FlushCommitFails, LossBound, Half
  <2>7. Skipped(issued - 2)' = Skipped(issued - 2) /\ Id(l)' = Id(l) /\ Half' = Half
    BY <2>2 DEF Skipped, Id, Half
  <2>8. issued - l <= Half - N + Skipped(issued - 2)
    BY <1>0, <1>1, <2>6
  <2>9. Short(l)'
    BY <2>1, <2>2, <2>7, <2>8 DEF Short
  <2>10. LastIs(l)'
    BY <1>2, <2>1, <2>2, <2>7, <2>9 DEF LastIs
  <2>11. QED BY <2>10 DEF LastKnown
\* The fence is pending now: its slot comes up again in N fences.
<1>12. ASSUME NEW t \in Flushers, FlushMarkPending(t) PROVE LastKnown'
  <2>1. /\ pc[t] = "mark" /\ fence_mutex = t /\ issued = fence[t] + 1 /\ fence[t] \in Nat
        /\ \A u \in Threads : u # t => pc[u] \notin {"new", "reuse", "commit", "mark"}
    BY <1>12, Alone DEF FlushMarkPending, MutexDiscipline
  <2>2. ~TooOld(fence[t])
    BY <2>1, NewestNotTooOld
  <2>3. /\ UNCHANGED << issued, last_fence_id, inflight, fence >>
        /\ fences_pending' = fences_pending \union {Slot(fence[t])}
        /\ \A u \in Threads : u # t => pc'[u] = pc[u]
        /\ pc'[t] = "idle"
    BY <1>12, <2>2 DEF FlushMarkPending
  <2>4. Id(l)' = Id(l) /\ Half' = Half
    BY <2>3 DEF Id, Half
  <2>5. PICK c \in 0 .. issued - 1 :
          c - l <= Half - N + 1 /\ Slot(c) \in fences_pending' /\ issued - c <= N
    <3>1. CASE Short(l)
      <4>1. issued - l <= Half - N + 1 + Skipped(issued - 2) + Skipped(issued - 3)
        BY <2>1, <3>1 DEF Short
      <4>2. /\ fence[t] - l <= Half - N + 1 /\ issued - fence[t] <= N
            /\ fence[t] \in 0 .. issued - 1
        BY <1>0, <1>1, <2>1, <4>1
      <4>3. QED BY <2>3, <4>2
    <3>2. CASE Held(l)
      BY <2>1, <2>3, <3>2 DEF Held
    <3>3. QED BY <1>2, <3>1, <3>2 DEF LastIs
  <2>6. Held(l)'
    BY <2>3, <2>4, <2>5, <1>s DEF Held
  <2>7. LastIs(l)'
    BY <1>2, <2>1, <2>3, <2>4, <2>6 DEF LastIs
  <2>8. QED BY <2>7 DEF LastKnown
\* The fence may be an older one than the slot's signal was set for; but it is not
\* older than a waiter may be.
<1>13. ASSUME NEW t \in Finishers, FinishRecord(t) PROVE LastKnown'
  <2>1. /\ pc[t] = "relock" /\ fence_mutex = NoThread
        /\ \A u \in Threads : pc[u] \notin {"new", "reuse", "commit", "mark"}
    BY <1>13 DEF FinishRecord, MutexDiscipline
  <2>2. /\ UNCHANGED << issued, fence_mutex, inflight, fence >>
        /\ last_fence_id' = Later(Id(fence[t]))
        /\ fences_pending' = fences_pending \ {Slot(fence[t])}
        /\ \A u \in Threads : pc'[u] \notin {"new", "reuse", "commit", "mark"}
    BY <1>13, <2>1 DEF FinishRecord
  <2>3. PICK x \in Int : x = fence[t]
    BY <2>1
  <2>4. x < issued /\ \A h \in inflight : x < h
    BY <2>1, <2>3 DEF WindowInv, WaitersPassed, OrderInv
  <2>5. issued - x <= MaxAge + Skipped(issued - 2)
    BY <2>1, <2>3 DEF WindowInv, Ages
  <2>6. l < issued /\ last_fence_id = Id(l)
    BY <1>2 DEF LastIs
  <2>7. issued - l <= Half + 1
    <3>1. CASE Short(l)
      BY <1>0, <1>1, <2>1, <3>1 DEF Short
    <3>2. CASE Held(l)
      BY <1>0, <2>1, <3>2 DEF Held
    <3>3. QED BY <1>2, <3>1, <3>2 DEF LastIs
  <2>8. x - l \in -Half .. Half
    BY <1>0, <1>1, <2>4, <2>5, <2>6, <2>7
  <2>9. PICK k \in Int : k = IF l < x /\ x - l < Half THEN x ELSE l
    OBVIOUS
  <2>10. last_fence_id' = Id(k)
    <3>1. Later(Id(x)) = Id(IF l < x /\ x - l < Half THEN x ELSE l)
      BY <2>6, <2>8, LaterIs
    <3>2. QED BY <2>2, <2>3, <2>9, <3>1
  <2>11. k < issued /\ l <= k /\ \A h \in inflight : k < h
    BY <1>2, <2>4, <2>6, <2>9 DEF LastIs
  <2>12. Skipped(issued - 2)' = Skipped(issued - 2) /\ Id(k)' = Id(k) /\ Half' = Half
    BY <2>2 DEF Skipped, Id, Half
  <2>13. ASSUME issued - k <= Half - N + Skipped(issued - 2) PROVE Short(k)'
    BY <2>2, <2>12, <2>13 DEF Short
  <2>14. CASE Short(l)
    <3>1. issued - k <= Half - N + Skipped(issued - 2)
      BY <1>0, <1>1, <2>1, <2>11, <2>14 DEF Short
    <3>2. QED BY <2>1, <2>2, <2>10, <2>11, <2>12, <2>13, <3>1 DEF LastIs, LastKnown
  <2>15. CASE Held(l)
    <3>1. PICK c \in 0 .. issued - 1 :
            c - l <= Half - N + 1 /\ Slot(c) \in fences_pending /\ issued - c <= N
      BY <2>1, <2>15 DEF Held
    <3>2. CASE Slot(c) = Slot(x)
      <4>1. ~(c < x)
        <5> SUFFICES ASSUME c < x PROVE FALSE
          OBVIOUS
        <5>1. c \in Int /\ c + N <= x
          BY <1>0, <3>2, SlotApart
        <5>2. QED BY <1>0, <2>4, <3>1, <5>1
      <4>2. x <= k
        BY <1>0, <2>9, <3>1, <4>1
      <4>3. issued - k <= Half - N + Skipped(issued - 2)
        BY <1>0, <1>1, <2>5, <4>2
      <4>4. QED BY <2>1, <2>2, <2>10, <2>11, <2>12, <2>13, <4>3 DEF LastIs, LastKnown
    <3>3. CASE Slot(c) # Slot(x)
      <4>1. Slot(c) \in fences_pending' /\ c - k <= Half - N + 1
        BY <1>0, <2>2, <2>3, <2>11, <3>1, <3>3
      <4>2. Held(k)'
        BY <2>2, <2>12, <3>1, <4>1, <1>s DEF Held
      <4>3. QED BY <2>1, <2>2, <2>10, <2>11, <2>12, <4>2 DEF LastIs, LastKnown
    <3>4. QED BY <3>2, <3>3
  <2>16. QED BY <1>2, <2>14, <2>15 DEF LastIs
<1>14. QED
  BY <1>3, <1>4, <1>5, <1>6, <1>7, <1>8, <1>9, <1>10, <1>11, <1>12, <1>13
     DEF Next, FlushStep, FinishStep, Gpu

-----------------------------------------------------------------------------
(* The theorems, for kernels whose waits do not fail (a flush that gives up    *)
(* waiting leaves its slot pending, and the next one takes it for another      *)
(* fence's) and handles that may be as old as the ring of signals is long.     *)

OrderedInv == FenceInv /\ OrderInv /\ WindowInv

LEMMA OrderedInit ==
  ASSUME N <= MaxAge
  PROVE  Init => OrderedInv
<1> SUFFICES ASSUME Init PROVE OrderedInv
  OBVIOUS
<1>0. /\ N \in Nat /\ N >= 2 /\ MaxAge \in Nat /\ Half \in Nat /\ MaxAge + N <= Half
      /\ Wrap \in Nat /\ Wrap >= 8
      /\ Skipped(-2) \in {0, 1} /\ -1 \in Int
  BY Sizes, SkippedOnce
<1>1. FenceInv /\ OrderInv
  BY FenceInvInit DEF Init, OrderInv
<1>2. Holder /\ NewestInRing /\ WaitersPassed /\ Ages
  BY ThreadsAssumption DEF Init, Holder, NewestInRing, WaitersPassed, Ages
<1>3. SignalledPassed
  BY DEF Init, SignalledPassed
<1>4. LastIs(-1)
  <2>1. Id(-1) = Wrap - 1
    <3>1. ((Wrap * (-1)) + (Wrap - 1)) % Wrap = Wrap - 1
      BY <1>0, ModUnique
    <3>2. (Wrap * (-1)) + (Wrap - 1) = -1
      BY <1>0
    <3>3. QED BY <3>1, <3>2 DEF Id
  <2>2. issued - (-1) = 1 /\ issued - 2 = -2 /\ -1 < issued
    BY DEF Init
  <2>3. 1 <= Half - N + Skipped(-2)
    BY <1>0
  <2>4. Short(-1)
    BY <2>2, <2>3 DEF Init, Short
  <2>5. QED BY <2>1, <2>2, <2>4 DEF Init, LastIs
<1>5. QED BY <1>0, <1>1, <1>2, <1>3, <1>4 DEF OrderedInv, WindowInv, LastKnown

LEMMA OrderedPreserved ==
  ASSUME N <= MaxAge, "wait" \notin Faults
  PROVE  OrderedInv /\ [Next]_vars => OrderedInv'
<1> SUFFICES ASSUME OrderedInv, [Next]_vars PROVE OrderedInv'
  OBVIOUS
<1>1. TypeOK /\ MutexDiscipline /\ CompletionConserved /\ OrderInv /\ WindowInv
  BY DEF OrderedInv, FenceInv
<1>2. FenceInv' /\ OrderInv'
  BY <1>1, FenceInvPreserved, OrderPreserved DEF FenceInv
<1>3. Holder' /\ NewestInRing' /\ SignalledPassed' /\ Ages'
  BY <1>1, HolderPreserved, RingPreserved, AgesPreserved DEF WindowInv
<1>4. WaitersPassed' /\ LastKnown'
  BY <1>1, WaitersPreserved, LastPreserved
<1>5. QED BY <1>2, <1>3, <1>4 DEF OrderedInv, WindowInv

\* The ring of signals is not lapped: whoever gets the mutex finds that the GPU has
\* reached every fence dealt more than N fences ago.
THEOREM RingSafety ==
  ASSUME N <= MaxAge, "wait" \notin Faults
  PROVE  Spec => []RingNotLapped
<1>1. OrderedInv => RingNotLapped
  <2> SUFFICES ASSUME OrderedInv, fence_mutex = NoThread, NEW f \in inflight, ~(issued - f <= N)
               PROVE  FALSE
    BY DEF RingNotLapped
  <2>1. f \in Int /\ f + N \in Int /\ f + N < issued /\ ~(f + N <= f) /\ Slot(f + N) = Slot(f)
    BY SlotAgain, WidthAssumption DEF OrderedInv, FenceInv, TypeOK
  <2>2. Settled(f + N)
    BY ThreadsAssumption DEF OrderedInv, FenceInv, MutexDiscipline, Settled
  <2>3. QED BY <2>1, <2>2 DEF OrderedInv, WindowInv, NewestInRing
<1>2. QED BY <1>1, OrderedInit, OrderedPreserved, PTL DEF Spec

\* No fence at or before last_fence_id is still with the GPU, across every wrap of
\* the counter.
THEOREM LastSignalled ==
  ASSUME N <= MaxAge, "wait" \notin Faults
  PROVE  Spec => []LastSignalledComplete
<1>1. OrderedInv => LastSignalledComplete
  BY LastComplete DEF OrderedInv, FenceInv, WindowInv
<1>2. QED BY <1>1, OrderedInit, OrderedPreserved, PTL DEF Spec

\* viv_fence_finish reports a fence that is not too old only once the GPU has
\* reached it.
THEOREM FinishSafety ==
  ASSUME N <= MaxAge, "wait" \notin Faults
  PROVE  Spec => []FinishSound
<1>1. OrderedInv => FinishSound
  BY DEF OrderedInv, WindowInv, WaitersPassed, FinishSound
<1>2. QED BY <1>1, OrderedInit, OrderedPreserved, PTL DEF Spec

=============================================================================
