-------------------------- MODULE VideoMemoryProofs --------------------------
(***************************************************************************)
(* Proofs about VideoMemory, for any number of contexts, resources and     *)
(* context buffers, any capacity of the queue, and whichever calls fail.   *)
(*                                                                         *)
(* The events that delete an object are on their way from the steps of     *)
(* etna_bo_del through a queue to the ring.  The invariant says of each    *)
(* object where they can be.                                               *)
(***************************************************************************)
EXTENDS VideoMemory, SequenceTheorems, FiniteSetTheorems, TLAPS

-----------------------------------------------------------------------------
(* Events in a list. *)

Is(e, op, o) == e.op = op /\ e.obj = o
Has(s, op, o) == \E i \in DOMAIN s : Is(s[i], op, o)
Once(s, op, o) == \A i, j \in DOMAIN s : Is(s[i], op, o) /\ Is(s[j], op, o) => i = j

\* One free at most, one unlock at most, and the unlock first.
Sound(s, o) ==
  /\ Once(s, "free", o) /\ Once(s, "unlock", o)
  /\ \A i, j \in DOMAIN s : Is(s[i], "unlock", o) /\ Is(s[j], "free", o) => i < j

LEMMA EmptyList == \A op, o : ~Has(<< >>, op, o) /\ Sound(<< >>, o)
  BY DEF Has, Sound, Once

LEMMA OneEvent ==
  ASSUME NEW e, NEW op, NEW o
  PROVE  (Has(<< e >>, op, o) <=> Is(e, op, o)) /\ Sound(<< e >>, o)
<1>1. DOMAIN << e >> = {1} /\ << e >>[1] = e
  OBVIOUS
<1>2. Has(<< e >>, op, o) <=> Is(e, op, o)
  BY <1>1 DEF Has
<1>3. Once(<< e >>, "free", o) /\ Once(<< e >>, "unlock", o)
  BY <1>1 DEF Once
<1>4. ~(Is(e, "unlock", o) /\ Is(e, "free", o))
  BY DEF Is
<1>5. QED BY <1>1, <1>2, <1>3, <1>4 DEF Sound

\* The places of a concatenation.
LEMMA Places ==
  ASSUME NEW S, NEW s \in Seq(S), NEW t \in Seq(S)
  PROVE  /\ \A i \in DOMAIN s : i \in DOMAIN (s \o t) /\ (s \o t)[i] = s[i]
         /\ \A j \in DOMAIN t : Len(s) + j \in DOMAIN (s \o t) /\ (s \o t)[Len(s) + j] = t[j]
         /\ \A k \in DOMAIN (s \o t) : k \in DOMAIN s \/ \E j \in DOMAIN t : k = Len(s) + j
         /\ DOMAIN s = 1 .. Len(s) /\ DOMAIN t = 1 .. Len(t) /\ Len(s) \in Nat /\ Len(t) \in Nat
<1>1. /\ DOMAIN s = 1 .. Len(s) /\ DOMAIN t = 1 .. Len(t) /\ Len(s) \in Nat /\ Len(t) \in Nat
      /\ DOMAIN (s \o t) = 1 .. Len(s) + Len(t)
      /\ \A i \in 1 .. Len(s) + Len(t) : (s \o t)[i] = IF i <= Len(s) THEN s[i] ELSE t[i - Len(s)]
  BY ConcatProperties, LenProperties
<1>2. ASSUME NEW k \in DOMAIN (s \o t), k \notin DOMAIN s PROVE \E j \in DOMAIN t : k = Len(s) + j
  <2>1. k - Len(s) \in DOMAIN t /\ k = Len(s) + (k - Len(s))
    BY <1>1, <1>2
  <2>2. QED BY <2>1
<1>3. QED BY <1>1, <1>2

LEMMA HasConcat ==
  ASSUME NEW S, NEW s \in Seq(S), NEW t \in Seq(S), NEW op, NEW o
  PROVE  Has(s \o t, op, o) <=> Has(s, op, o) \/ Has(t, op, o)
<1>1. ASSUME Has(s, op, o) PROVE Has(s \o t, op, o)
  BY <1>1, Places DEF Has
<1>2. ASSUME Has(t, op, o) PROVE Has(s \o t, op, o)
  <2>1. PICK j \in DOMAIN t : Is(t[j], op, o)
    BY <1>2 DEF Has
  <2>2. Len(s) + j \in DOMAIN (s \o t) /\ (s \o t)[Len(s) + j] = t[j]
    BY Places
  <2>3. QED BY <2>1, <2>2 DEF Has
<1>3. ASSUME Has(s \o t, op, o), ~Has(s, op, o) PROVE Has(t, op, o)
  <2>1. PICK k \in DOMAIN (s \o t) : Is((s \o t)[k], op, o)
    BY <1>3 DEF Has
  <2>2. k \notin DOMAIN s
    BY <1>3, <2>1, Places DEF Has
  <2>3. PICK j \in DOMAIN t : k = Len(s) + j
    BY <2>2, Places
  <2>4. QED BY <2>1, <2>3, Places DEF Has
<1>4. QED BY <1>1, <1>2, <1>3

LEMMA SoundConcat ==
  ASSUME NEW S, NEW s \in Seq(S), NEW t \in Seq(S), NEW o,
         Sound(s, o), Sound(t, o),
         ~(Has(s, "free", o) /\ Has(t, "free", o)),
         ~(Has(s, "unlock", o) /\ Has(t, "unlock", o)),
         ~(Has(s, "free", o) /\ Has(t, "unlock", o))
  PROVE  Sound(s \o t, o)
<1>1. ASSUME NEW op \in {"free", "unlock"}, NEW i \in DOMAIN (s \o t), NEW j \in DOMAIN (s \o t),
             Is((s \o t)[i], op, o), Is((s \o t)[j], op, o)
      PROVE  i = j
  <2>1. CASE i \in DOMAIN s
    <3>1. Has(s, op, o)
      BY <1>1, <2>1, Places DEF Has
    <3>2. j \in DOMAIN s
      BY <1>1, <3>1, Places DEF Has
    <3>3. QED BY <1>1, <2>1, <3>2, Places DEF Sound, Once
  <2>2. CASE i \notin DOMAIN s
    <3>1. PICK k \in DOMAIN t : i = Len(s) + k
      BY <2>2, Places
    <3>2. Is(t[k], op, o)
      BY <1>1, <3>1, Places
    <3>3. ~Has(s, op, o)
      BY <1>1, <3>2 DEF Has
    <3>4. j \notin DOMAIN s
      BY <1>1, <3>3, Places DEF Has
    <3>5. PICK m \in DOMAIN t : j = Len(s) + m
      BY <3>4, Places
    <3>6. Is(t[m], op, o)
      BY <1>1, <3>5, Places
    <3>7. QED BY <1>1, <3>1, <3>2, <3>5, <3>6 DEF Sound, Once
  <2>3. QED BY <2>1, <2>2
<1>2. ASSUME NEW i \in DOMAIN (s \o t), NEW j \in DOMAIN (s \o t),
             Is((s \o t)[i], "unlock", o), Is((s \o t)[j], "free", o)
      PROVE  i < j
  <2>1. CASE j \in DOMAIN s
    <3>1. Has(s, "free", o)
      BY <1>2, <2>1, Places DEF Has
    <3>2. i \in DOMAIN s
      BY <1>2, <3>1, Places DEF Has
    <3>3. QED BY <1>2, <2>1, <3>2, Places DEF Sound
  <2>2. CASE j \notin DOMAIN s
    <3>1. PICK m \in DOMAIN t : j = Len(s) + m
      BY <2>2, Places
    <3>2. CASE i \in DOMAIN s
      BY <3>1, <3>2, Places
    <3>3. CASE i \notin DOMAIN s
      <4>1. PICK k \in DOMAIN t : i = Len(s) + k
        BY <3>3, Places
      <4>2. Is(t[k], "unlock", o) /\ Is(t[m], "free", o)
        BY <1>2, <3>1, <4>1, Places
      <4>3. k < m
        BY <4>2 DEF Sound
      <4>4. QED BY <3>1, <4>1, <4>3, Places
    <3>4. QED BY <3>2, <3>3
  <2>3. QED BY <2>1, <2>2
<1>3. QED BY <1>1, <1>2 DEF Sound, Once

\* What is left when the first event is taken.
LEMMA Rest ==
  ASSUME NEW S, NEW s \in Seq(S), s # << >>
  PROVE  /\ Head(s) = s[1] /\ Head(s) \in S /\ Tail(s) \in Seq(S)
         /\ 1 \in DOMAIN s /\ DOMAIN s = 1 .. Len(s) /\ Len(s) \in Nat
         /\ \A i \in DOMAIN Tail(s) : i \in Nat /\ i > 0 /\ i + 1 \in DOMAIN s /\ Tail(s)[i] = s[i + 1]
         /\ \A i \in DOMAIN s : i # 1 => i - 1 \in DOMAIN Tail(s) /\ Tail(s)[i - 1] = s[i]
<1>1. /\ Len(s) \in Nat \ {0} /\ DOMAIN s = 1 .. Len(s)
      /\ Head(s) = s[1] /\ Head(s) \in S /\ Tail(s) \in Seq(S)
  BY EmptySeq, LenProperties, HeadTailProperties
<1>2. /\ Len(Tail(s)) = Len(s) - 1 /\ DOMAIN Tail(s) = 1 .. Len(s) - 1
      /\ \A i \in 1 .. Len(s) - 1 : Tail(s)[i] = s[i + 1]
  BY <1>1, HeadTailProperties, LenProperties
<1>3. ASSUME NEW i \in DOMAIN s, i # 1 PROVE i - 1 \in DOMAIN Tail(s) /\ Tail(s)[i - 1] = s[i]
  <2>1. i - 1 \in 1 .. Len(s) - 1 /\ (i - 1) + 1 = i
    BY <1>1, <1>3
  <2>2. QED BY <1>2, <2>1
<1>4. QED BY <1>1, <1>2, <1>3

LEMMA HasTail ==
  ASSUME NEW S, NEW s \in Seq(S), s # << >>, NEW op, NEW o
  PROVE  /\ Has(s, op, o) <=> Is(Head(s), op, o) \/ Has(Tail(s), op, o)
         /\ Once(s, op, o) => Once(Tail(s), op, o)
         /\ Once(s, op, o) /\ Is(Head(s), op, o) => ~Has(Tail(s), op, o)
<1>1. Has(s, op, o) => Is(Head(s), op, o) \/ Has(Tail(s), op, o)
  <2>1. ASSUME NEW i \in DOMAIN s, Is(s[i], op, o), i # 1 PROVE Has(Tail(s), op, o)
    <3>1. i - 1 \in DOMAIN Tail(s) /\ Tail(s)[i - 1] = s[i]
      BY <2>1, Rest
    <3>2. QED BY <2>1, <3>1 DEF Has
  <2>2. QED BY <2>1, Rest DEF Has
<1>2. Is(Head(s), op, o) \/ Has(Tail(s), op, o) => Has(s, op, o)
  BY Rest DEF Has
<1>3. ASSUME Once(s, op, o) PROVE Once(Tail(s), op, o)
  <2>1. ASSUME NEW i \in DOMAIN Tail(s), NEW j \in DOMAIN Tail(s),
               Is(Tail(s)[i], op, o), Is(Tail(s)[j], op, o)
        PROVE  i = j
    <3>1. i + 1 = j + 1
      BY <1>3, <2>1, Rest DEF Once
    <3>2. QED BY <3>1, Rest
  <2>2. QED BY <2>1 DEF Once
<1>4. ASSUME Once(s, op, o), Is(Head(s), op, o), Has(Tail(s), op, o) PROVE FALSE
  <2>1. PICK i \in DOMAIN Tail(s) : Is(Tail(s)[i], op, o)
    BY <1>4 DEF Has
  <2>2. i + 1 = 1
    BY <1>4, <2>1, Rest DEF Once
  <2>3. QED BY <2>1, <2>2, Rest
<1>5. QED BY <1>1, <1>2, <1>3, <1>4

LEMMA SoundTail ==
  ASSUME NEW S, NEW s \in Seq(S), s # << >>, NEW o, Sound(s, o)
  PROVE  /\ Sound(Tail(s), o)
         /\ Is(Head(s), "free", o) => ~Has(s, "unlock", o)
<1>1. Once(Tail(s), "free", o) /\ Once(Tail(s), "unlock", o)
  BY HasTail DEF Sound
<1>2. ASSUME NEW i \in DOMAIN Tail(s), NEW j \in DOMAIN Tail(s),
             Is(Tail(s)[i], "unlock", o), Is(Tail(s)[j], "free", o)
      PROVE  i < j
  <2>1. i + 1 < j + 1 /\ i \in Nat /\ j \in Nat
    BY <1>2, Rest DEF Sound
  <2>2. QED BY <2>1
<1>3. ASSUME Is(Head(s), "free", o), Has(s, "unlock", o) PROVE FALSE
  <2>1. PICK i \in DOMAIN s : Is(s[i], "unlock", o)
    BY <1>3 DEF Has
  <2>2. i < 1
    BY <1>3, <2>1, Rest DEF Sound
  <2>3. QED BY <2>1, <2>2, Rest
<1>4. QED BY <1>1, <1>2, <1>3 DEF Sound

-----------------------------------------------------------------------------
(* Types. *)

Runs == [op : {"run"}, uses : SUBSET Objects]
Items == Events \union Runs

LEMMA ObjectFacts ==
  /\ \A r \in Resources : Bo(r) \in VidMem /\ Ts(r) \in VidMem
  /\ \A c \in Contexts : CmdBufs(c) \in Objects \ CtxBufs /\ CmdBufs(c) \notin VidMem
  /\ CtxBufs \subseteq Objects \ VidMem /\ VidMem \subseteq Objects \ Contiguous
  /\ \A o \in Objects : o \in VidMem \/ o \in Contiguous
  BY NamesAssumption DEF Bo, Ts, CmdBufs, Objects, VidMem, Contiguous

\* A queue is a list for the ring too.
LEMMA QueueItems ==
  ASSUME NEW s \in Seq(Events)
  PROVE  s \in Seq(Items)
<1>1. \A i \in 1 .. Len(s) : s[i] \in Items
  BY ElementOfSeq DEF Items
<1>2. QED BY <1>1, SeqDef, LenProperties

LEMMA EventTypes ==
  /\ \A o \in Objects : Unlock(o) \in Events /\ Free(o) \in Events
  /\ \A uses \in SUBSET Objects : Run(uses) \in Items /\ << Run(uses) >> \in Seq(Items)
  /\ \A s \in Steps : s.op # "sync" => EventOf(s) \in Events
  /\ \A e \in Events : e \in Items /\ << e >> \in Seq(Events) /\ << e >> \in Seq(Items)
<1>1. \A o \in Objects : Unlock(o) \in Events /\ Free(o) \in Events
  BY DEF Events, Unlock, Free
<1>2. \A uses \in SUBSET Objects : Run(uses) \in Items
  BY DEF Run, Items, Runs
<1>3. \A s \in Steps : s.op # "sync" => EventOf(s) \in Events
  BY DEF Steps, EventOf, Events
<1>4. \A e \in Events : e \in Items
  BY DEF Items
<1>5. QED BY <1>1, <1>2, <1>3, <1>4

LEMMA TypeInit == Init => TypeOK
<1>1. \A o \in Objects : {"none", "mapped"} \subseteq MemStates
  BY DEF MemStates
<1>2. QED BY <1>1 DEF Init, TypeOK

\* Every context buffer a flush leaves has its type, and so have the queues.
LEMMA ClearTypes ==
  ASSUME TypeOK, NEW c \in Contexts, ContextClear(c)
  PROVE  /\ mem' \in [Objects -> MemStates] /\ ctx_bo' \in [Contexts -> CtxBufs]
         /\ queue' \in [Contexts -> Seq(Events)]
<1>1. ctx_bo[c] \in CtxBufs /\ Free(ctx_bo[c]) \in Events /\ "mapped" \in MemStates
  BY ObjectFacts, EventTypes DEF TypeOK, MemStates
<1>2. << >> \in Seq(Events) /\ << Free(ctx_bo[c]) >> \in Seq(Events)
  BY <1>1
<1>3. \A q \in Seq(Events) : queue' = [queue EXCEPT ![c] = q] => queue' \in [Contexts -> Seq(Events)]
  BY DEF TypeOK
<1>4. \A b \in CtxBufs : /\ [mem EXCEPT ![b] = "mapped"] \in [Objects -> MemStates]
                        /\ [ctx_bo EXCEPT ![c] = b] \in [Contexts -> CtxBufs]
  BY <1>1, ObjectFacts DEF TypeOK
<1>5. CASE InUse(c)
  <2>1. PICK b \in CtxBufs : mem' = [mem EXCEPT ![b] = "mapped"] /\ ctx_bo' = [ctx_bo EXCEPT ![c] = b]
    BY <1>5 DEF ContextClear
  <2>2. queue' = [queue EXCEPT ![c] = << Free(ctx_bo[c]) >>]
    BY <1>5 DEF ContextClear
  <2>3. QED BY <1>2, <1>3, <1>4, <2>1, <2>2
<1>6. CASE ~InUse(c)
  <2>1. queue' = [queue EXCEPT ![c] = << >>] /\ mem' = mem /\ ctx_bo' = ctx_bo
    BY <1>6 DEF ContextClear
  <2>2. QED BY <1>2, <1>3, <2>1 DEF TypeOK
<1>7. QED BY <1>5, <1>6

LEMMA RingTypes ==
  ASSUME TypeOK, NEW c \in Contexts
  PROVE  /\ ring \in Seq(Items) /\ queue[c] \in Seq(Items) /\ queue[c] \in Seq(Events)
         /\ Uses(c) \in SUBSET Objects /\ << Run(Uses(c)) >> \in Seq(Items)
         /\ (ring \o << Run(Uses(c)) >>) \o queue[c] \in Seq(Items)
         /\ ring \o queue[c] \in Seq(Items) /\ Append(ring, Run(Uses(c))) \in Seq(Items)
         /\ ring \o << Run(Uses(c)) >> \in Seq(Items)
         /\ ObjectsOf(queue[c]) \subseteq Objects
<1>1. ring \in Seq(Items) /\ queue[c] \in Seq(Events) /\ ctx_bo[c] \in Objects /\ cmds[c] \subseteq Objects
  BY ObjectFacts DEF TypeOK, Items, Runs
<1>2. queue[c] \in Seq(Items)
  BY <1>1, QueueItems
<1>3. Uses(c) \in SUBSET Objects
  BY <1>1 DEF Uses
<1>4. Run(Uses(c)) \in Items
  BY <1>3, EventTypes
<1>5. ObjectsOf(queue[c]) \subseteq Objects
  <2>1. \A i \in DOMAIN queue[c] : queue[c][i] \in Events
    BY <1>1, ElementOfSeq, LenProperties
  <2>2. QED BY <2>1 DEF ObjectsOf, Events
<1>6. QED BY <1>1, <1>2, <1>3, <1>4, <1>5

LEMMA HeadType ==
  ASSUME TypeOK, work # << >>
  PROVE  /\ Head(work) \in Steps /\ Tail(work) \in Seq(Steps)
         /\ Head(work).obj \in Objects /\ Head(work).via \in Contexts \union {NoContext}
         /\ Head(work).op \in {"sync", "unlock", "free"}
<1>1. Head(work) \in Steps /\ Tail(work) \in Seq(Steps)
  BY Rest DEF TypeOK
<1>2. QED BY <1>1 DEF Steps

LEMMA TypePreserved == ASSUME TypeOK, [Next]_vars PROVE TypeOK'
<1> USE DEF resourceVars
<1>1. ASSUME NEW r \in Resources, CreateResource(r) PROVE TypeOK'
  BY <1>1, ObjectFacts DEF CreateResource, TypeOK, MemStates
<1>2. ASSUME NEW r \in Resources, CreateLockFails(r) PROVE TypeOK'
  <2>1. Bo(r) \in Objects /\ Step("free", Bo(r), NoContext) \in Steps
    BY ObjectFacts DEF Step, Steps
  <2>2. QED BY <1>2, <2>1 DEF CreateLockFails, TypeOK, MemStates
<1>3. ASSUME NEW c \in Contexts, NEW r \in Resources,
             BindBuffer(c, r) \/ BindTexture(c, r) \/ Unbind(c, r)
      PROVE  TypeOK'
  <2>1. bound \in [Contexts -> SUBSET Resources] /\ last_ctx \in [Resources -> Contexts \union {NoContext}]
    BY DEF TypeOK
  <2>2. /\ [bound EXCEPT ![c] = @ \union {r}] \in [Contexts -> SUBSET Resources]
        /\ [bound EXCEPT ![c] = @ \ {r}] \in [Contexts -> SUBSET Resources]
        /\ [last_ctx EXCEPT ![r] = c] \in [Resources -> Contexts \union {NoContext}]
    BY <2>1
  <2>3. bound' \in [Contexts -> SUBSET Resources] /\ last_ctx' \in [Resources -> Contexts \union {NoContext}]
    BY <1>3, <2>1, <2>2 DEF BindBuffer, BindTexture, Unbind, Touched
  <2>4. UNCHANGED << mem, exists, alive, cmds, queue, ctx_bo, current, ring, work, lost, halfway >>
    BY <1>3 DEF BindBuffer, BindTexture, Unbind
  <2>5. QED BY <2>3, <2>4 DEF TypeOK
<1>4. ASSUME NEW c \in Contexts, NEW r \in Resources, BindSurface(c, r) PROVE TypeOK'
  <2>1. Ts(r) \in Objects /\ mem[Ts(r)] \in MemStates /\ "mapped" \in MemStates
    BY ObjectFacts DEF TypeOK, MemStates
  <2>2. \A ts \in {mem[Ts(r)], "mapped"} : [mem EXCEPT ![Ts(r)] = ts] \in [Objects -> MemStates]
    BY <2>1 DEF TypeOK
  <2>3. QED BY <1>4, <2>2 DEF BindSurface, Touched, TypeOK
<1>5. ASSUME NEW c \in Contexts, Draw(c) PROVE TypeOK'
  <2>1. \A r \in Resources : Parts(r) \subseteq Objects
    BY ObjectFacts DEF Parts
  <2>2. {CmdBufs(c)} \union UNION {Parts(r) : r \in bound[c]} \subseteq Objects
    BY <2>1, ObjectFacts DEF TypeOK
  <2>3. cmds' \in [Contexts -> SUBSET Objects]
    BY <1>5, <2>2 DEF Draw, TypeOK
  <2>4. QED BY <1>5, <2>3 DEF Draw, TypeOK
<1>6. ASSUME NEW c \in Contexts, DestroyContext(c) PROVE TypeOK'
  <2>1. mem' \in [Objects -> MemStates]
    BY <1>6 DEF DestroyContext, TypeOK, MemStates
  <2>2. queue' \in [Contexts -> Seq(Events)] /\ cmds' \in [Contexts -> SUBSET Objects]
    BY <1>6 DEF DestroyContext, TypeOK
  <2>3. lost' \subseteq Objects
    BY <1>6, RingTypes DEF DestroyContext, TypeOK
  <2>4. QED BY <1>6, <2>1, <2>2, <2>3 DEF DestroyContext, TypeOK
<1>7. ASSUME NEW r \in Resources, DestroyResource(r) PROVE TypeOK'
  <2>1. \A o \in Objects, c \in Contexts \union {NoContext} : DelSteps(o, c) \in Seq(Steps)
    <3>1. ASSUME NEW o \in Objects, NEW c \in Contexts \union {NoContext}, NEW op \in {"sync", "free"}
          PROVE  Step(op, o, c) \in Steps
      BY DEF Step, Steps
    <3>2. QED BY <3>1 DEF DelSteps
  <2>2. last_ctx[r] \in Contexts \union {NoContext} /\ Bo(r) \in Objects /\ Ts(r) \in Objects
    BY ObjectFacts DEF TypeOK
  <2>3. DelSteps(Bo(r), last_ctx[r]) \o DelSteps(Ts(r), last_ctx[r]) \in Seq(Steps)
    BY <2>1, <2>2
  <2>4. QED BY <1>7, <2>3 DEF DestroyResource, TypeOK
<1>8. ASSUME NEW c \in Contexts, FlushCommands(c) PROVE TypeOK'
  <2>1. ring' \in Seq(Items) /\ ContextClear(c)
    BY <1>8, RingTypes DEF FlushCommands
  <2>2. cmds' \in [Contexts -> SUBSET Objects]
    BY <1>8 DEF FlushCommands, TypeOK
  <2>3. QED BY <1>8, <2>1, <2>2, ClearTypes DEF FlushCommands, TypeOK, Items, Runs
<1>9. ASSUME NEW c \in Contexts, FlushEvents(c) PROVE TypeOK'
  <2>1. ring' \in Seq(Items)
    BY <1>9, RingTypes DEF FlushEvents
  <2>2. queue' \in [Contexts -> Seq(Events)]
    BY <1>9 DEF FlushEvents, TypeOK
  <2>3. QED BY <1>9, <2>1, <2>2 DEF FlushEvents, TypeOK, Items, Runs
<1>10. ASSUME NEW c \in Contexts, MayFlush(c), AfterRefusal(c)
       PROVE  queue' \in [Contexts -> Seq(Events)] /\ work' \in Seq(Steps) /\ lost' \subseteq Objects
  <2>1. queue' \in [Contexts -> Seq(Events)]
    BY <1>10 DEF AfterRefusal, TypeOK
  <2>2. CASE Idle
    BY <1>10, <2>1, <2>2, RingTypes DEF AfterRefusal, TypeOK
  <2>3. CASE ~Idle
    BY <1>10, <2>1, <2>3, RingTypes, HeadType DEF AfterRefusal, TypeOK, Idle
  <2>4. QED BY <2>2, <2>3
<1>11. ASSUME NEW c \in Contexts, FlushRefused(c) PROVE TypeOK'
  BY <1>10, <1>11 DEF FlushRefused, TypeOK
<1>12. ASSUME NEW c \in Contexts, FlushHalfway(c) PROVE TypeOK'
  <2>1. ring' \in Seq(Items)
    BY <1>12, RingTypes DEF FlushHalfway
  <2>2. QED BY <1>10, <1>12, <2>1 DEF FlushHalfway, TypeOK, Items, Runs
<1>13. ASSUME SyncUnlock PROVE TypeOK'
  <2>1. work # << >>
    BY <1>13 DEF SyncUnlock, NextStep
  <2>2. Step("unlock", Head(work).obj, Head(work).via) \in Steps
    BY <2>1, HeadType DEF Step, Steps
  <2>3. << Step("unlock", Head(work).obj, Head(work).via) >> \o Tail(work) \in Seq(Steps)
    BY <2>1, <2>2, HeadType
  <2>4. mem' \in [Objects -> MemStates]
    BY <1>13, <2>1, HeadType DEF SyncUnlock, TypeOK, MemStates
  <2>5. QED BY <1>13, <2>1, <2>3, <2>4, HeadType DEF SyncUnlock, TypeOK
<1>14. ASSUME SyncUnlockFails \/ DirectStepFails PROVE TypeOK'
  BY <1>14, HeadType DEF SyncUnlockFails, DirectStepFails, NextStep, TypeOK
<1>15. ASSUME QueueStep PROVE TypeOK'
  <2> DEFINE s == Head(work)
  <2>1. work # << >> /\ s.op # "sync" /\ s.via # NoContext
    BY <1>15 DEF QueueStep, NextStep
  <2>2. s.via \in Contexts /\ EventOf(s) \in Events
    BY <2>1, HeadType, EventTypes
  <2>3. queue' \in [Contexts -> Seq(Events)]
    BY <1>15, <2>2 DEF QueueStep, TypeOK
  <2>4. QED BY <1>15, <2>1, <2>3, HeadType DEF QueueStep, TypeOK
<1>16. ASSUME DirectStep PROVE TypeOK'
  <2>1. work # << >> /\ Head(work).op # "sync"
    BY <1>16 DEF DirectStep, NextStep
  <2>2. EventOf(Head(work)) \in Items
    BY <2>1, HeadType, EventTypes
  <2>3. ring' \in Seq(Items)
    BY <1>16, <2>2 DEF DirectStep, TypeOK, Items, Runs
  <2>4. QED BY <1>16, <2>1, <2>3, HeadType DEF DirectStep, TypeOK, Items, Runs
<1>17. ASSUME GpuExecute PROVE TypeOK'
  <2>1. ring \in Seq(Items) /\ ring # << >>
    BY <1>17 DEF GpuExecute, TypeOK, Items, Runs
  <2>2. Head(ring) \in Items /\ ring' \in Seq(Items)
    BY <1>17, <2>1, Rest DEF GpuExecute
  <2>3. Head(ring).op # "run" => Head(ring).obj \in Objects
    BY <2>2 DEF Items, Events, Runs
  <2>4. Head(ring).op # "run" => AfterEvent(Head(ring)) \in MemStates
    BY <2>3 DEF AfterEvent, TypeOK, MemStates
  <2>5. mem' \in [Objects -> MemStates]
    BY <1>17, <2>3, <2>4 DEF GpuExecute, TypeOK
  <2>6. QED BY <1>17, <2>2, <2>5 DEF GpuExecute, TypeOK, Items, Runs
<1>18. CASE UNCHANGED vars
  BY <1>18 DEF vars, TypeOK
<1>19. QED
  BY <1>1, <1>2, <1>3, <1>4, <1>5, <1>6, <1>7, <1>8, <1>9, <1>11, <1>12, <1>13, <1>14, <1>15,
     <1>16, <1>17, <1>18 DEF Next, Application, Flush, Delete

\* Every variable has its type.
THEOREM TypeCorrect == Spec => []TypeOK
  BY TypeInit, TypePreserved, PTL DEF Spec

-----------------------------------------------------------------------------
(* Where the events of an object are. *)

InQueue(op, o) == \E c \in Contexts : Has(queue[c], op, o)
Pending(op, o) == Has(ring, op, o) \/ Has(work, op, o) \/ InQueue(op, o)

\* In one place at most.
OnePlace(op, o) ==
  /\ ~(Has(ring, op, o) /\ Has(work, op, o))
  /\ \A c \in Contexts : Has(queue[c], op, o) =>
       /\ ~Has(ring, op, o) /\ ~Has(work, op, o)
       /\ \A d \in Contexts : Has(queue[d], op, o) => d = c

\* The unlock goes before the free.
UnlockFirst(o) ==
  /\ Sound(ring, o) /\ \A c \in Contexts : Sound(queue[c], o)
  /\ \A c \in Contexts : Has(queue[c], "unlock", o) =>
       /\ ~Has(ring, "free", o)
       /\ \A d \in Contexts : Has(queue[d], "free", o) => d = c

\* What the kernel knows of an object says how far its deletion has come.
Stage(o) ==
  /\ mem[o] = "none" \/ Owned(o) => ~Pending("free", o) /\ ~Pending("unlock", o) /\ o \notin lost
  /\ Owned(o) => mem[o] \in {"none", "mapped"}
  /\ Pending("unlock", o) => mem[o] = "unlocking" /\ o \in VidMem
  /\ Has(work, "sync", o) => mem[o] = "mapped" /\ o \notin lost
  /\ mem[o] # "none" /\ ~Owned(o) /\ o \notin lost => Pending("free", o)
  /\ o \in lost /\ Pending("free", o) =>
       o \in VidMem /\ mem[o] \in {"mapped", "unlocking"} /\ ~Pending("unlock", o)
  /\ o \in VidMem \ lost /\ Pending("free", o) =>
       \/ mem[o] = "unlocked"
       \/ mem[o] = "unlocking" /\ Pending("unlock", o)
       \/ mem[o] = "mapped" /\ Has(work, "sync", o)

Life(o) == OnePlace("free", o) /\ OnePlace("unlock", o) /\ UnlockFirst(o) /\ Stage(o)

\* An etna_bo_del under way: every other step has its free behind it, and the
\* free goes where the unlock went.
Shape(w) ==
  /\ \A i \in DOMAIN w :
       /\ w[i].obj \in VidMem
       /\ w[i].op # "free" =>
            i + 1 \in DOMAIN w /\ w[i + 1] = Step("free", w[i].obj, w[i].via)
       /\ w[i].op = "unlock" => i = 1
  /\ \A o \in Objects : Once(w, "free", o)

SameWay ==
  \A i \in DOMAIN work, c \in Contexts : Has(queue[c], "unlock", work[i].obj) => work[i].via = c

\* What is owned is mapped, and no two contexts have the same buffer.
Owners ==
  /\ \A c \in alive : mem[CmdBufs(c)] = "mapped" /\ (HasContext => mem[ctx_bo[c]] = "mapped")
  /\ \A r \in exists : mem[Bo(r)] = "mapped" /\ mem[Ts(r)] \in {"none", "mapped"}
  /\ HasContext => \A c, d \in alive : ctx_bo[c] = ctx_bo[d] => c = d

MemoryInv == Shape(work) /\ SameWay /\ Owners /\ \A o \in Objects : Life(o)

LEMMA Distinct ==
  /\ \A r, s \in Resources : (Bo(r) = Bo(s) => r = s) /\ (Ts(r) = Ts(s) => r = s) /\ Bo(r) # Ts(s)
  /\ \A c, d \in Contexts : CmdBufs(c) = CmdBufs(d) => c = d
  BY DEF Bo, Ts, CmdBufs

LEMMA ShapeHead ==
  ASSUME NEW w \in Seq(Steps), w # << >>, Shape(w)
  PROVE  /\ Shape(Tail(w)) /\ Head(w).obj \in VidMem
         /\ \A o : ~Has(Tail(w), "unlock", o)
         /\ Head(w).op # "free" =>
              /\ Tail(w) # << >> /\ 1 \in DOMAIN Tail(w)
              /\ Tail(w)[1] = Step("free", Head(w).obj, Head(w).via)
              /\ Has(Tail(w), "free", Head(w).obj) /\ Has(w, "free", Head(w).obj)
              /\ \A i \in DOMAIN Tail(w) : Tail(w)[i].obj = Head(w).obj => Tail(w)[i].via = Head(w).via
         /\ Head(w).op = "free" => ~Has(w, "sync", Head(w).obj) /\ ~Has(w, "unlock", Head(w).obj)
         /\ ~Has(Tail(w), "sync", Head(w).obj)
<1> DEFINE h == Head(w)
           u == Tail(w)
<1>1. h = w[1] /\ 1 \in DOMAIN w /\ h.obj \in VidMem /\ u \in Seq(Steps)
  BY Rest DEF Shape
<1>2. /\ \A i \in DOMAIN u : i \in Nat /\ i > 0 /\ i + 1 \in DOMAIN w /\ u[i] = w[i + 1]
      /\ \A i \in DOMAIN w : i # 1 => i - 1 \in DOMAIN u /\ u[i - 1] = w[i]
      /\ DOMAIN w = 1 .. Len(w) /\ Len(w) \in Nat
  BY Rest
<1>3. ASSUME NEW i \in DOMAIN u
      PROVE  /\ u[i].obj \in VidMem
             /\ u[i].op # "free" => i + 1 \in DOMAIN u /\ u[i + 1] = Step("free", u[i].obj, u[i].via)
             /\ u[i].op # "unlock"
  <2>1. i \in Nat /\ i > 0 /\ i + 1 \in DOMAIN w /\ u[i] = w[i + 1]
    BY <1>2, <1>3
  <2>2. u[i].op # "unlock"
    <3>1. i + 1 # 1
      BY <2>1
    <3>2. QED BY <2>1, <3>1 DEF Shape
  <2>3. ASSUME u[i].op # "free"
        PROVE  i + 1 \in DOMAIN u /\ u[i + 1] = Step("free", u[i].obj, u[i].via)
    <3>1. (i + 1) + 1 \in DOMAIN w /\ w[(i + 1) + 1] = Step("free", u[i].obj, u[i].via)
      BY <2>1, <2>3 DEF Shape
    <3>2. ((i + 1) + 1) # 1 /\ ((i + 1) + 1) - 1 = i + 1
      BY <2>1
    <3>3. QED BY <1>2, <3>1, <3>2
  <2>4. u[i].obj \in VidMem
    BY <2>1 DEF Shape
  <2>5. QED BY <2>2, <2>3, <2>4
<1>4. Shape(u)
  <2>1. \A o \in Objects : Once(u, "free", o)
    BY HasTail DEF Shape
  <2>2. QED BY <1>3, <2>1 DEF Shape
<1>5. \A o : ~Has(u, "unlock", o)
  BY <1>3 DEF Has, Is
<1>6. ASSUME h.op # "free"
      PROVE  /\ u # << >> /\ 1 \in DOMAIN u /\ u[1] = Step("free", h.obj, h.via)
             /\ Has(u, "free", h.obj) /\ Has(w, "free", h.obj)
  <2>1. 1 + 1 \in DOMAIN w /\ w[1 + 1] = Step("free", h.obj, h.via)
    BY <1>1, <1>6 DEF Shape
  <2>2. 1 + 1 # 1 /\ (1 + 1) - 1 = 1
    OBVIOUS
  <2>3. 1 \in DOMAIN u /\ u[1] = Step("free", h.obj, h.via)
    BY <1>2, <2>1, <2>2
  <2>4. Is(u[1], "free", h.obj) /\ Is(w[1 + 1], "free", h.obj)
    BY <2>1, <2>3 DEF Is, Step
  <2>5. Has(u, "free", h.obj) /\ Has(w, "free", h.obj)
    BY <2>1, <2>3, <2>4 DEF Has
  <2>6. u # << >>
    BY <2>3
  <2>7. QED BY <2>3, <2>5, <2>6
<1>7. ASSUME NEW i \in DOMAIN w, NEW j \in DOMAIN w, w[i].obj = w[j].obj,
             w[i].op = "free", w[j].op # "free"
      PROVE  i = j + 1
  <2>1. j + 1 \in DOMAIN w /\ w[j + 1] = Step("free", w[j].obj, w[j].via)
    BY <1>7 DEF Shape
  <2>2. Is(w[i], "free", w[j].obj) /\ Is(w[j + 1], "free", w[j].obj) /\ w[j].obj \in Objects
    BY <1>7, <2>1, ObjectFacts DEF Is, Step, Shape
  <2>3. QED BY <2>1, <2>2 DEF Shape, Once
<1>8. ASSUME h.op = "free", NEW op \in {"sync", "unlock"} PROVE ~Has(w, op, h.obj)
  <2>1. SUFFICES ASSUME NEW j \in DOMAIN w, Is(w[j], op, h.obj) PROVE FALSE
    BY DEF Has
  <2>2. 1 = j + 1
    BY <1>1, <1>7, <1>8, <2>1 DEF Is
  <2>3. QED BY <1>2, <2>2
<1>9. ~Has(u, "sync", h.obj)
  <2>1. SUFFICES ASSUME NEW k \in DOMAIN u, Is(u[k], "sync", h.obj) PROVE FALSE
    BY DEF Has
  <2>2. k + 1 \in DOMAIN w /\ w[k + 1].op = "sync" /\ w[k + 1].obj = h.obj /\ k \in Nat /\ k > 0
    BY <1>2, <2>1 DEF Is
  <2>3. CASE h.op = "free"
    BY <1>8, <2>2, <2>3 DEF Has, Is
  <2>4. CASE h.op # "free"
    <3>1. 1 + 1 \in DOMAIN w /\ w[1 + 1].op = "free" /\ w[1 + 1].obj = h.obj
      <4>1. 1 + 1 \in DOMAIN w /\ w[1 + 1] = Step("free", h.obj, h.via)
        BY <1>1, <2>4 DEF Shape
      <4>2. QED BY <4>1 DEF Step
    <3>2. 1 + 1 = (k + 1) + 1
      BY <1>7, <2>2, <3>1
    <3>3. QED BY <2>2, <3>2
  <2>5. QED BY <2>3, <2>4
<1>10. ASSUME h.op # "free", NEW i \in DOMAIN u, u[i].obj = h.obj PROVE u[i].via = h.via
  <2>1. u[i].op # "unlock" /\ u[i].op # "sync"
    BY <1>3, <1>9, <1>10 DEF Has, Is
  <2>2. u[i] \in Steps
    BY <1>1, <1>10, ElementOfSeq, LenProperties
  <2>3. u[i].op = "free"
    BY <2>1, <2>2 DEF Steps
  <2>4. Is(u[i], "free", h.obj) /\ Is(u[1], "free", h.obj) /\ 1 \in DOMAIN u /\ h.obj \in Objects
    BY <1>1, <1>6, <1>10, <2>3, ObjectFacts DEF Is, Step
  <2>5. i = 1
    BY <1>4, <1>10, <2>4 DEF Shape, Once
  <2>6. u[1] = Step("free", h.obj, h.via)
    BY <1>6, <1>10
  <2>7. QED BY <2>5, <2>6 DEF Step
<1>11. QED BY <1>1, <1>4, <1>5, <1>6, <1>8, <1>9, <1>10

\* A step that is not the free has its free behind it.
LEMMA ShapeFree ==
  ASSUME NEW w, Shape(w), NEW o
  PROVE  Has(w, "sync", o) \/ Has(w, "unlock", o) => Has(w, "free", o)
<1>1. SUFFICES ASSUME NEW i \in DOMAIN w, w[i].op # "free", w[i].obj = o PROVE Has(w, "free", o)
  BY DEF Has, Is
<1>2. i + 1 \in DOMAIN w /\ w[i + 1] = Step("free", o, w[i].via)
  BY <1>1 DEF Shape
<1>3. Is(w[i + 1], "free", o)
  BY <1>2 DEF Is, Step
<1>4. QED BY <1>2, <1>3 DEF Has

-----------------------------------------------------------------------------
(* The invariant is kept: resources, bindings and commands. *)

LEMMA MemoryInit == Init => MemoryInv
<1> SUFFICES ASSUME Init PROVE MemoryInv
  OBVIOUS
<1>1. PICK b \in [Contexts -> CtxBufs] :
        /\ \A c, d \in Contexts : b[c] = b[d] => c = d
        /\ ctx_bo = b
        /\ mem = [o \in Objects |->
                    IF o \in Contexts \X {"cmd"} \/ (HasContext /\ \E c \in Contexts : o = b[c])
                    THEN "mapped" ELSE "none"]
        /\ exists = {} /\ alive = Contexts /\ lost = {}
        /\ queue = [c \in Contexts |-> << >>] /\ ring = << >> /\ work = << >>
  BY DEF Init
<1>2. Shape(work) /\ SameWay
  BY <1>1 DEF Shape, SameWay, Once
<1>3. Owners
  <2>1. \A c \in Contexts : CmdBufs(c) \in Objects /\ CmdBufs(c) \in Contexts \X {"cmd"} /\ b[c] \in Objects
    BY ObjectFacts DEF CmdBufs
  <2>2. QED BY <1>1, <2>1 DEF Owners
<1>4. ASSUME NEW o \in Objects PROVE Life(o)
  <2>1. \A op : \A c \in Contexts : ~Has(ring, op, o) /\ ~Has(work, op, o) /\ ~Has(queue[c], op, o)
    <3>1. \A op : ~Has(<< >>, op, o)
      BY EmptyList
    <3>2. QED BY <1>1, <3>1
  <2>2. UnlockFirst(o)
    <3>1. Sound(<< >>, o)
      BY EmptyList
    <3>2. Sound(ring, o) /\ \A c \in Contexts : Sound(queue[c], o)
      BY <1>1, <3>1
    <3>3. \A c \in Contexts : ~Has(queue[c], "unlock", o)
      BY <1>1, EmptyList
    <3>4. QED BY <3>2, <3>3 DEF UnlockFirst
  <2>3. ~Pending("free", o) /\ ~Pending("unlock", o) /\ ~Has(work, "sync", o)
    BY <1>1, EmptyList DEF Pending, InQueue
  <2>4. mem[o] # "none" => Owned(o)
    <3>1. ASSUME o \in Contexts \X {"cmd"} PROVE \E c \in Contexts : o = CmdBufs(c)
      BY <3>1 DEF CmdBufs
    <3>2. QED BY <1>1, <3>1 DEF Owned
  <2>5. mem[o] \in {"none", "mapped"} /\ o \notin lost
    BY <1>1
  <2>6. Stage(o)
    BY <2>3, <2>4, <2>5 DEF Stage
  <2>7. OnePlace("free", o) /\ OnePlace("unlock", o)
    BY <1>1, EmptyList DEF OnePlace
  <2>8. QED BY <2>2, <2>6, <2>7 DEF Life
<1>5. QED BY <1>2, <1>3, <1>4 DEF MemoryInv

\* Nothing happens to an object.
LEMMA Unmoved ==
  ASSUME NEW o, Life(o), UNCHANGED << ring, queue, work, lost >>,
         mem'[o] = mem[o], Owned(o)' <=> Owned(o)
  PROVE  Life(o)'
<1>1. /\ OnePlace("free", o)' <=> OnePlace("free", o)
      /\ OnePlace("unlock", o)' <=> OnePlace("unlock", o)
      /\ UnlockFirst(o)' <=> UnlockFirst(o)
      /\ Pending("free", o)' <=> Pending("free", o)
      /\ Pending("unlock", o)' <=> Pending("unlock", o)
  BY DEF OnePlace, UnlockFirst, Pending, InQueue
<1>2. Stage(o)'
  BY <1>1, Zenon DEF Life, Stage
<1>3. QED BY <1>1, <1>2 DEF Life

\* No step of a deletion is taken and no event moves.
LEMMA StillWork ==
  ASSUME Shape(work), SameWay, UNCHANGED << queue, work >>
  PROVE  Shape(work)' /\ SameWay'
  BY DEF Shape, SameWay

LEMMA KeptByCreate ==
  ASSUME TypeOK, MemoryInv, NEW r \in Resources, CreateResource(r)
  PROVE  MemoryInv'
<1> USE DEF resourceVars
<1>1. /\ mem' = [mem EXCEPT ![Bo(r)] = "mapped"] /\ exists' = exists \union {r}
      /\ UNCHANGED << alive, queue, ctx_bo, ring, work, lost >>
      /\ mem[Bo(r)] = "none" /\ mem[Ts(r)] = "none"
      /\ Bo(r) \in VidMem /\ Ts(r) \in VidMem /\ Bo(r) \in Objects /\ Ts(r) \in Objects
  BY ObjectFacts DEF CreateResource
<1>2. mem'[Bo(r)] = "mapped" /\ \A o \in Objects : o # Bo(r) => mem'[o] = mem[o]
  BY <1>1 DEF TypeOK
<1>3. Shape(work)' /\ SameWay'
  BY <1>1, StillWork DEF MemoryInv
<1>4. Owners'
  <2>1. ASSUME NEW c \in alive'
        PROVE  mem'[CmdBufs(c)] = "mapped" /\ (HasContext => mem'[ctx_bo'[c]] = "mapped")
    <3>1. /\ CmdBufs(c) # Bo(r) /\ ctx_bo[c] # Bo(r) /\ c \in alive /\ ctx_bo[c] \in Objects
          /\ CmdBufs(c) \in Objects
      BY <1>1, ObjectFacts DEF TypeOK
    <3>2. QED BY <1>1, <1>2, <3>1 DEF Owners, MemoryInv
  <2>2. ASSUME NEW s \in exists' PROVE mem'[Bo(s)] = "mapped" /\ mem'[Ts(s)] \in {"none", "mapped"}
    <3>1. Ts(s) # Bo(r) /\ Bo(s) \in Objects /\ Ts(s) \in Objects /\ s \in Resources
      BY <1>1, Distinct, ObjectFacts DEF TypeOK
    <3>2. CASE s = r
      BY <1>1, <1>2, <3>1, <3>2
    <3>3. CASE s # r
      BY <1>1, <1>2, <3>1, <3>3, Distinct DEF Owners, MemoryInv
    <3>4. QED BY <3>2, <3>3
  <2>3. HasContext => \A c, d \in alive' : ctx_bo'[c] = ctx_bo'[d] => c = d
    BY <1>1 DEF Owners, MemoryInv
  <2>4. QED BY <2>1, <2>2, <2>3 DEF Owners
<1>5. ASSUME NEW o \in Objects PROVE Life(o)'
  <2>1. CASE o # Bo(r) /\ o # Ts(r)
    <3>1. Owned(o)' <=> Owned(o)
      BY <1>1, <2>1 DEF Owned
    <3>2. QED BY <1>1, <1>2, <2>1, <3>1, Unmoved DEF MemoryInv
  <2>2. CASE o = Bo(r) \/ o = Ts(r)
    <3>1. Owned(o)' /\ mem[o] = "none" /\ mem'[o] \in {"none", "mapped"}
      BY <1>1, <1>2, <2>2 DEF Owned
    <3>2. Life(o)
      BY DEF MemoryInv
    <3>3. /\ OnePlace("free", o)' /\ OnePlace("unlock", o)' /\ UnlockFirst(o)'
          /\ Pending("free", o)' <=> Pending("free", o)
          /\ Pending("unlock", o)' <=> Pending("unlock", o)
          /\ Has(work, "sync", o)' <=> Has(work, "sync", o)
      BY <1>1, <3>2 DEF Life, OnePlace, UnlockFirst, Pending, InQueue
    <3>4. ~Pending("free", o) /\ ~Pending("unlock", o) /\ ~Has(work, "sync", o) /\ o \notin lost
      BY <3>1, <3>2 DEF Life, Stage
    <3>5. Stage(o)'
      BY <1>1, <3>1, <3>3, <3>4 DEF Stage
    <3>6. QED BY <3>3, <3>5 DEF Life
  <2>3. QED BY <2>1, <2>2
<1>6. QED BY <1>3, <1>4, <1>5 DEF MemoryInv

\* Calls that delete nothing and move no event.
LEMMA KeptByUse ==
  ASSUME TypeOK, MemoryInv, NEW c \in Contexts, NEW r \in Resources,
         BindBuffer(c, r) \/ BindTexture(c, r) \/ Unbind(c, r) \/ BindSurface(c, r) \/ Draw(c)
  PROVE  MemoryInv'
<1> USE DEF resourceVars
<1>1. UNCHANGED << alive, exists, queue, ctx_bo, ring, work, lost >>
  BY DEF BindBuffer, BindTexture, Unbind, BindSurface, Draw
<1>2. CASE mem' = mem
  <2>1. \A o : Owned(o)' <=> Owned(o)
    BY <1>1 DEF Owned
  <2>2. \A o \in Objects : Life(o)'
    BY <1>1, <1>2, <2>1, Unmoved DEF MemoryInv
  <2>3. Owners'
    BY <1>1, <1>2 DEF MemoryInv, Owners
  <2>4. QED BY <1>1, <2>2, <2>3, StillWork DEF MemoryInv
<1>3. CASE mem' # mem
  <2>1. BindSurface(c, r) /\ mem' = [mem EXCEPT ![Ts(r)] = "mapped"] /\ r \in exists /\ Ts(r) \in VidMem
    <3>1. BindSurface(c, r) /\ mem' # mem
      BY <1>3 DEF BindBuffer, BindTexture, Unbind, Draw
    <3>2. PICK ts \in {mem[Ts(r)], "mapped"} : mem' = [mem EXCEPT ![Ts(r)] = ts]
      BY <3>1 DEF BindSurface
    <3>3. ts = mem[Ts(r)] => mem' = mem
      BY <3>2 DEF TypeOK
    <3>4. QED BY <3>1, <3>2, <3>3, ObjectFacts DEF BindSurface, MayUse
  <2>2. mem'[Ts(r)] = "mapped" /\ \A o \in Objects : o # Ts(r) => mem'[o] = mem[o]
    BY <2>1, ObjectFacts DEF TypeOK
  <2>3. \A o : Owned(o)' <=> Owned(o)
    BY <1>1 DEF Owned
  <2>4. ASSUME NEW o \in Objects PROVE Life(o)'
    <3>1. CASE o # Ts(r)
      BY <1>1, <2>2, <2>3, <3>1, Unmoved DEF MemoryInv
    <3>2. CASE o = Ts(r)
      <4>1. Owned(o) /\ Life(o)
        BY <2>1, <3>2 DEF Owned, MemoryInv
      <4>2. /\ OnePlace("free", o)' /\ OnePlace("unlock", o)' /\ UnlockFirst(o)'
            /\ Pending("free", o)' <=> Pending("free", o)
            /\ Pending("unlock", o)' <=> Pending("unlock", o)
            /\ Has(work, "sync", o)' <=> Has(work, "sync", o)
        BY <1>1, <4>1 DEF Life, OnePlace, UnlockFirst, Pending, InQueue
      <4>3. ~Pending("free", o) /\ ~Pending("unlock", o) /\ o \notin lost
        BY <4>1 DEF Life, Stage
      <4>4. Owned(o)' /\ mem'[o] = "mapped"
        BY <2>2, <2>3, <3>2, <4>1
      <4>5. Stage(o)'
        BY <1>1, <4>2, <4>3, <4>4 DEF Stage
      <4>6. QED BY <4>2, <4>5 DEF Life
    <3>3. QED BY <3>1, <3>2
  <2>5. Owners'
    <3>1. ASSUME NEW d \in alive
          PROVE  mem'[CmdBufs(d)] = "mapped" /\ (HasContext => mem'[ctx_bo[d]] = "mapped")
      <4>1. /\ CmdBufs(d) # Ts(r) /\ ctx_bo[d] # Ts(r) /\ CmdBufs(d) \in Objects /\ ctx_bo[d] \in Objects
        BY <2>1, ObjectFacts DEF TypeOK
      <4>2. QED BY <2>2, <3>1, <4>1 DEF Owners, MemoryInv
    <3>2. ASSUME NEW s \in exists PROVE mem'[Bo(s)] = "mapped" /\ mem'[Ts(s)] \in {"none", "mapped"}
      <4>1. Bo(s) # Ts(r) /\ Bo(s) \in Objects /\ Ts(s) \in Objects
        BY Distinct, ObjectFacts DEF TypeOK
      <4>2. QED BY <2>2, <4>1 DEF Owners, MemoryInv
    <3>3. HasContext => \A d, e \in alive : ctx_bo[d] = ctx_bo[e] => d = e
      BY DEF Owners, MemoryInv
    <3>4. QED BY <1>1, <3>1, <3>2, <3>3 DEF Owners
  <2>6. QED BY <1>1, <2>4, <2>5, StillWork DEF MemoryInv
<1>4. QED BY <1>2, <1>3

\* Nothing happens to an object, whatever happens to others.
LEMMA Untouched ==
  ASSUME NEW o, Life(o),
         \A op \in {"unlock", "free"} :
           /\ Has(ring, op, o)' <=> Has(ring, op, o)
           /\ \A c \in Contexts : Has(queue[c], op, o)' <=> Has(queue[c], op, o),
         \A op \in {"sync", "unlock", "free"} : Has(work, op, o)' <=> Has(work, op, o),
         Sound(ring, o)', \A c \in Contexts : Sound(queue[c], o)',
         mem'[o] = mem[o], Owned(o)' <=> Owned(o), o \in lost' <=> o \in lost
  PROVE  Life(o)'
<1>1. ASSUME NEW op \in {"unlock", "free"}
      PROVE  (OnePlace(op, o)' <=> OnePlace(op, o)) /\ (Pending(op, o)' <=> Pending(op, o))
  BY <1>1, Zenon DEF OnePlace, Pending, InQueue
<1>2. UnlockFirst(o)'
  BY Zenon DEF UnlockFirst, Life
<1>3. Stage(o)'
  <2>1. /\ Pending("free", o)' <=> Pending("free", o)
        /\ Pending("unlock", o)' <=> Pending("unlock", o)
        /\ Has(work, "sync", o)' <=> Has(work, "sync", o)
    BY <1>1
  <2>2. QED BY <2>1, Zenon DEF Life, Stage
<1>4. QED BY <1>1, <1>2, <1>3 DEF Life

\* The steps of one deletion.
LEMMA DelPair ==
  ASSUME NEW o \in VidMem, NEW v, NEW w, w = << Step("sync", o, v), Step("free", o, v) >>
  PROVE  /\ Shape(w)
         /\ \A i \in DOMAIN w : w[i].obj = o
         /\ \A op, p : Has(w, op, p) <=> p = o /\ op \in {"sync", "free"}
<1>1. /\ DOMAIN w = {1, 2} /\ w[1] = Step("sync", o, v) /\ w[2] = Step("free", o, v)
      /\ w[1].op = "sync" /\ w[1].obj = o /\ w[1].via = v
      /\ w[2].op = "free" /\ w[2].obj = o /\ w[2].via = v
  BY DEF Step
<1>2. Shape(w)
  <2>1. 1 + 1 \in DOMAIN w /\ w[1 + 1] = Step("free", w[1].obj, w[1].via)
    BY <1>1
  <2>2. \A i \in DOMAIN w : w[i].op # "unlock" /\ w[i].obj \in VidMem /\ (w[i].op # "free" => i = 1)
    BY <1>1
  <2>3. \A p : Once(w, "free", p)
    BY <1>1 DEF Once, Is
  <2>4. QED BY <2>1, <2>2, <2>3 DEF Shape
<1>3. \A op, p : Has(w, op, p) <=> p = o /\ op \in {"sync", "free"}
  BY <1>1 DEF Has, Is
<1>4. QED BY <1>1, <1>2, <1>3

LEMMA TwoAndTwo ==
  ASSUME NEW S, NEW s \in Seq(S), NEW t \in Seq(S), Len(s) = 2, Len(t) = 2
  PROVE  /\ DOMAIN (s \o t) = {1, 2, 3, 4}
         /\ (s \o t)[1] = s[1] /\ (s \o t)[2] = s[2] /\ (s \o t)[3] = t[1] /\ (s \o t)[4] = t[2]
<1>1. /\ DOMAIN (s \o t) = 1 .. Len(s) + Len(t)
      /\ \A i \in 1 .. Len(s) + Len(t) : (s \o t)[i] = IF i <= Len(s) THEN s[i] ELSE t[i - Len(s)]
  BY ConcatProperties, LenProperties
<1>2. Len(s) + Len(t) = 4 /\ 1 .. 4 = {1, 2, 3, 4}
  OBVIOUS
<1>3. QED BY <1>1, <1>2

LEMMA DelPairs ==
  ASSUME NEW o \in VidMem, NEW q \in VidMem, o # q, NEW v, NEW w, DOMAIN w = {1, 2, 3, 4},
         w[1] = Step("sync", o, v), w[2] = Step("free", o, v),
         w[3] = Step("sync", q, v), w[4] = Step("free", q, v)
  PROVE  /\ Shape(w)
         /\ \A i \in DOMAIN w : w[i].obj \in {o, q}
         /\ \A op, p : Has(w, op, p) <=> p \in {o, q} /\ op \in {"sync", "free"}
<1>1. /\ w[1].op = "sync" /\ w[1].obj = o /\ w[1].via = v
      /\ w[2].op = "free" /\ w[2].obj = o
      /\ w[3].op = "sync" /\ w[3].obj = q /\ w[3].via = v
      /\ w[4].op = "free" /\ w[4].obj = q
  BY DEF Step
<1>2. Shape(w)
  <2>1. /\ 1 + 1 \in DOMAIN w /\ w[1 + 1] = Step("free", w[1].obj, w[1].via)
        /\ 3 + 1 \in DOMAIN w /\ w[3 + 1] = Step("free", w[3].obj, w[3].via)
    BY <1>1
  <2>2. \A i \in DOMAIN w : /\ w[i].op # "unlock" /\ w[i].obj \in VidMem
                            /\ w[i].op # "free" => i = 1 \/ i = 3
    BY <1>1
  <2>3. \A p : Once(w, "free", p)
    BY <1>1 DEF Once, Is
  <2>4. QED BY <2>1, <2>2, <2>3 DEF Shape
<1>3. \A op, p : Has(w, op, p) <=> p \in {o, q} /\ op \in {"sync", "free"}
  BY <1>1 DEF Has, Is
<1>4. \A i \in DOMAIN w : w[i].obj \in {o, q}
  BY <1>1
<1>5. QED BY <1>2, <1>3, <1>4

-----------------------------------------------------------------------------
(* The invariant is kept: a deletion starts. *)

LEMMA KeptByLock ==
  ASSUME TypeOK, MemoryInv, NEW r \in Resources, CreateLockFails(r)
  PROVE  MemoryInv'
<1> USE DEF resourceVars
<1> DEFINE b == Bo(r)
<1>1. /\ mem' = [mem EXCEPT ![b] = "unlocked"] /\ work = << >> /\ mem[b] = "none"
      /\ work' = << Step("free", b, NoContext) >>
      /\ UNCHANGED << exists, alive, queue, ctx_bo, ring, lost >>
      /\ b \in VidMem /\ b \in Objects
  BY ObjectFacts DEF CreateLockFails, Idle
<1> HIDE DEF b
<1>2. mem'[b] = "unlocked" /\ \A o \in Objects : o # b => mem'[o] = mem[o]
  BY <1>1 DEF TypeOK
<1>3. /\ DOMAIN work' = {1} /\ work'[1].op = "free" /\ work'[1].obj = b
  BY <1>1 DEF Step
<1>4. \A op, o : ~Has(work, op, o) /\ (Has(work', op, o) <=> op = "free" /\ o = b)
  BY <1>1, <1>3, EmptyList DEF Has, Is
<1>5. /\ Life(b) /\ ~Pending("free", b) /\ ~Pending("unlock", b) /\ ~Owned(b) /\ b \notin lost
  <2>1. Life(b)
    BY <1>1 DEF MemoryInv
  <2>2. ~Owned(b)
    <3>1. \A s \in exists : b # Bo(s)
      BY <1>1 DEF MemoryInv, Owners
    <3>2. \A s \in exists : b # Ts(s)
      BY Distinct DEF b, TypeOK
    <3>3. \A c \in alive : b # CmdBufs(c) /\ b # ctx_bo[c]
      BY <1>1, ObjectFacts DEF TypeOK
    <3>4. QED BY <3>1, <3>2, <3>3 DEF Owned
  <2>3. QED BY <1>1, <2>1, <2>2 DEF Life, Stage
<1>6. Shape(work)' /\ SameWay'
  <2>1. Shape(work')
    BY <1>1, <1>3 DEF Shape, Once
  <2>2. \A c \in Contexts : ~Has(queue[c], "unlock", b)
    BY <1>5 DEF Pending, InQueue
  <2>3. QED BY <1>1, <1>3, <2>1, <2>2 DEF SameWay
<1>7. \A o : Owned(o)' <=> Owned(o)
  BY <1>1 DEF Owned
<1>8. Owners'
  <2>1. \A c \in alive : CmdBufs(c) # b /\ ctx_bo[c] # b /\ CmdBufs(c) \in Objects /\ ctx_bo[c] \in Objects
    BY <1>1, ObjectFacts DEF TypeOK
  <2>2. \A s \in exists : Bo(s) # b /\ Ts(s) # b /\ Bo(s) \in Objects /\ Ts(s) \in Objects
    BY <1>5, ObjectFacts DEF Owned, TypeOK
  <2>3. QED BY <1>1, <1>2, <2>1, <2>2 DEF Owners, MemoryInv
<1>9. ASSUME NEW o \in Objects PROVE Life(o)'
  <2>1. Life(o)
    BY DEF MemoryInv
  <2>2. CASE o # b
    <3>1. /\ mem'[o] = mem[o] /\ (Owned(o)' <=> Owned(o)) /\ lost' = lost /\ ring' = ring /\ queue' = queue
          /\ \A op : ~Has(work, op, o) /\ ~Has(work', op, o)
      BY <1>1, <1>2, <1>4, <1>7, <2>2
    <3>2. Sound(ring, o)' /\ \A c \in Contexts : Sound(queue[c], o)'
      BY <2>1, <3>1 DEF Life, UnlockFirst
    <3>3. QED BY <2>1, <3>1, <3>2, Untouched
  <2>3. CASE o = b
    <3>1. /\ ~Has(ring', "free", o) /\ ~Has(ring', "unlock", o) /\ Has(work', "free", o)
          /\ ~Has(work', "unlock", o) /\ ~Has(work', "sync", o)
          /\ \A c \in Contexts : ~Has(queue'[c], "free", o) /\ ~Has(queue'[c], "unlock", o)
      BY <1>1, <1>4, <1>5, <2>3 DEF Pending, InQueue
    <3>2. UnlockFirst(o)'
      BY <1>1, <2>1, <3>1 DEF Life, UnlockFirst
    <3>3. OnePlace("free", o)' /\ OnePlace("unlock", o)'
      BY <3>1 DEF OnePlace
    <3>4. Stage(o)'
      <4>1. Pending("free", o)' /\ ~Pending("unlock", o)'
        BY <3>1 DEF Pending, InQueue
      <4>2. mem'[o] = "unlocked" /\ ~Owned(o)' /\ o \notin lost' /\ o \in VidMem
        BY <1>1, <1>2, <1>5, <1>7, <2>3
      <4>3. QED BY <3>1, <4>1, <4>2 DEF Stage
    <3>5. QED BY <3>2, <3>3, <3>4 DEF Life
  <2>4. QED BY <2>2, <2>3
<1>10. QED BY <1>6, <1>8, <1>9 DEF MemoryInv

\* Nothing was on its way for an object that had an owner: its deletion starts.
LEMMA Started ==
  ASSUME NEW o \in VidMem, Life(o), Owned(o), ~Owned(o)', mem[o] = "mapped",
         UNCHANGED << mem, queue, ring, lost >>,
         Has(work', "sync", o), Has(work', "free", o), ~Has(work', "unlock", o)
  PROVE  Life(o)'
<1>1. ~Pending("free", o) /\ ~Pending("unlock", o) /\ o \notin lost
  BY DEF Life, Stage
<1>2. /\ ~Has(ring', "free", o) /\ ~Has(ring', "unlock", o)
      /\ \A c \in Contexts : ~Has(queue'[c], "free", o) /\ ~Has(queue'[c], "unlock", o)
  BY <1>1 DEF Pending, InQueue
<1>3. OnePlace("free", o)' /\ OnePlace("unlock", o)'
  BY <1>2 DEF OnePlace
<1>4. UnlockFirst(o)'
  BY <1>2 DEF Life, UnlockFirst
<1>5. Pending("free", o)' /\ ~Pending("unlock", o)'
  BY <1>2 DEF Pending, InQueue
<1>6. Stage(o)'
  BY <1>1, <1>5 DEF Stage
<1>7. QED BY <1>3, <1>4, <1>6 DEF Life

LEMMA KeptByDestroy ==
  ASSUME TypeOK, MemoryInv, NEW r \in Resources, DestroyResource(r)
  PROVE  MemoryInv'
<1> USE DEF resourceVars
<1> DEFINE b == Bo(r)
           t == Ts(r)
           v == last_ctx[r]
           gone == IF mem[t] = "none" THEN {b} ELSE {b, t}
<1>1. /\ work = << >> /\ r \in exists /\ exists' = exists \ {r}
      /\ work' = DelSteps(b, v) \o DelSteps(t, v)
      /\ UNCHANGED << mem, alive, queue, ctx_bo, ring, lost >>
      /\ b \in VidMem /\ t \in VidMem /\ b \in Objects /\ t \in Objects /\ b # t
      /\ v \in Contexts \union {NoContext}
  BY ObjectFacts, Distinct DEF DestroyResource, Idle, TypeOK
<1>2. mem[b] = "mapped" /\ mem[t] \in {"none", "mapped"}
  BY <1>1 DEF MemoryInv, Owners
<1>3. /\ Shape(work')
      /\ \A i \in DOMAIN work' : work'[i].obj \in gone
      /\ \A op, p : Has(work', op, p) <=> p \in gone /\ op \in {"sync", "free"}
  <2>1. \A o \in Objects : Step("sync", o, v) \in Steps /\ Step("free", o, v) \in Steps
    BY <1>1 DEF Step, Steps
  <2>2. \A o \in Objects : << Step("sync", o, v), Step("free", o, v) >> \in Seq(Steps)
    BY <2>1
  <2>3. CASE mem[t] = "none"
    <3>1. work' = << Step("sync", b, v), Step("free", b, v) >>
      BY <1>1, <1>2, <2>2, <2>3 DEF DelSteps
    <3>2. gone = {b}
      BY <2>3
    <3>3. QED BY <1>1, <3>1, <3>2, DelPair
  <2>4. CASE mem[t] # "none"
    <3>1. work' = << Step("sync", b, v), Step("free", b, v) >> \o << Step("sync", t, v), Step("free", t, v) >>
      BY <1>1, <1>2, <2>4 DEF DelSteps
    <3>2. gone = {b, t}
      BY <2>4
    <3> DEFINE x == << Step("sync", b, v), Step("free", b, v) >>
               y == << Step("sync", t, v), Step("free", t, v) >>
    <3>3. /\ x \in Seq(Steps) /\ x[1] = Step("sync", b, v) /\ x[2] = Step("free", b, v) /\ Len(x) = 2
          /\ y \in Seq(Steps) /\ y[1] = Step("sync", t, v) /\ y[2] = Step("free", t, v) /\ Len(y) = 2
      <4>1. /\ x[1] = Step("sync", b, v) /\ x[2] = Step("free", b, v) /\ Len(x) = 2
            /\ y[1] = Step("sync", t, v) /\ y[2] = Step("free", t, v) /\ Len(y) = 2
        OBVIOUS
      <4>2. x \in Seq(Steps) /\ y \in Seq(Steps)
        BY <1>1, <2>2, Zenon
      <4>3. QED BY <4>1, <4>2
    <3> HIDE DEF x, y
    <3>4. /\ DOMAIN (x \o y) = {1, 2, 3, 4}
          /\ (x \o y)[1] = x[1] /\ (x \o y)[2] = x[2] /\ (x \o y)[3] = y[1] /\ (x \o y)[4] = y[2]
      BY <3>3, TwoAndTwo
    <3>5. /\ DOMAIN work' = {1, 2, 3, 4}
          /\ work'[1] = Step("sync", b, v) /\ work'[2] = Step("free", b, v)
          /\ work'[3] = Step("sync", t, v) /\ work'[4] = Step("free", t, v)
      BY <3>1, <3>3, <3>4 DEF x, y
    <3>6. \A w : /\ DOMAIN w = {1, 2, 3, 4} /\ w[1] = Step("sync", b, v) /\ w[2] = Step("free", b, v)
                  /\ w[3] = Step("sync", t, v) /\ w[4] = Step("free", t, v)
            => /\ Shape(w)
               /\ \A i \in DOMAIN w : w[i].obj \in {b, t}
               /\ \A op, p : Has(w, op, p) <=> p \in {b, t} /\ op \in {"sync", "free"}
      BY <1>1, DelPairs
    <3>7. QED BY <3>2, <3>5, <3>6
  <2>5. QED BY <2>3, <2>4
<1>4. \A op, p : ~Has(work, op, p)
  BY <1>1, EmptyList
<1>5. \A o \in gone : Owned(o) /\ o \in VidMem /\ mem[o] = "mapped"
  BY <1>1, <1>2 DEF Owned
<1>6. \A o : Owned(o)' <=> Owned(o) /\ o # b /\ o # t
  <2>1. \A s \in exists : s # r => b \notin {Bo(s), Ts(s)} /\ t \notin {Bo(s), Ts(s)}
    BY Distinct DEF TypeOK
  <2>2. \A c \in alive : b # CmdBufs(c) /\ b # ctx_bo[c] /\ t # CmdBufs(c) /\ t # ctx_bo[c]
    BY <1>1, ObjectFacts DEF TypeOK
  <2>3. \A o : (\E s \in exists' : o \in {Bo(s), Ts(s)})
               <=> (\E s \in exists : o \in {Bo(s), Ts(s)}) /\ o # b /\ o # t
    BY <1>1, <2>1
  <2>4. QED BY <1>1, <2>2, <2>3 DEF Owned
<1> HIDE DEF b, t, v
<1>7. Shape(work)' /\ SameWay'
  <2>1. \A o \in gone, c \in Contexts : ~Has(queue[c], "unlock", o)
    <3>1. \A o \in gone : ~Pending("unlock", o)
      BY <1>1, <1>5 DEF MemoryInv, Life, Stage
    <3>2. QED BY <3>1 DEF Pending, InQueue
  <2>2. QED BY <1>1, <1>3, <2>1 DEF SameWay
<1>8. Owners'
  BY <1>1 DEF Owners, MemoryInv
<1>9. ASSUME NEW o \in Objects PROVE Life(o)'
  <2>1. Life(o)
    BY DEF MemoryInv
  <2>2. CASE o \in gone
    <3>1. ~Owned(o)'
      BY <1>6, <2>2
    <3>2. Owned(o) /\ o \in VidMem /\ mem[o] = "mapped"
      BY <1>5, <2>2
    <3>3. Has(work', "sync", o) /\ Has(work', "free", o) /\ ~Has(work', "unlock", o)
      BY <1>3, <2>2
    <3>4. QED BY <1>1, <2>1, <3>1, <3>2, <3>3, Started
  <2>3. CASE o \notin gone
    <3>1. \A op : ~Has(work, op, o) /\ ~Has(work', op, o)
      BY <1>3, <1>4, <2>3
    <3>2. Sound(ring, o)' /\ \A c \in Contexts : Sound(queue[c], o)'
      BY <1>1, <2>1 DEF Life, UnlockFirst
    <3>3. CASE o # t
      <4>1. Owned(o)' <=> Owned(o)
        BY <1>6, <2>3, <3>3
      <4>2. QED BY <1>1, <2>1, <3>1, <3>2, <4>1, Untouched
    <3>4. CASE o = t
      <4>1. mem[o] = "none" /\ Owned(o)
        BY <1>1, <1>6, <2>3, <3>4 DEF t, Owned
      <4>2. ~Pending("free", o) /\ ~Pending("unlock", o) /\ o \notin lost
        BY <2>1, <4>1 DEF Life, Stage
      <4>3. /\ OnePlace("free", o)' /\ OnePlace("unlock", o)' /\ UnlockFirst(o)'
        BY <1>1, <2>1, <3>1 DEF Life, OnePlace, UnlockFirst
      <4>4. ~Pending("free", o)' /\ ~Pending("unlock", o)' /\ ~Has(work, "sync", o)'
        BY <1>1, <3>1, <4>2 DEF Pending, InQueue
      <4>5. ~Owned(o)' /\ mem'[o] = "none" /\ o \notin lost'
        BY <1>1, <1>6, <3>4, <4>1, <4>2
      <4>6. Stage(o)'
        BY <4>4, <4>5 DEF Stage
      <4>7. QED BY <4>3, <4>6 DEF Life
    <3>5. QED BY <3>3, <3>4
  <2>4. QED BY <2>2, <2>3
<1>10. QED BY <1>7, <1>8, <1>9 DEF MemoryInv

-----------------------------------------------------------------------------
(* The invariant is kept: flushes. *)

\* A list of events as the ring and the lost see it.
LEMMA QueueObjects ==
  ASSUME TypeOK, NEW c \in Contexts, NEW o
  PROVE  o \in ObjectsOf(queue[c]) <=> Has(queue[c], "free", o) \/ Has(queue[c], "unlock", o)
<1>1. \A i \in DOMAIN queue[c] : queue[c][i].op \in {"unlock", "free"}
  <2>1. \A i \in DOMAIN queue[c] : queue[c][i] \in Events
    BY ElementOfSeq, LenProperties DEF TypeOK
  <2>2. QED BY <2>1 DEF Events
<1>2. QED BY <1>1 DEF ObjectsOf, Has, Is

LEMMA RunIsNoEvent ==
  ASSUME NEW uses, NEW o
  PROVE  /\ \A op \in {"unlock", "free"} : ~Has(<< Run(uses) >>, op, o)
         /\ Sound(<< Run(uses) >>, o)
<1> DEFINE e == Run(uses)
<1>1. e.op = "run"
  BY DEF Run
<1> HIDE DEF e
<1>2. \A op \in {"unlock", "free"} : ~Is(e, op, o)
  BY <1>1 DEF Is
<1>3. Sound(<< e >>, o) /\ \A op : Has(<< e >>, op, o) <=> Is(e, op, o)
  BY OneEvent
<1>4. QED BY <1>2, <1>3 DEF e

\* A queue goes into the ring behind what is there, with a commit or without.
LEMMA RingWithRun ==
  ASSUME TypeOK, NEW c \in Contexts, NEW o, Sound(ring, o)
  PROVE  /\ \A op \in {"unlock", "free"} :
              Has(ring \o << Run(Uses(c)) >>, op, o) <=> Has(ring, op, o)
         /\ Sound(ring \o << Run(Uses(c)) >>, o)
<1> DEFINE r == << Run(Uses(c)) >>
<1>1. ring \in Seq(Items) /\ r \in Seq(Items)
  BY RingTypes
<1>2. Sound(r, o) /\ \A op \in {"unlock", "free"} : ~Has(r, op, o)
  BY RunIsNoEvent
<1> HIDE DEF r
<1>3. \A op : Has(ring \o r, op, o) <=> Has(ring, op, o) \/ Has(r, op, o)
  BY <1>1, HasConcat
<1>4. Sound(ring \o r, o)
  BY <1>1, <1>2, SoundConcat
<1>5. QED BY <1>2, <1>3, <1>4 DEF r

LEMMA RingWithQueue ==
  ASSUME TypeOK, NEW c \in Contexts, NEW o, Life(o), NEW s \in Seq(Items), Sound(s, o),
         \A op \in {"unlock", "free"} : Has(s, op, o) <=> Has(ring, op, o)
  PROVE  /\ \A op \in {"unlock", "free"} :
              Has(s \o queue[c], op, o) <=> Has(ring, op, o) \/ Has(queue[c], op, o)
         /\ Sound(s \o queue[c], o)
<1>1. queue[c] \in Seq(Items) /\ Sound(queue[c], o)
  BY RingTypes DEF Life, UnlockFirst
<1>2. /\ ~(Has(s, "free", o) /\ Has(queue[c], "free", o))
      /\ ~(Has(s, "unlock", o) /\ Has(queue[c], "unlock", o))
      /\ ~(Has(s, "free", o) /\ Has(queue[c], "unlock", o))
  BY DEF Life, OnePlace, UnlockFirst
<1>3. QED BY <1>1, <1>2, HasConcat, SoundConcat

\* An object's events go from a queue to the ring.
LEMMA Sent ==
  ASSUME NEW c \in Contexts, NEW o, Life(o), UNCHANGED work,
         \A op \in {"unlock", "free"} :
           /\ Has(ring, op, o)' <=> Has(ring, op, o) \/ Has(queue[c], op, o)
           /\ ~Has(queue[c], op, o)'
           /\ \A d \in Contexts \ {c} : Has(queue[d], op, o)' <=> Has(queue[d], op, o),
         Sound(ring, o)', \A d \in Contexts : Sound(queue[d], o)'
  PROVE  /\ OnePlace("free", o)' /\ OnePlace("unlock", o)' /\ UnlockFirst(o)'
         /\ Pending("free", o)' <=> Pending("free", o)
         /\ Pending("unlock", o)' <=> Pending("unlock", o)
         /\ Has(work, "sync", o)' <=> Has(work, "sync", o)
<1>1. ASSUME NEW op \in {"unlock", "free"}
      PROVE  OnePlace(op, o)' /\ (Pending(op, o)' <=> Pending(op, o))
  <2>1. OnePlace(op, o)
    BY <1>1 DEF Life
  <2>2. Has(work, op, o)' <=> Has(work, op, o)
    OBVIOUS
  <2>3. \A d \in Contexts : Has(queue[d], op, o)' <=> d # c /\ Has(queue[d], op, o)
    BY <1>1
  <2>4. Has(ring, op, o)' <=> Has(ring, op, o) \/ Has(queue[c], op, o)
    BY <1>1
  <2>5. OnePlace(op, o)'
    BY <2>1, <2>2, <2>3, <2>4, Zenon DEF OnePlace
  <2>6. Pending(op, o)' <=> Pending(op, o)
    BY <2>2, <2>3, <2>4, Zenon DEF Pending, InQueue
  <2>7. QED BY <2>5, <2>6
<1>2. UnlockFirst(o)'
  BY Zenon DEF UnlockFirst, Life
<1>3. QED BY <1>1, <1>2

LEMMA SameStage ==
  ASSUME NEW o, Stage(o), Pending("free", o)' <=> Pending("free", o),
         Pending("unlock", o)' <=> Pending("unlock", o), Has(work, "sync", o)' <=> Has(work, "sync", o),
         mem'[o] = mem[o], Owned(o)' <=> Owned(o), o \in lost' <=> o \in lost
  PROVE  Stage(o)'
  BY Zenon DEF Stage

LEMMA KeptByFlushEvents ==
  ASSUME TypeOK, MemoryInv, NEW c \in Contexts, FlushEvents(c)
  PROVE  MemoryInv'
<1> USE DEF resourceVars
<1>1. /\ ring' = ring \o queue[c] /\ queue' = [queue EXCEPT ![c] = << >>]
      /\ UNCHANGED << mem, exists, alive, ctx_bo, work, lost >>
  BY DEF FlushEvents
<1>2. queue'[c] = << >> /\ \A d \in Contexts : d # c => queue'[d] = queue[d]
  BY <1>1 DEF TypeOK
<1>3. \A o : Owned(o)' <=> Owned(o)
  BY <1>1 DEF Owned
<1>4. Shape(work)' /\ SameWay'
  <2>1. \A o : \A d \in Contexts : Has(queue'[d], "unlock", o) => Has(queue[d], "unlock", o)
    BY <1>2, EmptyList
  <2>2. QED BY <1>1, <2>1 DEF MemoryInv, SameWay
<1>5. Owners'
  BY <1>1 DEF MemoryInv, Owners
<1>6. ASSUME NEW o \in Objects PROVE Life(o)'
  <2>1. Life(o)
    BY DEF MemoryInv
  <2>2. /\ \A op \in {"unlock", "free"} : Has(ring', op, o) <=> Has(ring, op, o) \/ Has(queue[c], op, o)
        /\ Sound(ring', o)
    BY <1>1, <2>1, RingTypes, RingWithQueue DEF Life, UnlockFirst, TypeOK, Items, Runs
  <2>3. \A d \in Contexts : Sound(queue'[d], o)
    BY <1>2, <2>1, EmptyList DEF Life, UnlockFirst
  <2>4. \A op : ~Has(queue'[c], op, o)
    BY <1>2, EmptyList
  <2>5. /\ OnePlace("free", o)' /\ OnePlace("unlock", o)' /\ UnlockFirst(o)'
        /\ Pending("free", o)' <=> Pending("free", o)
        /\ Pending("unlock", o)' <=> Pending("unlock", o)
        /\ Has(work, "sync", o)' <=> Has(work, "sync", o)
    BY <1>1, <1>2, <2>1, <2>2, <2>3, <2>4, Sent
  <2>6. Stage(o)'
    BY <1>1, <1>3, <2>1, <2>5, SameStage DEF Life
  <2>7. QED BY <2>5, <2>6 DEF Life
<1>7. QED BY <1>4, <1>5, <1>6 DEF MemoryInv

\* A context buffer in use goes into the queue, another one takes its place.
LEMMA ClearEffect ==
  ASSUME TypeOK, MemoryInv, NEW c \in alive, ContextClear(c)
  PROVE  /\ \A d \in Contexts : d # c => queue'[d] = queue[d]
         /\ \/ /\ InUse(c)
               /\ queue'[c] = << Free(ctx_bo[c]) >>
               /\ \E b \in CtxBufs :
                    /\ mem[b] = "none" /\ mem'[b] = "mapped"
                    /\ \A o \in Objects : o # b => mem'[o] = mem[o]
                    /\ ctx_bo'[c] = b
                    /\ \A d \in Contexts : d # c => ctx_bo'[d] = ctx_bo[d]
            \/ ~InUse(c) /\ queue'[c] = << >> /\ mem' = mem /\ ctx_bo' = ctx_bo
<1>1. c \in Contexts /\ queue \in [Contexts -> Seq(Events)] /\ ctx_bo \in [Contexts -> CtxBufs]
      /\ mem \in [Objects -> MemStates] /\ CtxBufs \subseteq Objects
  BY ObjectFacts DEF TypeOK
<1>2. CASE InUse(c)
  <2>1. queue' = [queue EXCEPT ![c] = << Free(ctx_bo[c]) >>]
    BY <1>2 DEF ContextClear
  <2>2. PICK b \in CtxBufs : /\ mem[b] = "none" /\ mem' = [mem EXCEPT ![b] = "mapped"]
                             /\ ctx_bo' = [ctx_bo EXCEPT ![c] = b]
    BY <1>2 DEF ContextClear
  <2>3. /\ mem'[b] = "mapped" /\ \A o \in Objects : o # b => mem'[o] = mem[o]
        /\ ctx_bo'[c] = b /\ \A d \in Contexts : d # c => ctx_bo'[d] = ctx_bo[d]
    BY <1>1, <2>2
  <2>4. queue'[c] = << Free(ctx_bo[c]) >> /\ \A d \in Contexts : d # c => queue'[d] = queue[d]
    BY <1>1, <2>1
  <2>5. QED BY <1>2, <2>2, <2>3, <2>4
<1>3. CASE ~InUse(c)
  <2>1. queue' = [queue EXCEPT ![c] = << >>] /\ mem' = mem /\ ctx_bo' = ctx_bo
    BY <1>3 DEF ContextClear
  <2>2. QED BY <1>1, <1>3, <2>1
<1>4. QED BY <1>2, <1>3

LEMMA KeptByFlushCommands ==
  ASSUME TypeOK, MemoryInv, NEW c \in Contexts, FlushCommands(c)
  PROVE  MemoryInv'
<1> USE DEF resourceVars
<1>1. /\ ring' = (ring \o << Run(Uses(c)) >>) \o queue[c] /\ c \in alive /\ ContextClear(c)
      /\ UNCHANGED << exists, alive, work, lost >>
  BY DEF FlushCommands, MayFlush
<1>2. \A d \in Contexts : d # c => queue'[d] = queue[d]
  BY <1>1, ClearEffect
<1>3. ASSUME NEW o \in Objects
      PROVE  /\ \A op \in {"unlock", "free"} : Has(ring', op, o) <=> Has(ring, op, o) \/ Has(queue[c], op, o)
             /\ Sound(ring', o)
  <2> DEFINE s == ring \o << Run(Uses(c)) >>
  <2>1. Life(o) /\ Sound(ring, o)
    BY DEF MemoryInv, Life, UnlockFirst
  <2>2. s \in Seq(Items)
    BY RingTypes
  <2>3. Sound(s, o) /\ \A op \in {"unlock", "free"} : Has(s, op, o) <=> Has(ring, op, o)
    BY <2>1, RingWithRun
  <2> HIDE DEF s
  <2>4. /\ \A op \in {"unlock", "free"} :
             Has(s \o queue[c], op, o) <=> Has(ring, op, o) \/ Has(queue[c], op, o)
        /\ Sound(s \o queue[c], o)
    BY <2>1, <2>2, <2>3, RingWithQueue
  <2>5. QED BY <1>1, <2>4 DEF s
<1>4. ASSUME NEW o \in Objects, \A op : ~Has(queue'[c], op, o), Sound(queue'[c], o)
      PROVE  /\ OnePlace("free", o)' /\ OnePlace("unlock", o)' /\ UnlockFirst(o)'
             /\ Pending("free", o)' <=> Pending("free", o)
             /\ Pending("unlock", o)' <=> Pending("unlock", o)
             /\ Has(work, "sync", o)' <=> Has(work, "sync", o)
  <2>1. Life(o) /\ \A d \in Contexts : Sound(queue'[d], o)
    BY <1>2, <1>4 DEF MemoryInv, Life, UnlockFirst
  <2>2. QED BY <1>1, <1>2, <1>3, <1>4, <2>1, Sent
<1>5. CASE ~InUse(c)
  <2>1. queue'[c] = << >> /\ mem' = mem /\ ctx_bo' = ctx_bo
    BY <1>1, <1>5, ClearEffect
  <2>2. \A o : Owned(o)' <=> Owned(o)
    BY <1>1, <2>1 DEF Owned
  <2>3. ASSUME NEW o \in Objects PROVE Life(o)'
    <3>1. Life(o) /\ Sound(queue'[c], o) /\ \A op : ~Has(queue'[c], op, o)
      BY <2>1, EmptyList DEF MemoryInv
    <3>2. /\ OnePlace("free", o)' /\ OnePlace("unlock", o)' /\ UnlockFirst(o)'
          /\ Pending("free", o)' <=> Pending("free", o)
          /\ Pending("unlock", o)' <=> Pending("unlock", o)
          /\ Has(work, "sync", o)' <=> Has(work, "sync", o)
      BY <1>4, <3>1
    <3>3. Stage(o)'
      BY <1>1, <2>1, <2>2, <3>1, <3>2, SameStage DEF Life
    <3>4. QED BY <3>2, <3>3 DEF Life
  <2>4. Shape(work)' /\ SameWay'
    <3>1. \A o : \A d \in Contexts : Has(queue'[d], "unlock", o) => Has(queue[d], "unlock", o)
      BY <1>2, <2>1, EmptyList
    <3>2. QED BY <1>1, <3>1 DEF MemoryInv, SameWay
  <2>5. Owners'
    BY <1>1, <2>1 DEF MemoryInv, Owners
  <2>6. QED BY <2>3, <2>4, <2>5 DEF MemoryInv
<1>6. CASE InUse(c)
  <2>0. PICK old \in CtxBufs : old = ctx_bo[c]
    BY <1>1 DEF TypeOK
  <2>1. HasContext /\ old \in CtxBufs /\ old \in Objects /\ old \notin VidMem /\ mem[old] = "mapped" /\ Owned(old)
    BY <1>1, <1>6, <2>0, ObjectFacts DEF InUse, TypeOK, MemoryInv, Owners, Owned
  <2>2. PICK b \in CtxBufs : /\ mem[b] = "none" /\ mem'[b] = "mapped"
                             /\ \A o \in Objects : o # b => mem'[o] = mem[o]
                             /\ ctx_bo'[c] = b
                             /\ \A d \in Contexts : d # c => ctx_bo'[d] = ctx_bo[d]
    BY <1>1, <1>6, ClearEffect
  <2>3. queue'[c] = << Free(old) >> /\ b # old /\ b \in Objects /\ b \notin VidMem
    BY <1>1, <1>6, <2>0, <2>1, <2>2, ClearEffect, ObjectFacts
  <2>4. /\ \A op, o : Has(queue'[c], op, o) <=> op = "free" /\ o = old
        /\ \A o : Sound(queue'[c], o)
    <3>1. \A op, o : Is(Free(old), op, o) <=> op = "free" /\ o = old
      BY DEF Is, Free
    <3>2. QED BY <2>3, <3>1, OneEvent
  <2>5. \A d \in alive : d # c => ctx_bo[d] # old /\ ctx_bo[d] # b /\ ctx_bo'[d] = ctx_bo[d] /\ ctx_bo[d] \in CtxBufs
    BY <1>1, <2>0, <2>1, <2>2 DEF MemoryInv, Owners, TypeOK
  <2>6. \A o : o # old /\ o # b => (Owned(o)' <=> Owned(o))
    BY <1>1, <2>0, <2>2, <2>5 DEF Owned
  <2>7. Owned(b)' /\ ~Owned(old)'
    <3>1. ~(\E s \in exists : old \in {Bo(s), Ts(s)}) /\ ~(\E d \in alive : old = CmdBufs(d))
      BY <2>1, ObjectFacts DEF TypeOK
    <3>2. \A d \in alive : ctx_bo'[d] # old
      BY <2>2, <2>3, <2>5
    <3>3. QED BY <1>1, <2>1, <2>2, <3>1, <3>2 DEF Owned
  <2>8. Owners'
    <3>1. ASSUME NEW d \in alive PROVE mem'[CmdBufs(d)] = "mapped" /\ mem'[ctx_bo'[d]] = "mapped"
      <4>1. CmdBufs(d) # b /\ CmdBufs(d) \in Objects /\ mem[CmdBufs(d)] = "mapped"
        BY ObjectFacts DEF TypeOK, MemoryInv, Owners
      <4>2. d # c => mem'[ctx_bo'[d]] = "mapped"
        BY <2>1, <2>2, <2>5, ObjectFacts DEF MemoryInv, Owners
      <4>3. QED BY <2>2, <4>1, <4>2
    <3>2. ASSUME NEW s \in exists PROVE mem'[Bo(s)] = "mapped" /\ mem'[Ts(s)] \in {"none", "mapped"}
      <4>1. Bo(s) # b /\ Ts(s) # b /\ Bo(s) \in Objects /\ Ts(s) \in Objects
        BY <2>3, ObjectFacts DEF TypeOK
      <4>2. QED BY <2>2, <4>1 DEF MemoryInv, Owners
    <3>3. \A d, e \in alive : ctx_bo'[d] = ctx_bo'[e] => d = e
      BY <2>1, <2>2, <2>5 DEF MemoryInv, Owners
    <3>4. QED BY <1>1, <3>1, <3>2, <3>3 DEF Owners
  <2>9. Shape(work)' /\ SameWay'
    <3>1. \A o : \A d \in Contexts : Has(queue'[d], "unlock", o) => Has(queue[d], "unlock", o)
      BY <1>2, <2>4
    <3>2. QED BY <1>1, <3>1 DEF MemoryInv, SameWay
  <2>10. ASSUME NEW o \in Objects PROVE Life(o)'
    <3>1. Life(o)
      BY DEF MemoryInv
    <3>2. CASE o = old
      <4>1. ~Pending("free", o) /\ ~Pending("unlock", o) /\ o \notin lost
        BY <2>1, <3>1, <3>2 DEF Life, Stage
      <4>2. ~Has(work, "sync", o)
        BY <4>1, ShapeFree DEF Pending, MemoryInv
      <4>3. /\ \A op \in {"unlock", "free"} : ~Has(ring', op, o) /\ ~Has(work', op, o)
            /\ \A d \in Contexts : ~Has(queue'[d], "unlock", o) /\ (Has(queue'[d], "free", o) <=> d = c)
        BY <1>1, <1>2, <1>3, <2>4, <3>2, <4>1 DEF Pending, InQueue
      <4>4. OnePlace("free", o)' /\ OnePlace("unlock", o)'
        BY <4>3 DEF OnePlace
      <4>5. UnlockFirst(o)'
        <5>1. \A d \in Contexts : Sound(queue'[d], o)
          BY <1>2, <2>4, <3>1 DEF Life, UnlockFirst
        <5>2. QED BY <1>3, <4>3, <5>1 DEF UnlockFirst
      <4>6. Pending("free", o)' /\ ~Pending("unlock", o)' /\ ~Has(work', "sync", o)
        BY <1>1, <4>2, <4>3 DEF Pending, InQueue
      <4>7. mem'[o] = "mapped" /\ ~Owned(o)' /\ o \notin lost' /\ o \notin VidMem
        BY <1>1, <2>1, <2>2, <2>3, <2>7, <3>2, <4>1
      <4>8. Stage(o)'
        BY <4>6, <4>7 DEF Stage
      <4>9. QED BY <4>4, <4>5, <4>8 DEF Life
    <3>3. CASE o # old
      <4>1. /\ OnePlace("free", o)' /\ OnePlace("unlock", o)' /\ UnlockFirst(o)'
            /\ Pending("free", o)' <=> Pending("free", o)
            /\ Pending("unlock", o)' <=> Pending("unlock", o)
            /\ Has(work, "sync", o)' <=> Has(work, "sync", o)
        BY <1>4, <2>4, <3>3
      <4>2. CASE o # b
        <5>1. Stage(o)'
          BY <1>1, <2>2, <2>6, <3>1, <3>3, <4>1, <4>2, SameStage DEF Life
        <5>2. QED BY <4>1, <5>1 DEF Life
      <4>3. CASE o = b
        <5>1. ~Pending("free", o) /\ ~Pending("unlock", o) /\ o \notin lost
          BY <2>2, <3>1, <4>3 DEF Life, Stage
        <5>2. mem'[o] = "mapped" /\ Owned(o)' /\ o \notin lost'
          BY <1>1, <2>2, <2>7, <4>3, <5>1
        <5>3. Stage(o)'
          BY <4>1, <5>1, <5>2 DEF Stage
        <5>4. QED BY <4>1, <5>3 DEF Life
      <4>4. QED BY <4>2, <4>3
    <3>4. QED BY <3>2, <3>3
  <2>11. QED BY <2>8, <2>9, <2>10 DEF MemoryInv
<1>7. QED BY <1>5, <1>6

\* Events of an object get lost, or none.
LEMMA Dropped ==
  ASSUME NEW o, Life(o), mem'[o] = mem[o], Owned(o)' <=> Owned(o),
         \A op \in {"unlock", "free"} :
           /\ Has(ring, op, o)' => Has(ring, op, o)
           /\ \A c \in Contexts : Has(queue[c], op, o)' => Has(queue[c], op, o),
         \A op \in {"sync", "unlock", "free"} : Has(work, op, o)' => Has(work, op, o),
         Sound(ring, o)', \A c \in Contexts : Sound(queue[c], o)',
         o \in lost => o \in lost',
         o \notin lost' =>
           /\ Pending("free", o) => Pending("free", o)'
           /\ Pending("unlock", o) => Pending("unlock", o)'
           /\ Has(work, "sync", o) => Has(work, "sync", o)',
         o \in lost' /\ o \notin lost =>
           /\ ~Owned(o) /\ mem[o] # "none" /\ ~Has(work, "sync", o)'
           /\ Pending("free", o)' =>
                o \in VidMem /\ mem[o] \in {"mapped", "unlocking"} /\ ~Pending("unlock", o)'
  PROVE  Life(o)'
<1>1. ASSUME NEW op \in {"unlock", "free"}
      PROVE  OnePlace(op, o)' /\ (Pending(op, o)' => Pending(op, o))
  <2>1. OnePlace(op, o)
    BY <1>1 DEF Life
  <2>2. /\ Has(ring, op, o)' => Has(ring, op, o)
        /\ Has(work, op, o)' => Has(work, op, o)
        /\ \A c \in Contexts : Has(queue[c], op, o)' => Has(queue[c], op, o)
    BY <1>1
  <2>3. OnePlace(op, o)'
    BY <2>1, <2>2, Zenon DEF OnePlace
  <2>4. Pending(op, o)' => Pending(op, o)
    BY <2>2, Zenon DEF Pending, InQueue
  <2>5. QED BY <2>3, <2>4
<1>2. UnlockFirst(o)'
  <2>1. UnlockFirst(o)
    BY DEF Life
  <2>2. QED BY <2>1, Zenon DEF UnlockFirst
<1>3. (Pending("free", o)' => Pending("free", o)) /\ (Pending("unlock", o)' => Pending("unlock", o))
      /\ (Has(work, "sync", o)' => Has(work, "sync", o))
  BY <1>1
<1>4. Stage(o)
  BY DEF Life
<1>5. Stage(o)'
  <2>1. CASE o \notin lost'
    <3>1. o \notin lost
      BY <2>1
    <3>2. QED BY <1>3, <1>4, <2>1, <3>1, Zenon DEF Stage
  <2>2. CASE o \in lost
    <3>1. o \in lost'
      BY <2>2
    <3>2. QED BY <1>3, <1>4, <2>2, <3>1, Zenon DEF Stage
  <2>3. CASE o \in lost' /\ o \notin lost
    BY <1>3, <1>4, <2>3, Zenon DEF Stage
  <2>4. QED BY <2>1, <2>2, <2>3
<1>6. QED BY <1>1, <1>2, <1>5 DEF Life

\* A queue is emptied and what was in it is lost, with the step that waited for it.
LEMMA Refused ==
  ASSUME TypeOK, MemoryInv, NEW c \in Contexts, MayFlush(c), AfterRefusal(c),
         UNCHANGED << mem, exists, alive, ctx_bo >>,
         NEW o \in Objects, Sound(ring, o)',
         \A op \in {"unlock", "free"} : Has(ring, op, o)' <=> Has(ring, op, o)
  PROVE  Life(o)'
<1>1. /\ Life(o) /\ OnePlace("free", o) /\ OnePlace("unlock", o) /\ UnlockFirst(o) /\ Stage(o)
      /\ Owned(o)' <=> Owned(o)
  BY DEF MemoryInv, Life, Owned
<1>2. /\ \A op : ~Has(queue'[c], op, o)
      /\ \A d \in Contexts : Sound(queue'[d], o)
      /\ \A d \in Contexts : d # c => queue'[d] = queue[d]
  <2>1. queue'[c] = << >> /\ \A d \in Contexts : d # c => queue'[d] = queue[d]
    BY DEF AfterRefusal, TypeOK
  <2>2. QED BY <1>1, <2>1, EmptyList DEF UnlockFirst
<1>3. o \in ObjectsOf(queue[c]) <=> Has(queue[c], "free", o) \/ Has(queue[c], "unlock", o)
  BY QueueObjects
<1>4. Has(queue[c], "free", o) \/ Has(queue[c], "unlock", o) => ~Owned(o) /\ mem[o] # "none"
  BY <1>1 DEF Stage, Pending, InQueue
<1>5. CASE Idle
  <2>1. work = << >> /\ work' = << >> /\ (o \in lost' <=> o \in lost \/ o \in ObjectsOf(queue[c]))
    BY <1>5 DEF AfterRefusal, Idle
  <2>2. \A op : ~Has(work, op, o) /\ ~Has(work', op, o)
    BY <2>1, EmptyList
  <2>3. o \in ObjectsOf(queue[c]) => ~Pending("free", o)'
    BY <1>1, <1>2, <1>3, <2>2 DEF Pending, InQueue, OnePlace, UnlockFirst
  <2>4. o \notin ObjectsOf(queue[c]) =>
          /\ Pending("free", o) => Pending("free", o)'
          /\ Pending("unlock", o) => Pending("unlock", o)'
    BY <1>2, <1>3, <2>2 DEF Pending, InQueue
  <2>5. QED BY <1>1, <1>2, <1>3, <1>4, <2>1, <2>2, <2>3, <2>4, Dropped
<1>6. CASE ~Idle
  <2> DEFINE h == Head(work)
  <2>1. /\ work # << >> /\ h.op \in {"unlock", "free"} /\ work' = Tail(work)
        /\ o \in lost' <=> o \in lost \/ o \in ObjectsOf(queue[c]) \/ o = h.obj
    BY <1>6 DEF MayFlush, MustMakeRoom, NextStep, AfterRefusal, Idle
  <2>2. /\ \A op : Has(work, op, o) <=> Is(h, op, o) \/ Has(work', op, o)
        /\ Once(work, "free", o) /\ Is(h, "free", o) => ~Has(work', "free", o)
    BY <2>1, HasTail DEF TypeOK
  <2>3. /\ Once(work, "free", o) /\ ~Has(work', "unlock", o) /\ ~Has(work', "sync", h.obj)
        /\ h.op # "free" => Has(work, "free", h.obj)
        /\ h.obj \in VidMem
        /\ Has(work', "sync", o) => Has(work', "free", o)
    BY <2>1, ShapeHead, ShapeFree DEF TypeOK, MemoryInv, Shape
  <2>4. Is(h, h.op, h.obj) /\ \A op : Is(h, op, o) => op = h.op /\ o = h.obj
    BY DEF Is
  <2> HIDE DEF h
  <2>5. o \in lost' /\ o \notin lost =>
          /\ ~Owned(o) /\ mem[o] # "none" /\ ~Has(work', "sync", o)
          /\ Pending("free", o)' =>
               o \in VidMem /\ mem[o] \in {"mapped", "unlocking"} /\ ~Pending("unlock", o)'
    <3>1. CASE o = h.obj
      <4>1. CASE h.op = "free"
        <5>1. Has(work, "free", o) /\ ~Has(work', "free", o)
          BY <2>2, <2>3, <2>4, <3>1, <4>1
        <5>2. ~Pending("free", o)'
          BY <1>1, <1>2, <5>1 DEF OnePlace, Pending, InQueue
        <5>3. ~Owned(o) /\ mem[o] # "none"
          BY <1>1, <5>1 DEF Stage, Pending
        <5>4. QED BY <2>3, <3>1, <5>2, <5>3
      <4>2. CASE h.op = "unlock"
        <5>1. Has(work, "unlock", o)
          BY <2>2, <2>4, <3>1, <4>2
        <5>2. ~Pending("unlock", o)'
          BY <1>1, <1>2, <2>3, <5>1 DEF OnePlace, Pending, InQueue
        <5>3. ~Owned(o) /\ mem[o] = "unlocking" /\ o \in VidMem
          BY <1>1, <5>1 DEF Stage, Pending
        <5>4. QED BY <2>3, <3>1, <5>2, <5>3
      <4>3. QED BY <2>1, <4>1, <4>2
    <3>2. CASE o # h.obj /\ o \in ObjectsOf(queue[c])
      <4>1. CASE Has(queue[c], "free", o)
        <5>1. ~Has(work, "free", o)
          BY <1>1, <4>1 DEF OnePlace
        <5>2. ~Pending("free", o)'
          BY <1>1, <1>2, <2>2, <4>1, <5>1 DEF OnePlace, Pending, InQueue
        <5>3. ~Has(work', "sync", o)
          BY <2>2, <2>3, <5>1
        <5>4. QED BY <1>4, <4>1, <5>2, <5>3
      <4>2. CASE Has(queue[c], "unlock", o)
        <5>1. ~Pending("unlock", o)'
          BY <1>1, <1>2, <2>3, <4>2 DEF OnePlace, Pending, InQueue
        <5>2. mem[o] = "unlocking" /\ o \in VidMem
          BY <1>1, <4>2 DEF Stage, Pending, InQueue
        <5>3. ~Has(work', "sync", o)
          BY <1>1, <2>2, <5>2 DEF Stage
        <5>4. QED BY <1>4, <4>2, <5>1, <5>2, <5>3
      <4>3. QED BY <1>3, <3>2, <4>1, <4>2
    <3>3. QED BY <2>1, <3>1, <3>2
  <2>6. o \notin lost' =>
          /\ Pending("free", o) => Pending("free", o)'
          /\ Pending("unlock", o) => Pending("unlock", o)'
          /\ Has(work, "sync", o) => Has(work', "sync", o)
    <3>1. SUFFICES ASSUME o \notin lost' PROVE
            /\ Pending("free", o) => Pending("free", o)'
            /\ Pending("unlock", o) => Pending("unlock", o)'
            /\ Has(work, "sync", o) => Has(work', "sync", o)
      OBVIOUS
    <3>2. \A op : Has(work, op, o) => Has(work', op, o)
      BY <2>1, <2>2, <2>4, <3>1
    <3>3. ~Has(queue[c], "free", o) /\ ~Has(queue[c], "unlock", o)
      BY <1>3, <2>1, <3>1
    <3>4. QED BY <1>2, <3>2, <3>3 DEF Pending, InQueue
  <2>7. /\ \A op : Has(work', op, o) => Has(work, op, o)
        /\ o \in lost => o \in lost'
        /\ \A op : \A d \in Contexts : Has(queue'[d], op, o) => Has(queue[d], op, o)
    BY <1>2, <2>1, <2>2
  <2>8. QED BY <1>1, <1>2, <2>5, <2>6, <2>7, Dropped
<1>7. QED BY <1>5, <1>6

\* The steps that are left are sound when the first is gone.
LEMMA TailWork ==
  ASSUME TypeOK, MemoryInv, work # << >>, work' = Tail(work),
         \A o : \A c \in Contexts : Has(queue'[c], "unlock", o) => Has(queue[c], "unlock", o)
  PROVE  Shape(work)' /\ SameWay'
<1>1. work \in Seq(Steps) /\ Shape(work) /\ SameWay
  BY DEF TypeOK, MemoryInv
<1>2. Shape(work')
  BY <1>1, ShapeHead
<1>3. \A i \in DOMAIN work' : i + 1 \in DOMAIN work /\ work'[i] = work[i + 1]
  BY <1>1, Rest
<1>4. ASSUME NEW i \in DOMAIN work', NEW c \in Contexts, Has(queue'[c], "unlock", work'[i].obj)
      PROVE  work'[i].via = c
  <2>1. i + 1 \in DOMAIN work /\ work'[i] = work[i + 1]
    BY <1>3, <1>4
  <2>2. Has(queue[c], "unlock", work[i + 1].obj)
    BY <1>4, <2>1
  <2>3. QED BY <1>1, <2>1, <2>2 DEF SameWay
<1>5. SameWay'
  BY <1>4 DEF SameWay
<1>6. QED BY <1>2, <1>5

LEMMA KeptByRefusal ==
  ASSUME TypeOK, MemoryInv, NEW c \in Contexts, FlushRefused(c) \/ FlushHalfway(c)
  PROVE  MemoryInv'
<1> USE DEF resourceVars
<1>1. MayFlush(c) /\ AfterRefusal(c) /\ UNCHANGED << mem, exists, alive, ctx_bo >>
  BY DEF FlushRefused, FlushHalfway
<1>2. ASSUME NEW o \in Objects PROVE Life(o)'
  <2>1. Sound(ring, o)
    BY DEF MemoryInv, Life, UnlockFirst
  <2>2. ring' = ring \/ ring' = ring \o << Run(Uses(c)) >>
    <3>1. Append(ring, Run(Uses(c))) = ring \o << Run(Uses(c)) >>
      BY AppendProperties DEF TypeOK
    <3>2. QED BY <3>1 DEF FlushRefused, FlushHalfway
  <2>3. Sound(ring', o) /\ \A op \in {"unlock", "free"} : Has(ring', op, o) <=> Has(ring, op, o)
    BY <2>1, <2>2, RingWithRun
  <2>4. QED BY <1>1, <2>3, Refused
<1>3. Shape(work)' /\ SameWay'
  <2>1. \A o : \A d \in Contexts : Has(queue'[d], "unlock", o) => Has(queue[d], "unlock", o)
    <3>1. queue'[c] = << >> /\ \A d \in Contexts : d # c => queue'[d] = queue[d]
      BY <1>1 DEF AfterRefusal, TypeOK
    <3>2. QED BY <3>1, EmptyList
  <2>2. CASE Idle
    BY <1>1, <2>1, <2>2 DEF AfterRefusal, MemoryInv, SameWay
  <2>3. CASE ~Idle
    <3>1. work # << >> /\ work' = Tail(work)
      BY <1>1, <2>3 DEF AfterRefusal, Idle
    <3>2. QED BY <2>1, <3>1, TailWork
  <2>4. QED BY <2>2, <2>3
<1>4. Owners'
  BY <1>1 DEF MemoryInv, Owners
<1>5. QED BY <1>2, <1>3, <1>4 DEF MemoryInv

-----------------------------------------------------------------------------
(* The invariant is kept: the steps of a deletion. *)

LEMMA WorkHead ==
  ASSUME TypeOK, MemoryInv, work # << >>
  PROVE  /\ work \in Seq(Steps) /\ Shape(work)
         /\ Head(work).obj \in VidMem /\ Head(work).obj \in Objects
         /\ Has(work, Head(work).op, Head(work).obj) /\ Has(work, "free", Head(work).obj)
         /\ \A op, o : Has(work, op, o) <=> (op = Head(work).op /\ o = Head(work).obj) \/ Has(Tail(work), op, o)
         /\ \A o : ~Has(Tail(work), "unlock", o)
         /\ ~Has(Tail(work), "sync", Head(work).obj)
         /\ Head(work).op # "free" => Has(Tail(work), "free", Head(work).obj)
         /\ Head(work).op = "free" => /\ ~Has(Tail(work), "free", Head(work).obj)
                                      /\ ~Has(work, "sync", Head(work).obj)
                                      /\ ~Has(work, "unlock", Head(work).obj)
         /\ \A c \in Contexts : Has(queue[c], "unlock", Head(work).obj) => Head(work).via = c
         /\ Life(Head(work).obj)
<1> DEFINE h == Head(work)
<1>1. work \in Seq(Steps) /\ Shape(work) /\ h = work[1] /\ 1 \in DOMAIN work
  BY Rest DEF TypeOK, MemoryInv
<1>2. h.obj \in VidMem /\ h.obj \in Objects
  BY <1>1, ObjectFacts DEF Shape
<1>3. \A op, o : Is(h, op, o) <=> op = h.op /\ o = h.obj
  BY DEF Is
<1>4. \A op, o : Has(work, op, o) <=> (op = h.op /\ o = h.obj) \/ Has(Tail(work), op, o)
  BY <1>1, <1>3, HasTail
<1>5. /\ \A o : ~Has(Tail(work), "unlock", o)
      /\ ~Has(Tail(work), "sync", h.obj)
      /\ h.op # "free" => Has(Tail(work), "free", h.obj)
      /\ h.op = "free" => ~Has(work, "sync", h.obj) /\ ~Has(work, "unlock", h.obj)
  BY <1>1, ShapeHead
<1>6. h.op = "free" => ~Has(Tail(work), "free", h.obj)
  <2>1. Once(work, "free", h.obj)
    BY <1>1, <1>2 DEF Shape
  <2>2. QED BY <1>1, <1>3, <2>1, HasTail
<1>7. \A c \in Contexts : Has(queue[c], "unlock", h.obj) => h.via = c
  BY <1>1 DEF SameWay, MemoryInv
<1>8. QED BY <1>1, <1>2, <1>4, <1>5, <1>6, <1>7 DEF MemoryInv

LEMMA KeptByUnlockFailure ==
  ASSUME TypeOK, MemoryInv, SyncUnlockFails
  PROVE  MemoryInv'
<1> USE DEF resourceVars
<1> DEFINE h == Head(work)
<1>1. /\ work # << >> /\ h.op = "sync" /\ work' = Tail(work) /\ lost' = lost \union {h.obj}
      /\ UNCHANGED << mem, exists, alive, queue, ctx_bo, ring >>
  BY DEF SyncUnlockFails, NextStep
<1>2. Shape(work)' /\ SameWay'
  BY <1>1, TailWork
<1>3. Owners'
  BY <1>1 DEF MemoryInv, Owners
<1>4. ASSUME NEW o \in Objects PROVE Life(o)'
  <2>1. Life(o) /\ Stage(o) /\ (Owned(o)' <=> Owned(o))
    BY <1>1 DEF MemoryInv, Life, Owned
  <2>2. Sound(ring, o)' /\ \A c \in Contexts : Sound(queue[c], o)'
    BY <1>1, <2>1 DEF Life, UnlockFirst
  <2>3. /\ \A op : Has(work, op, o) <=> (op = "sync" /\ o = h.obj) \/ Has(work', op, o)
        /\ ~Has(work', "sync", h.obj) /\ h.obj \in VidMem
    BY <1>1, WorkHead
  <2>4. o = h.obj => ~Owned(o) /\ mem[o] = "mapped" /\ ~Pending("unlock", o)'
    <3>1. SUFFICES ASSUME o = h.obj PROVE ~Owned(o) /\ mem[o] = "mapped" /\ ~Pending("unlock", o)'
      OBVIOUS
    <3>2. Has(work, "sync", o) /\ Has(work, "free", o)
      BY <1>1, <2>3, <3>1, ShapeFree DEF MemoryInv
    <3>3. mem[o] = "mapped" /\ ~Owned(o) /\ ~Pending("unlock", o)
      BY <2>1, <3>2 DEF Stage, Pending
    <3>4. QED BY <1>1, <2>3, <3>3 DEF Pending, InQueue
  <2>5. o # h.obj => \A op : Has(work', op, o) <=> Has(work, op, o)
    BY <2>3
  <2>6. o \notin lost' => /\ Pending("free", o) => Pending("free", o)'
                          /\ Pending("unlock", o) => Pending("unlock", o)'
                          /\ Has(work, "sync", o) => Has(work', "sync", o)
    BY <1>1, <2>5 DEF Pending, InQueue
  <2> HIDE DEF h
  <2>7. /\ o \in lost => o \in lost'
        /\ o \in lost' /\ o \notin lost => o = h.obj
        /\ \A op : Has(work', op, o) => Has(work, op, o)
    BY <1>1, <2>3 DEF h
  <2>8. QED BY <1>1, <2>1, <2>2, <2>3, <2>4, <2>6, <2>7, Dropped
<1>5. QED BY <1>2, <1>3, <1>4 DEF MemoryInv

LEMMA KeptByDirectFailure ==
  ASSUME TypeOK, MemoryInv, DirectStepFails
  PROVE  MemoryInv'
<1> USE DEF resourceVars
<1> DEFINE h == Head(work)
<1>1. /\ work # << >> /\ h.op \in {"unlock", "free"} /\ work' = Tail(work) /\ lost' = lost \union {h.obj}
      /\ UNCHANGED << mem, exists, alive, queue, ctx_bo, ring >>
  BY DEF DirectStepFails, NextStep
<1>2. Shape(work)' /\ SameWay'
  BY <1>1, TailWork
<1>3. Owners'
  BY <1>1 DEF MemoryInv, Owners
<1>4. ASSUME NEW o \in Objects PROVE Life(o)'
  <2>1. Life(o) /\ Stage(o) /\ OnePlace("free", o) /\ OnePlace("unlock", o) /\ (Owned(o)' <=> Owned(o))
    BY <1>1 DEF MemoryInv, Life, Owned
  <2>2. Sound(ring, o)' /\ \A c \in Contexts : Sound(queue[c], o)'
    BY <1>1, <2>1 DEF Life, UnlockFirst
  <2>3. /\ \A op : Has(work, op, o) <=> (op = h.op /\ o = h.obj) \/ Has(work', op, o)
        /\ ~Has(work', "sync", h.obj) /\ h.obj \in VidMem /\ ~Has(work', "unlock", o)
        /\ h.op = "free" => ~Has(work', "free", h.obj)
    BY <1>1, WorkHead
  <2>4. o = h.obj =>
          /\ ~Owned(o) /\ mem[o] # "none"
          /\ Pending("free", o)' => mem[o] \in {"mapped", "unlocking"} /\ ~Pending("unlock", o)'
    <3>1. SUFFICES ASSUME o = h.obj
                   PROVE  /\ ~Owned(o) /\ mem[o] # "none"
                          /\ Pending("free", o)' => mem[o] = "unlocking" /\ ~Pending("unlock", o)'
      OBVIOUS
    <3>2. Has(work, h.op, o)
      BY <2>3, <3>1
    <3>3. ~Owned(o) /\ mem[o] # "none"
      BY <1>1, <2>1, <3>2 DEF Stage, Pending
    <3>4. CASE h.op = "free"
      <4>1. ~Pending("free", o)'
        BY <1>1, <2>1, <2>3, <3>1, <3>2, <3>4 DEF OnePlace, Pending, InQueue
      <4>2. QED BY <3>3, <4>1
    <3>5. CASE h.op = "unlock"
      <4>1. mem[o] = "unlocking"
        BY <2>1, <3>2, <3>5 DEF Stage, Pending
      <4>2. ~Pending("unlock", o)'
        BY <1>1, <2>1, <2>3, <3>2, <3>5 DEF OnePlace, Pending, InQueue
      <4>3. QED BY <3>3, <4>1, <4>2
    <3>6. QED BY <1>1, <3>4, <3>5
  <2>5. o # h.obj => \A op : Has(work', op, o) <=> Has(work, op, o)
    BY <2>3
  <2>6. o \notin lost' => /\ Pending("free", o) => Pending("free", o)'
                          /\ Pending("unlock", o) => Pending("unlock", o)'
                          /\ Has(work, "sync", o) => Has(work', "sync", o)
    BY <1>1, <2>5 DEF Pending, InQueue
  <2> HIDE DEF h
  <2>7. /\ o \in lost => o \in lost'
        /\ o \in lost' /\ o \notin lost => o = h.obj
        /\ \A op : Has(work', op, o) => Has(work, op, o)
    BY <1>1, <2>3 DEF h
  <2>8. QED BY <1>1, <2>1, <2>2, <2>3, <2>4, <2>6, <2>7, Dropped
<1>5. QED BY <1>2, <1>3, <1>4 DEF MemoryInv

LEMMA KeptByQueueStep ==
  ASSUME TypeOK, MemoryInv, QueueStep
  PROVE  MemoryInv'
<1> USE DEF resourceVars
<1>1. PICK h \in Steps : /\ h = Head(work) /\ work # << >> /\ h.op \in {"unlock", "free"}
                         /\ h.via # NoContext /\ h.via \in Contexts
  BY HeadType DEF QueueStep, NextStep
<1>2. PICK v \in Contexts : v = h.via
  BY <1>1
<1>3. PICK e \in Events : e = EventOf(h) /\ e.op = h.op /\ e.obj = h.obj
  BY <1>1, HeadType, EventTypes DEF EventOf
<1>4. /\ queue' = [queue EXCEPT ![v] = Append(@, e)] /\ work' = Tail(work)
      /\ UNCHANGED << mem, exists, alive, ctx_bo, ring, lost >>
  BY <1>1, <1>2, <1>3 DEF QueueStep
<1>5. /\ queue'[v] = queue[v] \o << e >> /\ queue[v] \in Seq(Events) /\ << e >> \in Seq(Events)
      /\ \A d \in Contexts : d # v => queue'[d] = queue[d]
  <2>1. queue[v] \in Seq(Events) /\ << e >> \in Seq(Events)
    BY <1>3, EventTypes DEF TypeOK
  <2>2. Append(queue[v], e) = queue[v] \o << e >>
    BY <2>1, AppendProperties
  <2>3. QED BY <1>4, <2>1, <2>2 DEF TypeOK
<1>6. /\ \A op, o : Has(queue'[v], op, o) <=> Has(queue[v], op, o) \/ (op = h.op /\ o = h.obj)
      /\ \A o : Sound(<< e >>, o)
      /\ \A op, o : Has(<< e >>, op, o) <=> op = h.op /\ o = h.obj
  <2>1. \A op, o : Has(<< e >>, op, o) <=> op = h.op /\ o = h.obj
    BY <1>3, OneEvent DEF Is
  <2>2. \A o : Sound(<< e >>, o)
    BY OneEvent
  <2>3. \A op, o : Has(queue[v] \o << e >>, op, o) <=> Has(queue[v], op, o) \/ Has(<< e >>, op, o)
    BY <1>5, HasConcat
  <2>4. QED BY <1>5, <2>1, <2>2, <2>3
<1>7. /\ h.obj \in VidMem /\ h.obj \in Objects
      /\ Has(work, h.op, h.obj) /\ Has(work, "free", h.obj)
      /\ \A op, o : Has(work, op, o) <=> (op = h.op /\ o = h.obj) \/ Has(work', op, o)
      /\ \A o : ~Has(work', "unlock", o)
      /\ ~Has(work', "sync", h.obj)
      /\ h.op = "free" => ~Has(work', "free", h.obj)
      /\ h.op # "free" => Has(work', "free", h.obj)
      /\ \A c \in Contexts : Has(queue[c], "unlock", h.obj) => v = c
      /\ Life(h.obj)
  BY <1>1, <1>2, <1>4, WorkHead
<1>8. Shape(work)' /\ SameWay'
  <2>1. work \in Seq(Steps) /\ Shape(work) /\ SameWay
    BY DEF TypeOK, MemoryInv
  <2>2. Shape(work')
    BY <1>1, <1>4, <2>1, ShapeHead
  <2>3. ASSUME NEW i \in DOMAIN work', NEW c \in Contexts, Has(queue'[c], "unlock", work'[i].obj)
        PROVE  work'[i].via = c
    <3>1. i + 1 \in DOMAIN work /\ work'[i] = work[i + 1]
      BY <1>1, <1>4, <2>1, <2>3, Rest
    <3>2. CASE Has(queue[c], "unlock", work'[i].obj)
      <4>1. Has(queue[c], "unlock", work[i + 1].obj)
        BY <3>1, <3>2
      <4>2. QED BY <2>1, <3>1, <4>1 DEF SameWay
    <3>3. CASE ~Has(queue[c], "unlock", work'[i].obj)
      <4>1. c = v /\ h.op = "unlock" /\ work'[i].obj = h.obj
        BY <1>5, <1>6, <2>3, <3>3
      <4>2. Tail(work)[i].via = Head(work).via
        BY <1>1, <1>4, <2>1, <2>3, <4>1, ShapeHead
      <4>3. QED BY <1>1, <1>2, <1>4, <4>1, <4>2
    <3>4. QED BY <3>2, <3>3
  <2>4. SameWay'
    BY <2>3 DEF SameWay
  <2>5. QED BY <2>2, <2>4
<1>9. Owners'
  BY <1>4 DEF MemoryInv, Owners
<1>10. \A o : Owned(o)' <=> Owned(o)
  BY <1>4 DEF Owned
<1>11. ASSUME NEW o \in Objects PROVE Life(o)'
  <2>1. Life(o) /\ OnePlace("free", o) /\ OnePlace("unlock", o) /\ UnlockFirst(o) /\ Stage(o)
    BY DEF MemoryInv, Life
  <2>2. Sound(queue'[v], o)
    <3>1. /\ ~(Has(queue[v], "free", o) /\ Has(<< e >>, "free", o))
          /\ ~(Has(queue[v], "unlock", o) /\ Has(<< e >>, "unlock", o))
          /\ ~(Has(queue[v], "free", o) /\ Has(<< e >>, "unlock", o))
      BY <1>6, <1>7, <2>1 DEF OnePlace
    <3>2. Sound(queue[v], o) /\ Sound(<< e >>, o)
      BY <1>6, <2>1 DEF UnlockFirst
    <3>3. QED BY <1>5, <3>1, <3>2, SoundConcat
  <2>3. Sound(ring, o)' /\ \A d \in Contexts : Sound(queue'[d], o)
    BY <1>4, <1>5, <2>1, <2>2 DEF UnlockFirst
  <2>4. CASE o # h.obj
    <3>1. /\ \A op : \A d \in Contexts : Has(queue'[d], op, o) <=> Has(queue[d], op, o)
          /\ \A op : Has(work', op, o) <=> Has(work, op, o)
      BY <1>5, <1>6, <1>7, <2>4
    <3>2. QED BY <1>4, <1>10, <2>1, <2>3, <3>1, Untouched
  <2>5. CASE o = h.obj
    <3>1. ASSUME NEW op \in {"unlock", "free"}
          PROVE  OnePlace(op, o)' /\ (Pending(op, o)' <=> Pending(op, o))
      <4>1. OnePlace(op, o)
        BY <2>1, <3>1
      <4>2. CASE op = h.op
        <5>1. /\ Has(work, op, o) /\ ~Has(work', op, o)
              /\ \A d \in Contexts : Has(queue'[d], op, o) <=> d = v
              /\ ~Has(ring', op, o)
          BY <1>4, <1>5, <1>6, <1>7, <2>5, <3>1, <4>1, <4>2 DEF OnePlace
        <5>2. QED BY <5>1 DEF OnePlace, Pending, InQueue
      <4>3. CASE op # h.op
        <5>1. /\ \A d \in Contexts : Has(queue'[d], op, o) <=> Has(queue[d], op, o)
              /\ Has(work', op, o) <=> Has(work, op, o)
              /\ Has(ring', op, o) <=> Has(ring, op, o)
          BY <1>4, <1>5, <1>6, <1>7, <4>3
        <5>2. QED BY <4>1, <5>1, Zenon DEF OnePlace, Pending, InQueue
      <4>4. QED BY <4>2, <4>3
    <3>2. UnlockFirst(o)'
      <4>1. ~Has(ring, "free", o) /\ \A d \in Contexts : ~Has(queue[d], "free", o)
        BY <1>7, <2>1, <2>5 DEF OnePlace
      <4>2. ~Has(ring', "free", o) /\ \A d \in Contexts : Has(queue'[d], "free", o) => d = v
        BY <1>4, <1>5, <1>6, <4>1
      <4>3. \A d \in Contexts : Has(queue'[d], "unlock", o) => d = v
        BY <1>5, <1>7, <2>5
      <4>4. QED BY <2>3, <4>2, <4>3 DEF UnlockFirst
    <3>3. Has(work, "sync", o) <=> Has(work', "sync", o)
      BY <1>1, <1>7, <2>5
    <3>4. Stage(o)'
      BY <1>4, <1>10, <2>1, <3>1, <3>3, SameStage
    <3>5. QED BY <3>1, <3>2, <3>4 DEF Life
  <2>6. QED BY <2>4, <2>5
<1>12. QED BY <1>8, <1>9, <1>11 DEF MemoryInv

LEMMA KeptByDirectStep ==
  ASSUME TypeOK, MemoryInv, DirectStep
  PROVE  MemoryInv'
<1> USE DEF resourceVars
<1>1. PICK h \in Steps : /\ h = Head(work) /\ work # << >> /\ h.op \in {"unlock", "free"}
                         /\ h.via = NoContext
  BY HeadType DEF DirectStep, NextStep
<1>2. PICK e \in Items : e = EventOf(h) /\ e.op = h.op /\ e.obj = h.obj
  BY <1>1, HeadType, EventTypes DEF EventOf
<1>3. /\ ring' = Append(ring, e) /\ work' = Tail(work)
      /\ UNCHANGED << mem, exists, alive, ctx_bo, queue, lost >>
  BY <1>1, <1>2 DEF DirectStep
<1>4. ring' = ring \o << e >> /\ ring \in Seq(Items) /\ << e >> \in Seq(Items)
  <2>1. ring \in Seq(Items)
    BY DEF TypeOK, Items, Runs
  <2>2. Append(ring, e) = ring \o << e >>
    BY <1>2, <2>1, AppendProperties
  <2>3. QED BY <1>2, <1>3, <2>1, <2>2
<1>5. /\ \A op, o : Has(ring', op, o) <=> Has(ring, op, o) \/ (op = h.op /\ o = h.obj)
      /\ \A o : Sound(<< e >>, o)
      /\ \A op, o : Has(<< e >>, op, o) <=> op = h.op /\ o = h.obj
  <2>1. \A op, o : Has(<< e >>, op, o) <=> op = h.op /\ o = h.obj
    BY <1>2, OneEvent DEF Is
  <2>2. \A o : Sound(<< e >>, o)
    BY OneEvent
  <2>3. \A op, o : Has(ring \o << e >>, op, o) <=> Has(ring, op, o) \/ Has(<< e >>, op, o)
    BY <1>4, HasConcat
  <2>4. QED BY <1>4, <2>1, <2>2, <2>3
<1>6. /\ h.obj \in VidMem /\ h.obj \in Objects
      /\ Has(work, h.op, h.obj) /\ Has(work, "free", h.obj)
      /\ \A op, o : Has(work, op, o) <=> (op = h.op /\ o = h.obj) \/ Has(work', op, o)
      /\ \A o : ~Has(work', "unlock", o)
      /\ ~Has(work', "sync", h.obj)
      /\ h.op = "free" => ~Has(work', "free", h.obj)
      /\ h.op # "free" => Has(work', "free", h.obj)
      /\ \A c \in Contexts : ~Has(queue[c], "unlock", h.obj)
  BY <1>1, <1>3, WorkHead, NamesAssumption
<1>7. Shape(work)' /\ SameWay'
  BY <1>1, <1>3, TailWork
<1>8. Owners'
  BY <1>3 DEF MemoryInv, Owners
<1>9. \A o : Owned(o)' <=> Owned(o)
  BY <1>3 DEF Owned
<1>10. ASSUME NEW o \in Objects PROVE Life(o)'
  <2>1. Life(o) /\ OnePlace("free", o) /\ OnePlace("unlock", o) /\ UnlockFirst(o) /\ Stage(o)
    BY DEF MemoryInv, Life
  <2>2. Sound(ring', o)
    <3>1. /\ ~(Has(ring, "free", o) /\ Has(<< e >>, "free", o))
          /\ ~(Has(ring, "unlock", o) /\ Has(<< e >>, "unlock", o))
          /\ ~(Has(ring, "free", o) /\ Has(<< e >>, "unlock", o))
      BY <1>5, <1>6, <2>1 DEF OnePlace
    <3>2. Sound(ring, o) /\ Sound(<< e >>, o)
      BY <1>5, <2>1 DEF UnlockFirst
    <3>3. QED BY <1>4, <3>1, <3>2, SoundConcat
  <2>3. \A d \in Contexts : Sound(queue'[d], o)
    BY <1>3, <2>1 DEF UnlockFirst
  <2>4. CASE o # h.obj
    <3>1. /\ \A op : Has(ring', op, o) <=> Has(ring, op, o)
          /\ \A op : Has(work', op, o) <=> Has(work, op, o)
      BY <1>5, <1>6, <2>4
    <3>2. QED BY <1>3, <1>9, <2>1, <2>2, <2>3, <3>1, Untouched
  <2>5. CASE o = h.obj
    <3>1. ASSUME NEW op \in {"unlock", "free"}
          PROVE  OnePlace(op, o)' /\ (Pending(op, o)' <=> Pending(op, o))
      <4>1. OnePlace(op, o)
        BY <2>1, <3>1
      <4>2. CASE op = h.op
        <5>1. /\ Has(work, op, o) /\ ~Has(work', op, o) /\ Has(ring', op, o)
              /\ \A d \in Contexts : ~Has(queue'[d], op, o)
          BY <1>3, <1>5, <1>6, <2>5, <3>1, <4>1, <4>2 DEF OnePlace
        <5>2. QED BY <5>1 DEF OnePlace, Pending, InQueue
      <4>3. CASE op # h.op
        <5>1. /\ \A d \in Contexts : Has(queue'[d], op, o) <=> Has(queue[d], op, o)
              /\ Has(work', op, o) <=> Has(work, op, o)
              /\ Has(ring', op, o) <=> Has(ring, op, o)
          BY <1>3, <1>5, <1>6, <4>3
        <5>2. QED BY <4>1, <5>1, Zenon DEF OnePlace, Pending, InQueue
      <4>4. QED BY <4>2, <4>3
    <3>2. UnlockFirst(o)'
      <4>1. \A d \in Contexts : ~Has(queue'[d], "unlock", o)
        BY <1>3, <1>6, <2>5
      <4>2. QED BY <2>2, <2>3, <4>1 DEF UnlockFirst
    <3>3. Has(work, "sync", o) <=> Has(work', "sync", o)
      BY <1>1, <1>6, <2>5
    <3>4. Stage(o)'
      BY <1>3, <1>9, <2>1, <3>1, <3>3, SameStage
    <3>5. QED BY <3>1, <3>2, <3>4 DEF Life
  <2>6. QED BY <2>4, <2>5
<1>11. QED BY <1>7, <1>8, <1>10 DEF MemoryInv

\* The first of the steps that are left is replaced.
LEMMA ReplacedHead ==
  ASSUME NEW w \in Seq(Steps), w # << >>, Shape(w), Head(w).op = "sync",
         NEW e \in Steps, e = Step("unlock", Head(w).obj, Head(w).via),
         NEW u, u = << e >> \o Tail(w)
  PROVE  /\ Shape(u)
         /\ \A op, o : Has(u, op, o) <=> (op = "unlock" /\ o = Head(w).obj) \/ Has(Tail(w), op, o)
         /\ \A i \in DOMAIN u : i \in DOMAIN w /\ u[i].obj = w[i].obj /\ u[i].via = w[i].via
<1>1. e.op = "unlock" /\ e.obj = Head(w).obj /\ e.via = Head(w).via
  BY DEF Step
<1>2. << e >> \in Seq(Steps) /\ Tail(w) \in Seq(Steps) /\ DOMAIN << e >> = {1} /\ << e >>[1] = e /\ Len(<< e >>) = 1
  BY Rest
<1>3. /\ \A i \in DOMAIN << e >> : i \in DOMAIN u /\ u[i] = << e >>[i]
      /\ \A j \in DOMAIN Tail(w) : 1 + j \in DOMAIN u /\ u[1 + j] = Tail(w)[j]
      /\ \A k \in DOMAIN u : k = 1 \/ \E j \in DOMAIN Tail(w) : k = 1 + j
  <2> DEFINE s == << e >>
             t == Tail(w)
  <2>1. s \in Seq(Steps) /\ t \in Seq(Steps) /\ DOMAIN s = {1} /\ Len(s) = 1 /\ u = s \o t
    BY <1>2
  <2> HIDE DEF s, t
  <2>2. /\ \A i \in DOMAIN s : i \in DOMAIN u /\ u[i] = s[i]
        /\ \A j \in DOMAIN t : 1 + j \in DOMAIN u /\ u[1 + j] = t[j]
        /\ \A k \in DOMAIN u : k \in DOMAIN s \/ \E j \in DOMAIN t : k = 1 + j
    <3>1. s \in Seq(Steps) /\ t \in Seq(Steps)
      BY <2>1
    <3>2. /\ \A i \in DOMAIN s : i \in DOMAIN (s \o t) /\ (s \o t)[i] = s[i]
          /\ \A j \in DOMAIN t : Len(s) + j \in DOMAIN (s \o t) /\ (s \o t)[Len(s) + j] = t[j]
          /\ \A k \in DOMAIN (s \o t) : k \in DOMAIN s \/ \E j \in DOMAIN t : k = Len(s) + j
      BY <3>1, Places
    <3>3. QED BY <2>1, <3>2
  <2>3. QED BY <2>1, <2>2 DEF s, t
<1>4. /\ Head(w) = w[1] /\ 1 \in DOMAIN w
      /\ \A i \in DOMAIN Tail(w) : i \in Nat /\ i > 0 /\ i + 1 \in DOMAIN w /\ Tail(w)[i] = w[i + 1]
      /\ \A i \in DOMAIN w : i # 1 => i - 1 \in DOMAIN Tail(w) /\ Tail(w)[i - 1] = w[i]
      /\ DOMAIN w = 1 .. Len(w) /\ Len(w) \in Nat
  BY Rest
<1>5. 1 \in DOMAIN u /\ u[1] = e
  BY <1>2, <1>3
<1>6. \A i \in DOMAIN w : i # 1 => i \in DOMAIN u /\ u[i] = w[i]
  <2>1. SUFFICES ASSUME NEW i \in DOMAIN w, i # 1 PROVE i \in DOMAIN u /\ u[i] = w[i]
    OBVIOUS
  <2>2. i - 1 \in DOMAIN Tail(w) /\ Tail(w)[i - 1] = w[i] /\ 1 + (i - 1) = i
    BY <1>4, <2>1
  <2>3. QED BY <1>3, <2>2
<1>7. \A i \in DOMAIN u : i \in DOMAIN w /\ (i # 1 => u[i] = w[i])
  <2>1. SUFFICES ASSUME NEW i \in DOMAIN u, i # 1 PROVE i \in DOMAIN w
    BY <1>4, <1>6
  <2>2. PICK j \in DOMAIN Tail(w) : i = 1 + j
    BY <1>3, <2>1
  <2>3. j + 1 \in DOMAIN w /\ j + 1 = i
    BY <1>4, <2>2
  <2>4. QED BY <2>3
<1>8. \A i \in DOMAIN u : i \in DOMAIN w /\ u[i].obj = w[i].obj /\ u[i].via = w[i].via
  BY <1>1, <1>4, <1>5, <1>7
<1>9. Shape(u)
  <2>1. ASSUME NEW i \in DOMAIN u
        PROVE  /\ u[i].obj \in VidMem
               /\ u[i].op # "free" => i + 1 \in DOMAIN u /\ u[i + 1] = Step("free", u[i].obj, u[i].via)
               /\ u[i].op = "unlock" => i = 1
    <3>1. i \in DOMAIN w /\ u[i].obj = w[i].obj /\ u[i].via = w[i].via /\ i \in Nat /\ i > 0
      BY <1>4, <1>8, <2>1
    <3>2. u[i].op # "free" => w[i].op # "free"
      BY <1>4, <1>7, <3>1
    <3>3. w[i].op # "free" => i + 1 \in DOMAIN w /\ w[i + 1] = Step("free", w[i].obj, w[i].via)
      BY <3>1 DEF Shape
    <3>4. i + 1 # 1
      BY <3>1
    <3>5. u[i].op = "unlock" => i = 1
      BY <1>7, <3>1 DEF Shape
    <3>6. u[i].obj \in VidMem
      BY <3>1 DEF Shape
    <3>7. QED BY <1>6, <3>1, <3>2, <3>3, <3>4, <3>5, <3>6
  <2>2. ASSUME NEW o \in Objects PROVE Once(u, "free", o)
    <3>1. \A i \in DOMAIN u : Is(u[i], "free", o) => i \in DOMAIN w /\ Is(w[i], "free", o)
      BY <1>1, <1>5, <1>7 DEF Is
    <3>2. QED BY <3>1 DEF Once, Shape
  <2>3. QED BY <2>1, <2>2 DEF Shape
<1>10. \A op, o : Has(u, op, o) <=> (op = "unlock" /\ o = Head(w).obj) \/ Has(Tail(w), op, o)
  <2>1. \A op, o : Has(<< e >>, op, o) <=> op = "unlock" /\ o = Head(w).obj
    BY <1>1, OneEvent DEF Is
  <2>2. \A op, o : Has(<< e >> \o Tail(w), op, o) <=> Has(<< e >>, op, o) \/ Has(Tail(w), op, o)
    BY <1>2, HasConcat
  <2>3. QED BY <2>1, <2>2
<1>11. QED BY <1>8, <1>9, <1>10

LEMMA KeptByUnlock ==
  ASSUME TypeOK, MemoryInv, SyncUnlock
  PROVE  MemoryInv'
<1> USE DEF resourceVars
<1>1. PICK h \in Steps : h = Head(work) /\ work # << >> /\ h.op = "sync" /\ h.obj \in Objects
  BY HeadType DEF SyncUnlock, NextStep
<1>2. UNCHANGED << exists, alive, ctx_bo, queue, ring, lost >>
  BY DEF SyncUnlock
<1>3. PICK m \in {"unlocked", "unlocking"} :
        /\ mem' = [mem EXCEPT ![h.obj] = m]
        /\ work' = IF m = "unlocked" THEN Tail(work)
                   ELSE << Step("unlock", h.obj, h.via) >> \o Tail(work)
  BY <1>1 DEF SyncUnlock
<1>4. mem'[h.obj] = m /\ \A o \in Objects : o # h.obj => mem'[o] = mem[o]
  BY <1>1, <1>3 DEF TypeOK
<1>5. /\ work \in Seq(Steps) /\ Shape(work) /\ SameWay
      /\ h.obj \in VidMem
      /\ \A op, o : Has(work, op, o) <=> (op = "sync" /\ o = h.obj) \/ Has(Tail(work), op, o)
      /\ \A o : ~Has(Tail(work), "unlock", o)
      /\ ~Has(Tail(work), "sync", h.obj) /\ Has(Tail(work), "free", h.obj)
  BY <1>1, WorkHead DEF MemoryInv
<1>6. /\ Shape(work)' /\ SameWay'
      /\ \A op, o : Has(work', op, o) <=>
           (m = "unlocking" /\ op = "unlock" /\ o = h.obj) \/ Has(Tail(work), op, o)
  <2>1. CASE m = "unlocked"
    <3>1. work' = Tail(work)
      BY <1>3, <2>1
    <3>2. QED BY <1>1, <1>2, <2>1, <3>1, TailWork
  <2>2. CASE m = "unlocking"
    <3>1. PICK e \in Steps : e = Step("unlock", h.obj, h.via)
      BY <1>1, HeadType DEF Step, Steps
    <3>2. work' = << e >> \o Tail(work)
      BY <1>3, <2>2, <3>1
    <3>3. /\ Shape(work')
          /\ \A op, o : Has(work', op, o) <=> (op = "unlock" /\ o = h.obj) \/ Has(Tail(work), op, o)
          /\ \A i \in DOMAIN work' : i \in DOMAIN work /\ work'[i].obj = work[i].obj /\ work'[i].via = work[i].via
      <4>1. /\ work \in Seq(Steps) /\ work # << >> /\ Shape(work) /\ Head(work).op = "sync"
            /\ e = Step("unlock", Head(work).obj, Head(work).via)
        BY <1>1, <1>5, <3>1
      <4>2. \A u : u = << e >> \o Tail(work) =>
              /\ Shape(u)
              /\ \A op, o : Has(u, op, o) <=> (op = "unlock" /\ o = Head(work).obj) \/ Has(Tail(work), op, o)
              /\ \A i \in DOMAIN u : i \in DOMAIN work /\ u[i].obj = work[i].obj /\ u[i].via = work[i].via
        BY <4>1, ReplacedHead
      <4>3. QED BY <1>1, <3>2, <4>2
    <3>4. SameWay'
      BY <1>2, <1>5, <3>3 DEF SameWay
    <3>5. QED BY <2>2, <3>3, <3>4
  <2>3. QED BY <2>1, <2>2
<1>7. \A o : Owned(o)' <=> Owned(o)
  BY <1>2 DEF Owned
<1>8. /\ mem[h.obj] = "mapped" /\ h.obj \notin lost /\ ~Owned(h.obj) /\ Has(work, "free", h.obj)
      /\ ~Pending("unlock", h.obj) /\ Life(h.obj)
  <2>1. Life(h.obj) /\ Has(work, "sync", h.obj) /\ Has(work, "free", h.obj)
    BY <1>1, <1>5 DEF MemoryInv
  <2>2. QED BY <2>1 DEF Life, Stage, Pending
<1>9. Owners'
  <2>1. \A c \in alive : CmdBufs(c) # h.obj /\ ctx_bo[c] # h.obj /\ CmdBufs(c) \in Objects /\ ctx_bo[c] \in Objects
    BY <1>5, ObjectFacts DEF TypeOK
  <2>2. \A s \in exists : Bo(s) # h.obj /\ Ts(s) # h.obj /\ Bo(s) \in Objects /\ Ts(s) \in Objects
    BY <1>8, ObjectFacts DEF Owned, TypeOK
  <2>3. QED BY <1>2, <1>4, <2>1, <2>2 DEF Owners, MemoryInv
<1>10. ASSUME NEW o \in Objects PROVE Life(o)'
  <2>1. Life(o) /\ OnePlace("free", o) /\ OnePlace("unlock", o) /\ UnlockFirst(o) /\ Stage(o)
    BY DEF MemoryInv, Life
  <2>2. Sound(ring, o)' /\ \A d \in Contexts : Sound(queue[d], o)'
    BY <1>2, <2>1 DEF UnlockFirst
  <2>3. CASE o # h.obj
    <3>1. \A op : Has(work', op, o) <=> Has(work, op, o)
      BY <1>5, <1>6, <2>3
    <3>2. QED BY <1>2, <1>4, <1>7, <2>1, <2>2, <2>3, <3>1, Untouched
  <2>4. CASE o = h.obj
    <3>1. /\ Has(work', "free", o) /\ Has(work, "free", o) /\ ~Has(work', "sync", o)
          /\ Has(work', "unlock", o) <=> m = "unlocking"
      BY <1>5, <1>6, <1>8, <2>4
    <3>2. /\ ~Has(ring, "unlock", o) /\ ~Has(ring, "free", o)
          /\ \A d \in Contexts : ~Has(queue[d], "unlock", o) /\ ~Has(queue[d], "free", o)
      BY <1>8, <2>1, <2>4, <3>1 DEF Pending, InQueue, OnePlace
    <3>3. OnePlace("free", o)' /\ OnePlace("unlock", o)'
      BY <1>2, <3>2 DEF OnePlace
    <3>4. UnlockFirst(o)'
      BY <1>2, <2>2, <3>2 DEF UnlockFirst
    <3>5. Pending("free", o)' /\ (Pending("unlock", o)' <=> m = "unlocking")
      BY <1>2, <3>1, <3>2 DEF Pending, InQueue
    <3>6. mem'[o] = m /\ ~Owned(o)' /\ o \notin lost' /\ o \in VidMem
      BY <1>2, <1>4, <1>5, <1>7, <1>8, <2>4
    <3>7. Stage(o)'
      BY <3>1, <3>5, <3>6 DEF Stage
    <3>8. QED BY <3>3, <3>4, <3>7 DEF Life
  <2>5. QED BY <2>3, <2>4
<1>11. QED BY <1>6, <1>9, <1>10 DEF MemoryInv

-----------------------------------------------------------------------------
(* The invariant is kept: the GPU, and the end of a context. *)

LEMMA RingTail ==
  ASSUME TypeOK, MemoryInv, ring # << >>, ring' = Tail(ring)
  PROVE  /\ ring \in Seq(Items) /\ Head(ring) \in Items
         /\ Head(ring).op # "run" => Head(ring).op \in {"unlock", "free"} /\ Head(ring).obj \in Objects
         /\ \A op, o : Has(ring, op, o) <=> Is(Head(ring), op, o) \/ Has(ring', op, o)
         /\ \A o \in Objects : Sound(ring', o)
         /\ \A o \in Objects, op \in {"unlock", "free"} :
              Is(Head(ring), op, o) => ~Has(ring', op, o)
         /\ \A o \in Objects : Is(Head(ring), "free", o) => ~Has(ring, "unlock", o)
<1>1. ring \in Seq(Items)
  BY DEF TypeOK, Items, Runs
<1>2. Head(ring) \in Items
  BY <1>1, Rest
<1>3. Head(ring).op # "run" => Head(ring).op \in {"unlock", "free"} /\ Head(ring).obj \in Objects
  BY <1>2 DEF Items, Events, Runs
<1>4. \A op, o : Has(ring, op, o) <=> Is(Head(ring), op, o) \/ Has(ring', op, o)
  BY <1>1, HasTail
<1>5. ASSUME NEW o \in Objects
      PROVE  /\ Sound(ring', o)
             /\ \A op \in {"unlock", "free"} : Is(Head(ring), op, o) => ~Has(ring', op, o)
             /\ Is(Head(ring), "free", o) => ~Has(ring, "unlock", o)
  <2>1. Sound(ring, o)
    BY DEF MemoryInv, Life, UnlockFirst
  <2>2. Once(ring, "free", o) /\ Once(ring, "unlock", o)
    BY <2>1 DEF Sound
  <2>3. Sound(ring', o) /\ (Is(Head(ring), "free", o) => ~Has(ring, "unlock", o))
    BY <1>1, <2>1, SoundTail
  <2>4. \A op : Once(ring, op, o) /\ Is(Head(ring), op, o) => ~Has(ring', op, o)
    BY <1>1, HasTail
  <2>5. QED BY <2>2, <2>3, <2>4
<1>6. QED BY <1>1, <1>2, <1>3, <1>4, <1>5

LEMMA KeptByGpu ==
  ASSUME TypeOK, MemoryInv, GpuExecute
  PROVE  MemoryInv'
<1> USE DEF resourceVars
<1>1. /\ ring # << >> /\ ring' = Tail(ring)
      /\ UNCHANGED << exists, alive, ctx_bo, queue, work, lost >>
  BY DEF GpuExecute
<1>2. PICK e \in Items : e = Head(ring)
  BY <1>1, RingTail
<1>3. /\ e.op # "run" => e.op \in {"unlock", "free"} /\ e.obj \in Objects
      /\ \A op, o : Has(ring, op, o) <=> Is(e, op, o) \/ Has(ring', op, o)
      /\ \A o \in Objects : Sound(ring', o)
      /\ \A o \in Objects, op \in {"unlock", "free"} : Is(e, op, o) => ~Has(ring', op, o)
      /\ \A o \in Objects : Is(e, "free", o) => ~Has(ring, "unlock", o)
  BY <1>1, <1>2, RingTail
<1>4. mem' = IF e.op = "run" THEN mem ELSE [mem EXCEPT ![e.obj] = AfterEvent(e)]
  BY <1>2 DEF GpuExecute
<1>5. Shape(work)' /\ SameWay'
  BY <1>1, StillWork DEF MemoryInv
<1>6. \A o : Owned(o)' <=> Owned(o)
  BY <1>1 DEF Owned
<1>7. ASSUME NEW o \in Objects, e.op = "run" \/ o # e.obj
      PROVE  Life(o)' /\ mem'[o] = mem[o]
  <2>1. \A op \in {"unlock", "free"} : ~Is(e, op, o)
    BY <1>7 DEF Is
  <2>2. \A op \in {"unlock", "free"} : Has(ring', op, o) <=> Has(ring, op, o)
    BY <1>3, <2>1
  <2>3. mem'[o] = mem[o]
    BY <1>3, <1>4, <1>7 DEF TypeOK
  <2>4. Life(o)
    BY DEF MemoryInv
  <2>5. Sound(ring', o) /\ \A c \in Contexts : Sound(queue'[c], o)
    BY <1>1, <1>3, <2>4 DEF Life, UnlockFirst
  <2>6. Life(o)'
    BY <1>1, <1>6, <2>2, <2>3, <2>4, <2>5, Untouched
  <2>7. QED BY <2>3, <2>6
<1>8. ASSUME e.op # "run" PROVE Life(e.obj)' /\ ~Owned(e.obj)
  <2>1. PICK o \in Objects : o = e.obj
    BY <1>3, <1>8
  <2>2. Life(o) /\ OnePlace("free", o) /\ OnePlace("unlock", o) /\ UnlockFirst(o) /\ Stage(o)
    BY DEF MemoryInv, Life
  <2>3. mem'[o] = AfterEvent(e)
    BY <1>4, <1>8, <2>1 DEF TypeOK
  <2>4. Sound(ring', o) /\ \A c \in Contexts : Sound(queue'[c], o)
    BY <1>1, <1>3, <2>2 DEF UnlockFirst
  <2>5. e.op \in {"unlock", "free"} /\ Is(e, e.op, o) /\ Has(ring, e.op, o) /\ ~Has(ring', e.op, o)
    BY <1>3, <1>8, <2>1 DEF Is
  <2>6. ASSUME NEW op \in {"unlock", "free"}
        PROVE  /\ OnePlace(op, o)'
               /\ op # e.op => (Pending(op, o)' <=> Pending(op, o))
               /\ op = e.op => ~Pending(op, o)'
    <3>1. OnePlace(op, o)
      BY <2>2, <2>6
    <3>2. Has(ring', op, o) => Has(ring, op, o)
      BY <1>3
    <3>3. OnePlace(op, o)'
      BY <1>1, <3>1, <3>2, Zenon DEF OnePlace
    <3>4. op # e.op => (Has(ring', op, o) <=> Has(ring, op, o))
      BY <1>3 DEF Is
    <3>5. op # e.op => (Pending(op, o)' <=> Pending(op, o))
      BY <1>1, <3>4, Zenon DEF Pending, InQueue
    <3>6. op = e.op => ~Pending(op, o)'
      BY <1>1, <2>5, <3>1 DEF Pending, InQueue, OnePlace
    <3>7. QED BY <3>3, <3>5, <3>6
  <2>7. UnlockFirst(o)'
    <3>1. Has(ring', "free", o) => Has(ring, "free", o)
      BY <1>3
    <3>2. QED BY <1>1, <2>2, <2>4, <3>1 DEF UnlockFirst
  <2>8. ~Owned(o)
    BY <2>2, <2>5 DEF Stage, Pending
  <2>9. CASE e.op = "unlock"
    <3>1. mem[o] = "unlocking" /\ o \in VidMem /\ Pending("unlock", o)
      BY <2>2, <2>5, <2>9 DEF Stage, Pending
    <3>2. mem'[o] = "unlocked"
      BY <2>1, <2>3, <2>9, <3>1 DEF AfterEvent
    <3>3. ~Pending("unlock", o)' /\ (Pending("free", o)' <=> Pending("free", o))
      BY <2>6, <2>9
    <3>4. ~Has(work', "sync", o)
      BY <1>1, <2>2, <3>1 DEF Stage
    <3>5. o \in lost => ~Pending("free", o)
      BY <2>2, <3>1 DEF Stage
    <3>6. ~Owned(o)' /\ (o \in lost' <=> o \in lost)
      BY <1>1, <1>6, <2>8
    <3>7. o \notin lost => Pending("free", o)
      BY <2>2, <2>8, <3>1 DEF Stage
    <3>8. Stage(o)'
      BY <3>2, <3>3, <3>4, <3>5, <3>6, <3>7 DEF Stage
    <3>9. QED BY <2>1, <2>6, <2>7, <2>8, <3>8 DEF Life
  <2>10. CASE e.op = "free"
    <3>1. Pending("free", o) /\ Has(ring, "free", o) /\ ~Has(ring, "unlock", o)
      BY <1>3, <2>5, <2>10 DEF Pending
    <3>2. ~Pending("unlock", o) /\ ~Has(work, "sync", o)
      <4>1. \A c \in Contexts : ~Has(queue[c], "unlock", o)
        BY <2>2, <3>1 DEF UnlockFirst
      <4>2. ~Has(work, "free", o)
        BY <2>2, <3>1 DEF OnePlace
      <4>3. ~Has(work, "unlock", o) /\ ~Has(work, "sync", o)
        BY <4>2, ShapeFree DEF MemoryInv
      <4>4. QED BY <3>1, <4>1, <4>3 DEF Pending, InQueue
    <3>3. ~Pending("free", o)' /\ ~Pending("unlock", o)' /\ ~Has(work', "sync", o)
      BY <1>1, <2>6, <2>10, <3>2
    <3>4. ~Owned(o)' /\ (o \in lost' <=> o \in lost)
      BY <1>1, <1>6, <2>8
    <3>5. CASE o \in lost
      <4>1. o \in VidMem /\ mem[o] \in {"mapped", "unlocking"}
        BY <2>2, <3>1, <3>5 DEF Stage
      <4>2. mem'[o] = mem[o]
        BY <2>1, <2>3, <2>10, <4>1, ObjectFacts DEF AfterEvent
      <4>3. Stage(o)'
        BY <3>3, <3>4, <3>5, <4>1, <4>2 DEF Stage
      <4>4. QED BY <2>1, <2>6, <2>7, <2>8, <4>3 DEF Life
    <3>6. CASE o \notin lost
      <4>1. o \in Contiguous \/ mem[o] = "unlocked"
        BY <2>2, <3>1, <3>2, <3>6, ObjectFacts DEF Stage
      <4>2. mem'[o] = "none"
        BY <2>1, <2>3, <2>10, <4>1 DEF AfterEvent
      <4>3. Stage(o)'
        BY <3>3, <3>4, <3>6, <4>2 DEF Stage
      <4>4. QED BY <2>1, <2>6, <2>7, <2>8, <4>3 DEF Life
    <3>7. QED BY <3>5, <3>6
  <2>11. QED BY <2>5, <2>9, <2>10
<1>9. \A o \in Objects : Life(o)'
  BY <1>7, <1>8
<1>10. Owners'
  <2>1. ASSUME NEW o \in Objects, Owned(o) PROVE mem'[o] = mem[o]
    BY <1>7, <1>8, <2>1
  <2>2. \A c \in alive : CmdBufs(c) \in Objects /\ ctx_bo[c] \in Objects /\ Owned(CmdBufs(c))
                         /\ (HasContext => Owned(ctx_bo[c]))
    BY ObjectFacts DEF TypeOK, Owned
  <2>3. \A s \in exists : Bo(s) \in Objects /\ Ts(s) \in Objects /\ Owned(Bo(s)) /\ Owned(Ts(s))
    BY ObjectFacts DEF TypeOK, Owned
  <2>4. QED BY <1>1, <2>1, <2>2, <2>3 DEF Owners, MemoryInv
<1>11. QED BY <1>5, <1>9, <1>10 DEF MemoryInv

LEMMA KeptByDestroyContext ==
  ASSUME TypeOK, MemoryInv, NEW c \in Contexts, DestroyContext(c)
  PROVE  MemoryInv'
<1> USE DEF resourceVars
<1>1. /\ c \in alive /\ work = << >> /\ alive' = alive \ {c}
      /\ mem' = [o \in Objects |->
                   IF o = CmdBufs(c) \/ (HasContext /\ o = ctx_bo[c]) THEN "none" ELSE mem[o]]
      /\ lost' = lost \union ObjectsOf(queue[c])
      /\ queue' = [queue EXCEPT ![c] = << >>]
      /\ UNCHANGED << exists, ctx_bo, ring, work >>
  BY DEF DestroyContext, Idle
<1>2. queue'[c] = << >> /\ \A d \in Contexts : d # c => queue'[d] = queue[d]
  BY <1>1 DEF TypeOK
<1>3. Shape(work)' /\ SameWay'
  BY <1>1 DEF MemoryInv, SameWay
<1>4. Owners'
  <2>1. ASSUME NEW d \in alive'
        PROVE  mem'[CmdBufs(d)] = "mapped" /\ (HasContext => mem'[ctx_bo[d]] = "mapped")
    <3>1. d \in alive /\ d # c /\ d \in Contexts /\ CmdBufs(d) \in Objects /\ ctx_bo[d] \in Objects
      BY <1>1, ObjectFacts DEF TypeOK
    <3>2. CmdBufs(d) # CmdBufs(c) /\ CmdBufs(d) # ctx_bo[c] /\ ctx_bo[d] # CmdBufs(c)
      BY <3>1, Distinct, ObjectFacts DEF TypeOK
    <3>3. HasContext => ctx_bo[d] # ctx_bo[c]
      BY <1>1, <3>1 DEF MemoryInv, Owners
    <3>4. QED BY <1>1, <3>1, <3>2, <3>3 DEF MemoryInv, Owners
  <2>2. ASSUME NEW s \in exists PROVE mem'[Bo(s)] = "mapped" /\ mem'[Ts(s)] \in {"none", "mapped"}
    <3>1. /\ Bo(s) \in Objects /\ Ts(s) \in Objects /\ Bo(s) # CmdBufs(c) /\ Ts(s) # CmdBufs(c)
          /\ Bo(s) # ctx_bo[c] /\ Ts(s) # ctx_bo[c]
      BY ObjectFacts DEF TypeOK
    <3>2. QED BY <1>1, <3>1 DEF MemoryInv, Owners
  <2>3. HasContext => \A d, e \in alive' : ctx_bo[d] = ctx_bo[e] => d = e
    BY <1>1 DEF MemoryInv, Owners
  <2>4. QED BY <1>1, <2>1, <2>2, <2>3 DEF Owners
<1>5. ASSUME NEW o \in Objects PROVE Life(o)'
  <2>1. Life(o) /\ OnePlace("free", o) /\ OnePlace("unlock", o) /\ UnlockFirst(o) /\ Stage(o)
    BY DEF MemoryInv, Life
  <2>2. /\ \A op : ~Has(work, op, o) /\ ~Has(work', op, o) /\ ~Has(queue'[c], op, o)
        /\ \A op : \A d \in Contexts : d # c => (Has(queue'[d], op, o) <=> Has(queue[d], op, o))
        /\ \A d \in Contexts : Sound(queue'[d], o)
    BY <1>1, <1>2, <2>1, EmptyList DEF UnlockFirst
  <2>3. o \in lost' <=> o \in lost \/ Has(queue[c], "free", o) \/ Has(queue[c], "unlock", o)
    BY <1>1, QueueObjects
  <2>4. Sound(ring', o) /\ \A op : Has(ring', op, o) <=> Has(ring, op, o)
    BY <1>1, <2>1 DEF UnlockFirst
  <2>5. CASE o = CmdBufs(c) \/ (HasContext /\ o = ctx_bo[c])
    <3>1. Owned(o) /\ mem'[o] = "none"
      BY <1>1, <2>5 DEF Owned
    <3>2. ~Pending("free", o) /\ ~Pending("unlock", o) /\ o \notin lost
      BY <2>1, <3>1 DEF Stage
    <3>3. o \notin lost'
      BY <2>3, <3>2 DEF Pending, InQueue
    <3>4. /\ \A op \in {"unlock", "free"} : ~Has(ring', op, o) /\ \A d \in Contexts : ~Has(queue'[d], op, o)
      BY <2>2, <2>4, <3>2 DEF Pending, InQueue
    <3>5. ~Pending("free", o)' /\ ~Pending("unlock", o)'
      BY <2>2, <3>4 DEF Pending, InQueue
    <3>6. OnePlace("free", o)' /\ OnePlace("unlock", o)' /\ UnlockFirst(o)'
      BY <2>2, <2>4, <3>4 DEF OnePlace, UnlockFirst
    <3>7. Stage(o)'
      BY <2>2, <3>1, <3>3, <3>5 DEF Stage
    <3>8. QED BY <3>6, <3>7 DEF Life
  <2>6. CASE ~(o = CmdBufs(c) \/ (HasContext /\ o = ctx_bo[c]))
    <3>1. mem'[o] = mem[o]
      BY <1>1, <2>6
    <3>2. Owned(o)' <=> Owned(o)
      BY <1>1, <2>6 DEF Owned
    <3>3. o \notin lost' =>
            /\ Pending("free", o) => Pending("free", o)'
            /\ Pending("unlock", o) => Pending("unlock", o)'
      BY <2>2, <2>3, <2>4 DEF Pending, InQueue
    <3>4. o \in lost' /\ o \notin lost => ~Owned(o) /\ mem[o] # "none" /\ ~Pending("free", o)'
      <4>1. SUFFICES ASSUME Has(queue[c], "free", o) \/ Has(queue[c], "unlock", o)
                     PROVE  ~Owned(o) /\ mem[o] # "none" /\ ~Pending("free", o)'
        BY <2>3
      <4>2. ~Owned(o) /\ mem[o] # "none"
        BY <2>1, <4>1 DEF Stage, Pending, InQueue
      <4>3. ~Pending("free", o)'
        BY <2>1, <2>2, <2>4, <4>1 DEF OnePlace, UnlockFirst, Pending, InQueue
      <4>4. QED BY <4>2, <4>3
    <3>5. o \in lost => o \in lost'
      BY <2>3
    <3>6. \A op : \A d \in Contexts : Has(queue'[d], op, o) => Has(queue[d], op, o)
      BY <2>2
    <3>7. QED BY <2>1, <2>2, <2>4, <3>1, <3>2, <3>3, <3>4, <3>5, <3>6, Dropped
  <2>7. QED BY <2>5, <2>6
<1>6. QED BY <1>3, <1>4, <1>5 DEF MemoryInv

-----------------------------------------------------------------------------

LEMMA MemoryPreserved == ASSUME TypeOK, MemoryInv, [Next]_vars PROVE MemoryInv'
<1>1. CASE Application
  <2>1. ASSUME NEW r \in Resources, CreateResource(r) \/ CreateLockFails(r) \/ DestroyResource(r)
        PROVE  MemoryInv'
    BY <2>1, KeptByCreate, KeptByLock, KeptByDestroy
  <2>2. ASSUME NEW c \in Contexts, NEW r \in Resources,
               BindBuffer(c, r) \/ BindSurface(c, r) \/ BindTexture(c, r) \/ Unbind(c, r)
        PROVE  MemoryInv'
    BY <2>2, KeptByUse
  <2>3. ASSUME NEW c \in Contexts, DestroyContext(c) PROVE MemoryInv'
    BY <2>3, KeptByDestroyContext
  <2>4. ASSUME NEW c \in Contexts, Draw(c) PROVE MemoryInv'
    <3>1. bound[c] \subseteq Resources /\ bound[c] # {}
      BY <2>4 DEF Draw, TypeOK
    <3>2. PICK r \in Resources : TRUE
      BY <3>1
    <3>3. QED BY <2>4, <3>2, KeptByUse
  <2>5. QED BY <1>1, <2>1, <2>2, <2>3, <2>4 DEF Application
<1>2. CASE Flush
  BY <1>2, KeptByFlushCommands, KeptByFlushEvents, KeptByRefusal DEF Flush
<1>3. CASE Delete
  BY <1>3, KeptByUnlock, KeptByUnlockFailure, KeptByQueueStep, KeptByDirectStep,
     KeptByDirectFailure DEF Delete
<1>4. CASE UNCHANGED vars
  <2>1. \A o : Owned(o)' <=> Owned(o)
    BY <1>4 DEF vars, Owned
  <2>2. \A o \in Objects : Life(o)'
    BY <1>4, <2>1, Unmoved DEF vars, MemoryInv
  <2>3. QED BY <1>4, <2>2, StillWork DEF vars, MemoryInv, Owners
<1>5. QED BY <1>1, <1>2, <1>3, <1>4, KeptByGpu DEF Next

LEMMA FreesIn ==
  ASSUME NEW s, NEW o
  PROVE  /\ ~Has(s, "free", o) => Frees(s, o) = {}
         /\ Has(s, "free", o) /\ Once(s, "free", o) => \E i : Frees(s, o) = {i}
<1>1. ~Has(s, "free", o) => Frees(s, o) = {}
  BY DEF Has, Is, Frees
<1>2. ASSUME Has(s, "free", o), Once(s, "free", o) PROVE \E i : Frees(s, o) = {i}
  <2>1. PICK i \in DOMAIN s : Is(s[i], "free", o)
    BY <1>2 DEF Has
  <2>2. Frees(s, o) = {i}
    BY <1>2, <2>1 DEF Once, Is, Frees
  <2>3. QED BY <2>2
<1>3. QED BY <1>1, <1>2

LEMMA FreesCounted ==
  ASSUME MemoryInv, NEW o \in Objects
  PROVE  /\ ~Pending("free", o) => FreesOf(o) = {}
         /\ Pending("free", o) => \E x : FreesOf(o) = {x}
<1>1. /\ OnePlace("free", o) /\ Once(ring, "free", o) /\ Once(work, "free", o)
      /\ \A c \in Contexts : Once(queue[c], "free", o)
  BY DEF MemoryInv, Life, UnlockFirst, Sound, Shape
<1> DEFINE InQueues == UNION {{c} \X Frees(queue[c], o) : c \in Contexts}
<1>2. FreesOf(o) = ({"ring"} \X Frees(ring, o)) \union ({"work"} \X Frees(work, o)) \union InQueues
  BY DEF FreesOf
<1>3. \A x : x \in InQueues <=> \E c \in Contexts : x \in {c} \X Frees(queue[c], o)
  OBVIOUS
<1> HIDE DEF InQueues
<1>4. (\A c \in Contexts : ~Has(queue[c], "free", o)) => InQueues = {}
  <2>1. SUFFICES ASSUME \A c \in Contexts : ~Has(queue[c], "free", o) PROVE \A x : x \notin InQueues
    OBVIOUS
  <2>2. \A c \in Contexts : {c} \X Frees(queue[c], o) = {}
    BY <2>1, FreesIn
  <2>3. QED BY <1>3, <2>2
<1>5. ~Has(ring, "free", o) => {"ring"} \X Frees(ring, o) = {}
  BY FreesIn
<1>6. ~Has(work, "free", o) => {"work"} \X Frees(work, o) = {}
  BY FreesIn
<1>7. ~Pending("free", o) => FreesOf(o) = {}
  BY <1>2, <1>4, <1>5, <1>6 DEF Pending, InQueue
<1>8. CASE Has(ring, "free", o)
  <2>1. PICK i : Frees(ring, o) = {i}
    BY <1>1, <1>8, FreesIn
  <2>2. ~Has(work, "free", o) /\ \A c \in Contexts : ~Has(queue[c], "free", o)
    BY <1>1, <1>8 DEF OnePlace
  <2>3. {"ring"} \X Frees(ring, o) = {<< "ring", i >>}
    BY <2>1
  <2>4. FreesOf(o) = {<< "ring", i >>}
    BY <1>2, <1>4, <1>6, <2>2, <2>3
  <2>5. QED BY <1>7, <2>4
<1>9. CASE Has(work, "free", o)
  <2>1. PICK i : Frees(work, o) = {i}
    BY <1>1, <1>9, FreesIn
  <2>2. ~Has(ring, "free", o) /\ \A c \in Contexts : ~Has(queue[c], "free", o)
    BY <1>1, <1>9 DEF OnePlace
  <2>3. {"work"} \X Frees(work, o) = {<< "work", i >>}
    BY <2>1
  <2>4. FreesOf(o) = {<< "work", i >>}
    BY <1>2, <1>4, <1>5, <2>2, <2>3
  <2>5. QED BY <1>7, <2>4
<1>10. ASSUME NEW c \in Contexts, Has(queue[c], "free", o) PROVE \E x : FreesOf(o) = {x}
  <2>1. PICK i : Frees(queue[c], o) = {i}
    BY <1>1, <1>10, FreesIn
  <2>2. /\ ~Has(ring, "free", o) /\ ~Has(work, "free", o)
        /\ \A d \in Contexts : d # c => ~Has(queue[d], "free", o)
    BY <1>1, <1>10 DEF OnePlace
  <2>3. \A d \in Contexts : d # c => {d} \X Frees(queue[d], o) = {}
    BY <2>2, FreesIn
  <2>4. {c} \X Frees(queue[c], o) = {<< c, i >>}
    BY <2>1
  <2>5. \A x : x \in InQueues <=> x = << c, i >>
    BY <1>3, <2>3, <2>4
  <2>6. InQueues = {<< c, i >>}
    BY <2>5
  <2>7. FreesOf(o) = {<< c, i >>}
    BY <1>2, <1>5, <1>6, <2>2, <2>6
  <2>8. QED BY <2>7
<1>11. QED BY <1>7, <1>8, <1>9, <1>10 DEF Pending, InQueue

\* Memory that is allocated has one owner or one free on its way, whatever
\* applications do and whichever calls fail: nothing is freed twice, and only
\* what a failed call or etna_free lost leaks.
THEOREM MemoryKept == Spec => []MemoryConserved
<1>1. Init => TypeOK /\ MemoryInv
  BY TypeInit, MemoryInit
<1>2. TypeOK /\ MemoryInv /\ [Next]_vars => TypeOK' /\ MemoryInv'
  BY TypePreserved, MemoryPreserved
<1>3. TypeOK /\ MemoryInv => MemoryConserved
  <2>1. SUFFICES ASSUME MemoryInv, NEW o \in Objects
                 PROVE  /\ mem[o] = "none" \/ Owned(o) => FreesOf(o) = {}
                        /\ mem[o] # "none" /\ ~Owned(o) /\ o \notin lost => Cardinality(FreesOf(o)) = 1
                        /\ o \in lost => mem[o] # "none" /\ ~Owned(o) /\ Cardinality(FreesOf(o)) <= 1
    BY DEF MemoryConserved
  <2>2. Stage(o)
    BY <2>1 DEF MemoryInv, Life
  <2>3. ~Pending("free", o) => FreesOf(o) = {} /\ Cardinality(FreesOf(o)) = 0
    BY <2>1, FreesCounted, FS_EmptySet
  <2>4. Pending("free", o) => Cardinality(FreesOf(o)) = 1
    BY <2>1, FreesCounted, FS_Singleton
  <2>5. Cardinality(FreesOf(o)) <= 1
    BY <2>3, <2>4
  <2>6. QED BY <2>2, <2>3, <2>4, <2>5 DEF Stage
<1>4. QED BY <1>1, <1>2, <1>3, PTL DEF Spec

-----------------------------------------------------------------------------
(* Who may still use an object, where applications use a resource from one *)
(* context only, sample what they have rendered to, and wait before they   *)
(* destroy a context.                                                      *)

Careful == Practices \intersect {"share", "sample", "busy"} = {}

Used(s, o) == \E i \in DOMAIN s : s[i].op = "run" /\ o \in s[i].uses

\* Commits are ahead of the free of what they use.
Ahead(s, o) ==
  \A i, j \in DOMAIN s : s[i].op = "run" /\ o \in s[i].uses /\ Is(s[j], "free", o) => i < j

RingUses == \A o \in Objects : Ahead(ring, o) /\ (Used(ring, o) => mem[o] # "none")

\* The free of an object goes behind the commands of a context.
Guarded(c, o) ==
  /\ mem[o] # "none" /\ ~Has(ring, "free", o)
  /\ \A d \in Contexts : Has(queue[d], "free", o) => d = c
  /\ \A i \in DOMAIN work : work[i].obj = o => work[i].via = c

CommandUses ==
  \A c \in Contexts :
    /\ c \notin alive => cmds[c] = {}
    /\ cmds[c] \subseteq VidMem \union {CmdBufs(c)}
    /\ \A o \in cmds[c] : Guarded(c, o)

\* The last context of a resource is the one that uses it.
LastContexts ==
  \A r \in Resources, c \in Contexts :
    /\ r \in exists /\ (Bo(r) \in cmds[c] \/ Ts(r) \in cmds[c]) => last_ctx[r] = c
    /\ r \in bound[c] => r \in exists /\ last_ctx[r] = c

UseInv == RingUses /\ CommandUses /\ LastContexts /\ ContextBufferIdle

LEMMA UsedInRing == \A o : InRing(o) <=> Used(ring, o)
  BY DEF InRing, Used

LEMMA UsedConcat ==
  ASSUME NEW S, NEW s \in Seq(S), NEW t \in Seq(S), NEW o
  PROVE  /\ Used(s \o t, o) <=> Used(s, o) \/ Used(t, o)
         /\ Ahead(s, o) /\ Ahead(t, o) /\ ~(Has(s, "free", o) /\ Used(t, o)) => Ahead(s \o t, o)
<1>1. ASSUME Used(s, o) PROVE Used(s \o t, o)
  BY <1>1, Places DEF Used
<1>2. ASSUME Used(t, o) PROVE Used(s \o t, o)
  <2>1. PICK j \in DOMAIN t : t[j].op = "run" /\ o \in t[j].uses
    BY <1>2 DEF Used
  <2>2. Len(s) + j \in DOMAIN (s \o t) /\ (s \o t)[Len(s) + j] = t[j]
    BY Places
  <2>3. QED BY <2>1, <2>2 DEF Used
<1>3. ASSUME Used(s \o t, o), ~Used(s, o) PROVE Used(t, o)
  <2>1. PICK k \in DOMAIN (s \o t) : (s \o t)[k].op = "run" /\ o \in (s \o t)[k].uses
    BY <1>3 DEF Used
  <2>2. k \notin DOMAIN s
    BY <1>3, <2>1, Places DEF Used
  <2>3. PICK j \in DOMAIN t : k = Len(s) + j
    BY <2>2, Places
  <2>4. QED BY <2>1, <2>3, Places DEF Used
<1>4. ASSUME Ahead(s, o), Ahead(t, o), ~(Has(s, "free", o) /\ Used(t, o)),
             NEW i \in DOMAIN (s \o t), NEW j \in DOMAIN (s \o t),
             (s \o t)[i].op = "run", o \in (s \o t)[i].uses, Is((s \o t)[j], "free", o)
      PROVE  i < j
  <2>1. CASE j \in DOMAIN s
    <3>1. Has(s, "free", o)
      BY <1>4, <2>1, Places DEF Has
    <3>2. i \in DOMAIN s
      <4>1. SUFFICES ASSUME i \notin DOMAIN s PROVE FALSE
        OBVIOUS
      <4>2. PICK k \in DOMAIN t : i = Len(s) + k
        BY <4>1, Places
      <4>3. t[k].op = "run" /\ o \in t[k].uses
        BY <1>4, <4>2, Places
      <4>4. QED BY <1>4, <3>1, <4>3 DEF Used
    <3>3. QED BY <1>4, <2>1, <3>2, Places DEF Ahead
  <2>2. CASE j \notin DOMAIN s
    <3>1. PICK m \in DOMAIN t : j = Len(s) + m
      BY <2>2, Places
    <3>2. CASE i \in DOMAIN s
      BY <3>1, <3>2, Places
    <3>3. CASE i \notin DOMAIN s
      <4>1. PICK k \in DOMAIN t : i = Len(s) + k
        BY <3>3, Places
      <4>2. t[k].op = "run" /\ o \in t[k].uses /\ Is(t[m], "free", o)
        BY <1>4, <3>1, <4>1, Places
      <4>3. k < m
        BY <1>4, <4>2 DEF Ahead
      <4>4. QED BY <3>1, <4>1, <4>3, Places
    <3>4. QED BY <3>2, <3>3
  <2>3. QED BY <2>1, <2>2
<1>5. Ahead(s, o) /\ Ahead(t, o) /\ ~(Has(s, "free", o) /\ Used(t, o)) => Ahead(s \o t, o)
  <2>1. SUFFICES ASSUME Ahead(s, o), Ahead(t, o), ~(Has(s, "free", o) /\ Used(t, o)) PROVE Ahead(s \o t, o)
    OBVIOUS
  <2>2. QED BY <1>4, <2>1 DEF Ahead
<1>6. QED BY <1>1, <1>2, <1>3, <1>5

LEMMA UsedTail ==
  ASSUME NEW S, NEW s \in Seq(S), s # << >>, NEW o, Ahead(s, o)
  PROVE  /\ Used(Tail(s), o) => Used(s, o)
         /\ Ahead(Tail(s), o)
         /\ Is(Head(s), "free", o) => ~Used(s, o)
<1>1. Used(Tail(s), o) => Used(s, o)
  <2>1. ASSUME NEW i \in DOMAIN Tail(s), Tail(s)[i].op = "run", o \in Tail(s)[i].uses PROVE Used(s, o)
    <3>1. i + 1 \in DOMAIN s /\ Tail(s)[i] = s[i + 1]
      BY <2>1, Rest
    <3>2. QED BY <2>1, <3>1 DEF Used
  <2>2. QED BY <2>1 DEF Used
<1>2. ASSUME NEW i \in DOMAIN Tail(s), NEW j \in DOMAIN Tail(s), Tail(s)[i].op = "run",
             o \in Tail(s)[i].uses, Is(Tail(s)[j], "free", o)
      PROVE  i < j
  <2>1. i + 1 < j + 1 /\ i \in Nat /\ j \in Nat
    BY <1>2, Rest DEF Ahead
  <2>2. QED BY <2>1
<1>3. ASSUME Is(Head(s), "free", o), Used(s, o) PROVE FALSE
  <2>1. PICK i \in DOMAIN s : s[i].op = "run" /\ o \in s[i].uses
    BY <1>3 DEF Used
  <2>2. i < 1
    BY <1>3, <2>1, Rest DEF Ahead
  <2>3. QED BY <2>1, <2>2, Rest
<1>4. QED BY <1>1, <1>2, <1>3 DEF Ahead

LEMMA EventsUseNothing ==
  ASSUME NEW s \in Seq(Events), NEW o
  PROVE  ~Used(s, o) /\ Ahead(s, o)
<1>1. \A i \in DOMAIN s : s[i].op # "run"
  <2>1. \A i \in DOMAIN s : s[i] \in Events
    BY ElementOfSeq, LenProperties
  <2>2. QED BY <2>1 DEF Events
<1>2. QED BY <1>1 DEF Used, Ahead

LEMMA RunUses ==
  ASSUME NEW uses, NEW o
  PROVE  (Used(<< Run(uses) >>, o) <=> o \in uses) /\ Ahead(<< Run(uses) >>, o)
<1> DEFINE e == Run(uses)
<1>1. e.op = "run" /\ e.uses = uses
  BY DEF Run
<1> HIDE DEF e
<1>2. DOMAIN << e >> = {1} /\ << e >>[1] = e
  OBVIOUS
<1>3. ~Is(e, "free", o)
  BY <1>1 DEF Is
<1>4. (Used(<< e >>, o) <=> o \in uses) /\ Ahead(<< e >>, o)
  BY <1>1, <1>2, <1>3 DEF Used, Ahead
<1>5. QED BY <1>4 DEF e
LEMMA UseInit == Init => UseInv
<1>1. SUFFICES ASSUME Init PROVE UseInv
  OBVIOUS
<1>2. ring = << >> /\ \A c \in Contexts : cmds[c] = {} /\ bound[c] = {}
  BY <1>1 DEF Init
<1>3. \A o : ~Used(ring, o) /\ Ahead(ring, o)
  BY <1>2 DEF Used, Ahead
<1>4. alive \subseteq Contexts
  BY <1>1 DEF Init
<1>5. QED BY <1>2, <1>3, <1>4, UsedInRing DEF UseInv, RingUses, CommandUses, LastContexts, ContextBufferIdle

\* What an action leaves alone when it frees nothing and sends nothing.
Allocated == \A o \in Objects : mem[o] # "none" => mem'[o] # "none"

LEMMA NothingSent ==
  ASSUME UseInv, Allocated, alive' \subseteq alive, halfway \subseteq halfway', UNCHANGED << ring, ctx_bo >>
  PROVE  RingUses' /\ ContextBufferIdle'
  BY DEF UseInv, RingUses, Allocated, ContextBufferIdle, InRing

LEMMA StillGuarded ==
  ASSUME NEW c \in Contexts, NEW o \in Objects, Guarded(c, o), Allocated,
         Has(ring', "free", o) => Has(ring, "free", o),
         \A d \in Contexts : Has(queue'[d], "free", o) => Has(queue[d], "free", o),
         \A i \in DOMAIN work' : work'[i].obj = o => work'[i].via = c
  PROVE  Guarded(c, o)'
  BY DEF Guarded, Allocated

\* Commands and what they use are as they were.
LEMMA SameCommands ==
  ASSUME TypeOK, UseInv, Allocated, UNCHANGED << cmds, alive >>,
         \A c \in Contexts : \A o \in cmds[c] :
           /\ Has(ring', "free", o) => Has(ring, "free", o)
           /\ \A d \in Contexts : Has(queue'[d], "free", o) => Has(queue[d], "free", o)
           /\ \A i \in DOMAIN work' : work'[i].obj = o => work'[i].via = c
  PROVE  CommandUses'
<1>1. ASSUME NEW c \in Contexts, NEW o \in cmds[c] PROVE Guarded(c, o)'
  <2>1. Guarded(c, o) /\ o \in Objects
    BY DEF UseInv, CommandUses, TypeOK
  <2>2. QED BY <2>1, StillGuarded
<1>2. QED BY <1>1 DEF UseInv, CommandUses

LEMMA GuardedWork ==
  ASSUME UseInv
  PROVE  \A c \in Contexts : \A o \in cmds[c] : \A i \in DOMAIN work : work[i].obj = o => work[i].via = c
  BY DEF UseInv, CommandUses, Guarded

LEMMA SafeCreate ==
  ASSUME TypeOK, UseInv, NEW r \in Resources, CreateResource(r) \/ CreateLockFails(r)
  PROVE  UseInv'
<1> USE DEF resourceVars
<1>1. /\ mem[Bo(r)] = "none" /\ mem[Ts(r)] = "none" /\ r \notin exists
      /\ \E m \in {"mapped", "unlocked"} : mem' = [mem EXCEPT ![Bo(r)] = m]
      /\ UNCHANGED << bound, alive, cmds, queue, ctx_bo, ring, halfway >>
      /\ \A s \in Resources : s # r => last_ctx'[s] = last_ctx[s] /\ (s \in exists' <=> s \in exists)
      /\ Bo(r) \in Objects
      /\ exists \subseteq exists'
  BY ObjectFacts DEF CreateResource, CreateLockFails, TypeOK
<1>2. work' = work \/ work' = << Step("free", Bo(r), NoContext) >>
  BY DEF CreateResource, CreateLockFails
<1>3. Allocated
  BY <1>1 DEF Allocated, TypeOK
<1>4. RingUses' /\ ContextBufferIdle'
  BY <1>1, <1>3, NothingSent
<1>5. \A c \in Contexts : Bo(r) \notin cmds[c] /\ Ts(r) \notin cmds[c] /\ r \notin bound[c]
  BY <1>1 DEF UseInv, CommandUses, LastContexts, Guarded
<1>6. ASSUME NEW c \in Contexts, NEW o \in cmds[c], NEW i \in DOMAIN work', work'[i].obj = o
      PROVE  work'[i].via = c
  <2>1. CASE work' = work
    BY <1>6, <2>1, GuardedWork
  <2>2. CASE work' = << Step("free", Bo(r), NoContext) >>
    <3>1. i = 1 /\ work'[1].obj = Bo(r)
      BY <1>6, <2>2 DEF Step
    <3>2. QED BY <1>5, <1>6, <3>1
  <2>3. QED BY <1>2, <2>1, <2>2
<1>7. CommandUses'
  BY <1>1, <1>3, <1>6, SameCommands
<1>8. LastContexts'
  BY <1>1, <1>5, Distinct DEF UseInv, LastContexts
<1>9. QED BY <1>4, <1>7, <1>8 DEF UseInv

\* A resource is used by one context only.
LEMMA SafeUse ==
  ASSUME Careful, TypeOK, MemoryInv, UseInv, NEW c \in Contexts, NEW r \in Resources,
         BindBuffer(c, r) \/ BindTexture(c, r) \/ Unbind(c, r) \/ BindSurface(c, r)
  PROVE  UseInv'
<1>1. /\ UNCHANGED << exists, alive, cmds, queue, ctx_bo, ring, work, halfway >>
      /\ \/ mem' = mem
         \/ \E ts \in {mem[Ts(r)], "mapped"} : mem' = [mem EXCEPT ![Ts(r)] = ts]
      /\ \A d \in Contexts : d # c => bound'[d] = bound[d]
      /\ \A s \in Resources : s # r => last_ctx'[s] = last_ctx[s] /\ (s \in bound'[c] => s \in bound[c])
  BY DEF BindBuffer, BindTexture, Unbind, BindSurface, TypeOK, Touched
<1>2. Allocated
  BY <1>1, ObjectFacts DEF Allocated, TypeOK
<1>3. RingUses' /\ ContextBufferIdle'
  BY <1>1, <1>2, NothingSent
<1>4. CommandUses'
  BY <1>1, <1>2, GuardedWork, SameCommands
<1>5. \/ last_ctx'[r] = last_ctx[r] /\ bound'[c] \subseteq bound[c]
      \/ /\ last_ctx'[r] = c /\ r \in exists
         /\ \A d \in Contexts : d # c => last_ctx[r] # d /\ r \notin bound[d]
  BY DEF BindBuffer, BindTexture, Unbind, BindSurface, TypeOK, Touched, MayUse, Careful
<1>6. LastContexts'
  <2>1. CASE last_ctx'[r] = last_ctx[r] /\ bound'[c] \subseteq bound[c]
    BY <1>1, <2>1 DEF UseInv, LastContexts
  <2>2. CASE /\ last_ctx'[r] = c /\ r \in exists
             /\ \A d \in Contexts : d # c => last_ctx[r] # d /\ r \notin bound[d]
    BY <1>1, <2>2 DEF UseInv, LastContexts
  <2>3. QED BY <1>5, <2>1, <2>2
<1>7. QED BY <1>3, <1>4, <1>6 DEF UseInv

LEMMA SafeDraw ==
  ASSUME TypeOK, MemoryInv, UseInv, NEW c \in Contexts, Draw(c)
  PROVE  UseInv'
<1> USE DEF resourceVars
<1>1. /\ UNCHANGED << mem, exists, last_ctx, bound, alive, queue, ctx_bo, ring, work, halfway >>
      /\ work = << >> /\ c \in alive
      /\ \A d \in Contexts : d # c => cmds'[d] = cmds[d]
      /\ cmds'[c] = cmds[c] \union {CmdBufs(c)} \union UNION {Parts(s) : s \in bound[c]}
  BY DEF Draw, TypeOK, Idle
<1>2. RingUses' /\ ContextBufferIdle'
  BY <1>1, NothingSent DEF Allocated
<1>3. ASSUME NEW o, o \in cmds'[c], o \notin cmds[c]
      PROVE  \/ o = CmdBufs(c)
             \/ \E s \in exists : o \in {Bo(s), Ts(s)} /\ s \in Resources /\ last_ctx[s] = c /\ mem[o] # "none"
  <2>1. o = CmdBufs(c) \/ \E s \in bound[c] : o \in Parts(s)
    BY <1>1, <1>3
  <2>2. \A s \in bound[c] : s \in Resources /\ s \in exists /\ last_ctx[s] = c
    BY DEF UseInv, LastContexts, TypeOK
  <2>3. QED BY <2>1, <2>2 DEF Parts
<1>4. ASSUME NEW o, o \in cmds'[c], o \notin cmds[c]
      PROVE  Guarded(c, o)' /\ o \in VidMem \union {CmdBufs(c)}
  <2>1. Owned(o) /\ mem[o] # "none" /\ o \in VidMem \union {CmdBufs(c)} /\ o \in Objects
    BY <1>1, <1>3, <1>4, ObjectFacts DEF Owned, MemoryInv, Owners
  <2>2. ~Pending("free", o)
    BY <2>1 DEF MemoryInv, Life, Stage
  <2>3. QED BY <1>1, <2>1, <2>2 DEF Guarded, Pending, InQueue
<1>5. CommandUses'
  <2>1. ASSUME NEW d \in Contexts, NEW o \in cmds'[d] PROVE Guarded(d, o)' /\ o \in VidMem \union {CmdBufs(d)}
    <3>1. CASE o \in cmds[d]
      BY <1>1, <3>1 DEF UseInv, CommandUses, Guarded
    <3>2. CASE o \notin cmds[d]
      BY <1>1, <1>4, <2>1, <3>2
    <3>3. QED BY <3>1, <3>2
  <2>2. \A d \in Contexts : d \notin alive' => cmds'[d] = {}
    BY <1>1 DEF UseInv, CommandUses
  <2>3. QED BY <2>1, <2>2 DEF CommandUses
<1>6. LastContexts'
  <2>1. ASSUME NEW s \in Resources, NEW d \in Contexts, s \in exists, Bo(s) \in cmds'[d] \/ Ts(s) \in cmds'[d]
        PROVE  last_ctx[s] = d
    <3>1. CASE Bo(s) \in cmds[d] \/ Ts(s) \in cmds[d]
      BY <2>1, <3>1 DEF UseInv, LastContexts
    <3>2. CASE ~(Bo(s) \in cmds[d] \/ Ts(s) \in cmds[d])
      <4>1. d = c /\ Bo(s) # CmdBufs(c) /\ Ts(s) # CmdBufs(c)
        BY <1>1, <2>1, <3>2, ObjectFacts
      <4>2. PICK t \in exists : (Bo(s) \in {Bo(t), Ts(t)} \/ Ts(s) \in {Bo(t), Ts(t)}) /\ t \in Resources /\ last_ctx[t] = c
        BY <1>3, <2>1, <3>2, <4>1
      <4>3. QED BY <4>1, <4>2, Distinct
    <3>3. QED BY <3>1, <3>2
  <2>2. QED BY <1>1, <2>1 DEF UseInv, LastContexts
<1>7. QED BY <1>2, <1>5, <1>6 DEF UseInv
LEMMA DelVia ==
  ASSUME NEW o \in Objects, NEW v \in Contexts \union {NoContext}
  PROVE  /\ DelSteps(o, v) \in Seq(Steps)
         /\ \A i \in DOMAIN DelSteps(o, v) : DelSteps(o, v)[i].obj = o /\ DelSteps(o, v)[i].via = v
<1>1. Step("sync", o, v) \in Steps /\ Step("free", o, v) \in Steps
  BY DEF Step, Steps
<1>2. CASE mem[o] = "none"
  BY <1>2 DEF DelSteps
<1>3. CASE mem[o] # "none"
  <2>1. DelSteps(o, v) = << Step("sync", o, v), Step("free", o, v) >>
    BY <1>3 DEF DelSteps
  <2>2. DOMAIN << Step("sync", o, v), Step("free", o, v) >> = {1, 2}
    OBVIOUS
  <2>3. \A op : Step(op, o, v).obj = o /\ Step(op, o, v).via = v
    BY DEF Step
  <2>4. QED BY <1>1, <2>1, <2>2, <2>3
<1>4. QED BY <1>2, <1>3

LEMMA SafeDestroy ==
  ASSUME TypeOK, UseInv, NEW r \in Resources, DestroyResource(r)
  PROVE  UseInv'
<1>1. /\ UNCHANGED << mem, last_ctx, bound, alive, cmds, queue, ctx_bo, ring, halfway >>
      /\ exists' = exists \ {r} /\ r \in exists /\ \A c \in Contexts : r \notin bound[c]
      /\ work' = DelSteps(Bo(r), last_ctx[r]) \o DelSteps(Ts(r), last_ctx[r])
      /\ Bo(r) \in Objects /\ Ts(r) \in Objects /\ last_ctx[r] \in Contexts \union {NoContext}
  BY ObjectFacts DEF DestroyResource, TypeOK
<1>2. Allocated
  BY <1>1 DEF Allocated
<1>3. RingUses' /\ ContextBufferIdle'
  BY <1>1, <1>2, NothingSent
<1>4. \A i \in DOMAIN work' : work'[i].obj \in {Bo(r), Ts(r)} /\ work'[i].via = last_ctx[r]
  <2> DEFINE x == DelSteps(Bo(r), last_ctx[r])
             y == DelSteps(Ts(r), last_ctx[r])
  <2>1. /\ x \in Seq(Steps) /\ \A i \in DOMAIN x : x[i].obj = Bo(r) /\ x[i].via = last_ctx[r]
        /\ y \in Seq(Steps) /\ \A i \in DOMAIN y : y[i].obj = Ts(r) /\ y[i].via = last_ctx[r]
    BY <1>1, DelVia
  <2>2. work' = x \o y
    BY <1>1
  <2> HIDE DEF x, y
  <2>3. ASSUME NEW i \in DOMAIN (x \o y)
        PROVE  (x \o y)[i].obj \in {Bo(r), Ts(r)} /\ (x \o y)[i].via = last_ctx[r]
    <3>1. CASE i \in DOMAIN x
      BY <2>1, <3>1, Places
    <3>2. CASE i \notin DOMAIN x
      <4>1. PICK j \in DOMAIN y : i = Len(x) + j
        BY <2>1, <3>2, Places
      <4>2. QED BY <2>1, <4>1, Places
    <3>3. QED BY <3>1, <3>2
  <2>4. QED BY <2>2, <2>3
<1>5. \A c \in Contexts : Bo(r) \in cmds[c] \/ Ts(r) \in cmds[c] => last_ctx[r] = c
  BY <1>1 DEF UseInv, LastContexts
<1>6. CommandUses'
  BY <1>1, <1>2, <1>4, <1>5, SameCommands
<1>7. LastContexts'
  BY <1>1 DEF UseInv, LastContexts
<1>8. QED BY <1>3, <1>6, <1>7 DEF UseInv

-----------------------------------------------------------------------------
(* Flushes: what is committed goes behind what is in the ring. *)

\* The events of a queue go to the ring, and use nothing.
LEMMA EventsSent ==
  ASSUME NEW s \in Seq(Items), NEW q \in Seq(Events), NEW o
  PROVE  /\ Used(s \o q, o) <=> Used(s, o)
         /\ Ahead(s, o) => Ahead(s \o q, o)
  BY QueueItems, EventsUseNothing, UsedConcat

\* A commit goes to the ring.
LEMMA RunSent ==
  ASSUME TypeOK, NEW c \in Contexts, NEW o
  PROVE  /\ Used(ring \o << Run(Uses(c)) >>, o) <=> Used(ring, o) \/ o \in Uses(c)
         /\ Ahead(ring, o) /\ (o \in Uses(c) => ~Has(ring, "free", o)) => Ahead(ring \o << Run(Uses(c)) >>, o)
         /\ Has(ring \o << Run(Uses(c)) >>, "free", o) <=> Has(ring, "free", o)
<1>1. ring \in Seq(Items) /\ << Run(Uses(c)) >> \in Seq(Items)
  BY RingTypes
<1>2. \A x : x = << Run(Uses(c)) >> =>
        (Used(x, o) <=> o \in Uses(c)) /\ Ahead(x, o) /\ ~Has(x, "free", o)
  BY RunUses, RunIsNoEvent
<1>3. \A x \in Seq(Items) :
        /\ Used(ring \o x, o) <=> Used(ring, o) \/ Used(x, o)
        /\ Ahead(ring, o) /\ Ahead(x, o) /\ ~(Has(ring, "free", o) /\ Used(x, o)) => Ahead(ring \o x, o)
        /\ Has(ring \o x, "free", o) <=> Has(ring, "free", o) \/ Has(x, "free", o)
  BY <1>1, UsedConcat, HasConcat
<1>4. QED BY <1>1, <1>2, <1>3

\* What a commit uses is allocated, and its free is not in the ring.
LEMMA UsesAllocated ==
  ASSUME TypeOK, MemoryInv, UseInv, NEW c \in alive, NEW o \in Uses(c)
  PROVE  o \in Objects /\ mem[o] # "none" /\ ~Has(ring, "free", o)
<1>1. c \in Contexts
  BY DEF TypeOK
<1>2. CASE o \in cmds[c]
  BY <1>1, <1>2 DEF UseInv, CommandUses, Guarded, TypeOK
<1>3. CASE HasContext /\ o = ctx_bo[c]
  <2>1. Owned(o) /\ mem[o] = "mapped" /\ o \in Objects
    BY <1>1, <1>3, ObjectFacts DEF Owned, MemoryInv, Owners, TypeOK
  <2>2. QED BY <2>1 DEF MemoryInv, Life, Stage, Pending
<1>4. QED BY <1>2, <1>3 DEF Uses, InUse

\* The context buffers a commit of another context leaves alone.
LEMMA OtherBuffers ==
  ASSUME TypeOK, MemoryInv, UseInv, NEW c \in alive, NEW d \in alive, d # c
  PROVE  ctx_bo[d] \notin Uses(c)
<1>1. ctx_bo[d] \in CtxBufs /\ c \in Contexts
  BY DEF TypeOK
<1>2. ctx_bo[d] \notin cmds[c]
  BY <1>1, ObjectFacts DEF UseInv, CommandUses
<1>3. HasContext => ctx_bo[d] # ctx_bo[c]
  BY DEF MemoryInv, Owners
<1>4. QED BY <1>2, <1>3 DEF Uses, InUse

LEMMA SafeFlushEvents ==
  ASSUME TypeOK, MemoryInv, UseInv, NEW c \in Contexts, FlushEvents(c)
  PROVE  UseInv'
<1> USE DEF resourceVars
<1>1. /\ UNCHANGED << mem, exists, last_ctx, bound, alive, cmds, ctx_bo, work, halfway >>
      /\ cmds[c] = {} /\ ring' = ring \o queue[c]
      /\ queue'[c] = << >> /\ \A d \in Contexts : d # c => queue'[d] = queue[d]
  BY DEF FlushEvents, TypeOK
<1>2. \A o : /\ Used(ring', o) <=> Used(ring, o)
             /\ Ahead(ring, o) => Ahead(ring', o)
             /\ Has(ring', "free", o) <=> Has(ring, "free", o) \/ Has(queue[c], "free", o)
  <2>1. ring \in Seq(Items) /\ queue[c] \in Seq(Items) /\ queue[c] \in Seq(Events)
    BY RingTypes
  <2>2. QED BY <1>1, <2>1, EventsSent, HasConcat
<1>3. RingUses' /\ ContextBufferIdle'
  <2>1. RingUses'
    BY <1>1, <1>2 DEF UseInv, RingUses
  <2>2. \A o : InRing(o)' => InRing(o)
    BY <1>2, UsedInRing DEF InRing, Used
  <2>3. QED BY <1>1, <2>1, <2>2 DEF UseInv, ContextBufferIdle
<1>4. CommandUses'
  <2>1. ASSUME NEW d \in Contexts, NEW o \in cmds[d]
        PROVE  /\ Has(ring', "free", o) => Has(ring, "free", o)
               /\ \A e \in Contexts : Has(queue'[e], "free", o) => Has(queue[e], "free", o)
    <3>1. ~Has(queue[c], "free", o)
      BY <1>1, <2>1 DEF UseInv, CommandUses, Guarded
    <3>2. ~Has(queue'[c], "free", o)
      BY <1>1, EmptyList
    <3>3. QED BY <1>1, <1>2, <3>1, <3>2
  <2>2. QED BY <1>1, <2>1, GuardedWork, SameCommands DEF Allocated
<1>5. LastContexts'
  BY <1>1 DEF UseInv, LastContexts
<1>6. QED BY <1>3, <1>4, <1>5 DEF UseInv

LEMMA SafeFlushCommands ==
  ASSUME TypeOK, MemoryInv, UseInv, NEW c \in Contexts, FlushCommands(c)
  PROVE  UseInv'
<1> USE DEF resourceVars
<1> DEFINE run == ring \o << Run(Uses(c)) >>
<1>1. /\ UNCHANGED << exists, last_ctx, bound, alive, work, halfway >>
      /\ c \in alive /\ ring' = run \o queue[c] /\ ContextClear(c)
      /\ cmds'[c] = {} /\ \A d \in Contexts : d # c => cmds'[d] = cmds[d]
  BY DEF FlushCommands, MayFlush, TypeOK
<1>2. /\ \A d \in Contexts : d # c => queue'[d] = queue[d]
      /\ \/ /\ InUse(c)
            /\ queue'[c] = << Free(ctx_bo[c]) >>
            /\ \E b \in CtxBufs :
                 /\ mem[b] = "none" /\ mem'[b] = "mapped"
                 /\ \A o \in Objects : o # b => mem'[o] = mem[o]
                 /\ ctx_bo'[c] = b
                 /\ \A d \in Contexts : d # c => ctx_bo'[d] = ctx_bo[d]
         \/ ~InUse(c) /\ queue'[c] = << >> /\ mem' = mem /\ ctx_bo' = ctx_bo
  BY <1>1, ClearEffect
<1>3. Allocated
  BY <1>2 DEF Allocated
<1>4. \A o : /\ Used(ring', o) <=> Used(ring, o) \/ o \in Uses(c)
             /\ Has(ring', "free", o) <=> Has(ring, "free", o) \/ Has(queue[c], "free", o)
             /\ Ahead(ring, o) /\ (o \in Uses(c) => ~Has(ring, "free", o)) => Ahead(ring', o)
  <2>1. run \in Seq(Items) /\ queue[c] \in Seq(Events) /\ queue[c] \in Seq(Items)
    BY RingTypes
  <2>2. \A o : /\ Used(run, o) <=> Used(ring, o) \/ o \in Uses(c)
               /\ Ahead(ring, o) /\ (o \in Uses(c) => ~Has(ring, "free", o)) => Ahead(run, o)
               /\ Has(run, "free", o) <=> Has(ring, "free", o)
    BY RunSent
  <2> HIDE DEF run
  <2>3. QED BY <1>1, <2>1, <2>2, EventsSent, HasConcat
<1> HIDE DEF run
<1>5. RingUses'
  <2>1. ASSUME NEW o \in Objects PROVE Ahead(ring', o) /\ (Used(ring', o) => mem'[o] # "none")
    <3>1. o \in Uses(c) => mem[o] # "none" /\ ~Has(ring, "free", o)
      BY <1>1, UsesAllocated
    <3>2. QED BY <1>3, <1>4, <3>1 DEF UseInv, RingUses, Allocated
  <2>2. QED BY <2>1 DEF RingUses
<1>6. ContextBufferIdle'
  <2>1. ASSUME NEW d \in alive \ halfway PROVE ~Used(ring', ctx_bo'[d])
    <3>1. ~Used(ring, ctx_bo[d]) /\ d \in Contexts
      BY UsedInRing DEF UseInv, ContextBufferIdle, TypeOK
    <3>2. CASE d # c
      <4>1. ctx_bo'[d] = ctx_bo[d] /\ ctx_bo[d] \notin Uses(c)
        BY <1>1, <1>2, <3>1, <3>2, OtherBuffers
      <4>2. QED BY <1>4, <3>1, <4>1
    <3>3. CASE d = c /\ ~InUse(c)
      <4>1. ctx_bo'[c] = ctx_bo[c] /\ ctx_bo[c] \in CtxBufs
        BY <1>2, <3>3 DEF TypeOK
      <4>2. ctx_bo[c] \notin cmds[c]
        BY <4>1, ObjectFacts DEF UseInv, CommandUses
      <4>3. QED BY <1>4, <3>1, <3>3, <4>1, <4>2 DEF Uses
    <3>4. CASE d = c /\ InUse(c)
      <4>1. ctx_bo'[c] \in Objects /\ mem[ctx_bo'[c]] = "none"
        BY <1>2, <3>4, ObjectFacts
      <4>2. ~Used(ring, ctx_bo'[c])
        BY <4>1 DEF UseInv, RingUses
      <4>3. ctx_bo'[c] \notin Uses(c)
        BY <1>1, <4>1, UsesAllocated
      <4>4. QED BY <1>4, <3>4, <4>2, <4>3
    <3>5. QED BY <3>2, <3>3, <3>4
  <2>2. \A o : InRing(o)' => Used(ring', o)
    BY DEF InRing, Used
  <2>3. QED BY <1>1, <2>1, <2>2 DEF ContextBufferIdle
<1>7. CommandUses'
  <2>1. ASSUME NEW d \in Contexts, NEW o \in cmds'[d]
        PROVE  Guarded(d, o)' /\ o \in VidMem \union {CmdBufs(d)}
    <3>1. d # c /\ o \in cmds[d] /\ Guarded(d, o) /\ o \in Objects /\ o \in VidMem \union {CmdBufs(d)}
      BY <1>1, <2>1 DEF UseInv, CommandUses, TypeOK
    <3>2. ~Has(queue[c], "free", o)
      BY <3>1 DEF Guarded
    <3>3. ~Has(queue'[c], "free", o)
      <4>1. o # ctx_bo[c]
        BY <3>1, ObjectFacts DEF TypeOK
      <4>2. ~Is(Free(ctx_bo[c]), "free", o)
        BY <4>1 DEF Is, Free
      <4>3. QED BY <1>2, <4>2, OneEvent, EmptyList
    <3>4. Guarded(d, o)'
      BY <1>1, <1>2, <1>3, <1>4, <3>1, <3>2, <3>3, StillGuarded DEF Guarded
    <3>5. QED BY <3>1, <3>4
  <2>2. \A d \in Contexts : d \notin alive' => cmds'[d] = {}
    BY <1>1 DEF UseInv, CommandUses
  <2>3. QED BY <2>1, <2>2 DEF CommandUses
<1>8. LastContexts'
  BY <1>1 DEF UseInv, LastContexts
<1>9. QED BY <1>5, <1>6, <1>7, <1>8 DEF UseInv
LEMMA WorkRest ==
  ASSUME TypeOK, UseInv, work # << >>, work' = Tail(work)
  PROVE  /\ \A c \in Contexts : \A o \in cmds[c] : \A i \in DOMAIN work' :
              work'[i].obj = o => work'[i].via = c
         /\ \A c \in Contexts : \A o \in cmds[c] : Head(work).obj = o => Head(work).via = c
<1>1. /\ \A i \in DOMAIN Tail(work) : i + 1 \in DOMAIN work /\ Tail(work)[i] = work[i + 1]
      /\ 1 \in DOMAIN work /\ Head(work) = work[1]
  BY Rest DEF TypeOK
<1>2. QED BY <1>1, GuardedWork

\* A refused flush drops events; its commit, if it got through, is in the ring.
LEMMA SafeRefusal ==
  ASSUME TypeOK, MemoryInv, UseInv, NEW c \in Contexts, FlushRefused(c) \/ FlushHalfway(c)
  PROVE  UseInv'
<1> USE DEF resourceVars
<1>1. /\ UNCHANGED << mem, exists, last_ctx, bound, alive, cmds, ctx_bo >>
      /\ MayFlush(c) /\ c \in alive /\ AfterRefusal(c)
      /\ \/ ring' = ring /\ halfway' = halfway
         \/ ring' = Append(ring, Run(Uses(c))) /\ halfway' = halfway \union {c}
  BY DEF FlushRefused, FlushHalfway, MayFlush
<1>2. queue'[c] = << >> /\ \A d \in Contexts : d # c => queue'[d] = queue[d]
  BY <1>1 DEF AfterRefusal, TypeOK
<1>3. work' = work \/ (work # << >> /\ work' = Tail(work))
  BY <1>1 DEF AfterRefusal, Idle
<1>4. ring' = ring \/ ring' = ring \o << Run(Uses(c)) >>
  <2>1. ring \in Seq(Items) /\ Run(Uses(c)) \in Items
    BY RingTypes, EventTypes
  <2>2. Append(ring, Run(Uses(c))) = ring \o << Run(Uses(c)) >>
    BY <2>1, AppendIsConcat
  <2>3. QED BY <1>1, <2>2
<1>5. \A o : /\ Used(ring', o) => Used(ring, o) \/ (o \in Uses(c) /\ halfway' = halfway \union {c})
             /\ Has(ring', "free", o) => Has(ring, "free", o)
             /\ Ahead(ring, o) /\ (o \in Uses(c) => ~Has(ring, "free", o)) => Ahead(ring', o)
  <2>1. CASE ring' = ring
    BY <2>1
  <2>2. CASE ring' # ring
    <3>1. ring' = ring \o << Run(Uses(c)) >> /\ halfway' = halfway \union {c}
      BY <1>1, <1>4, <2>2
    <3>2. QED BY <3>1, RunSent
  <2>3. QED BY <2>1, <2>2
<1>6. RingUses'
  <2>1. ASSUME NEW o \in Objects PROVE Ahead(ring', o) /\ (Used(ring', o) => mem'[o] # "none")
    <3>1. o \in Uses(c) => mem[o] # "none" /\ ~Has(ring, "free", o)
      BY <1>1, UsesAllocated
    <3>2. QED BY <1>1, <1>5, <3>1 DEF UseInv, RingUses
  <2>2. QED BY <2>1 DEF RingUses
<1>7. ContextBufferIdle'
  <2>1. ASSUME NEW d \in alive \ halfway' PROVE ~Used(ring', ctx_bo[d])
    <3>1. ~Used(ring, ctx_bo[d]) /\ d \notin halfway
      BY <1>1, <2>1, UsedInRing DEF UseInv, ContextBufferIdle
    <3>2. ASSUME halfway' = halfway \union {c} PROVE ctx_bo[d] \notin Uses(c)
      BY <1>1, <2>1, <3>2, OtherBuffers
    <3>3. QED BY <1>5, <3>1, <3>2
  <2>2. \A o : InRing(o)' => Used(ring', o)
    BY DEF InRing, Used
  <2>3. QED BY <1>1, <2>1, <2>2 DEF ContextBufferIdle
<1>8. CommandUses'
  <2>1. \A o : \A d \in Contexts : Has(queue'[d], "free", o) => Has(queue[d], "free", o)
    BY <1>2, EmptyList
  <2>2. \A d \in Contexts : \A o \in cmds[d] : \A i \in DOMAIN work' : work'[i].obj = o => work'[i].via = d
    BY <1>3, GuardedWork, WorkRest
  <2>3. QED BY <1>1, <1>5, <2>1, <2>2, SameCommands DEF Allocated
<1>9. LastContexts'
  BY <1>1 DEF UseInv, LastContexts
<1>10. QED BY <1>6, <1>7, <1>8, <1>9 DEF UseInv

-----------------------------------------------------------------------------
(* A deletion goes on: its free goes behind the commands of its context. *)

LEMMA SafeUnlock ==
  ASSUME TypeOK, MemoryInv, UseInv, SyncUnlock \/ SyncUnlockFails
  PROVE  UseInv'
<1> USE DEF resourceVars
<1>1. /\ UNCHANGED << exists, last_ctx, bound, alive, cmds, queue, ctx_bo, ring, halfway >>
      /\ work # << >> /\ Head(work).op = "sync"
      /\ work' = Tail(work) \/ work' = << Step("unlock", Head(work).obj, Head(work).via) >> \o Tail(work)
      /\ \/ mem' = mem
         \/ \E m \in {"unlocking", "unlocked"} : mem' = [mem EXCEPT ![Head(work).obj] = m]
  BY DEF SyncUnlock, SyncUnlockFails, NextStep
<1>2. Allocated
  BY <1>1, HeadType DEF Allocated, TypeOK
<1>3. RingUses' /\ ContextBufferIdle'
  BY <1>1, <1>2, NothingSent
<1>4. \A c \in Contexts : \A o \in cmds[c] : \A i \in DOMAIN work' : work'[i].obj = o => work'[i].via = c
  <2>1. CASE work' = Tail(work)
    BY <1>1, <2>1, WorkRest
  <2>2. CASE work' = << Step("unlock", Head(work).obj, Head(work).via) >> \o Tail(work)
    <3>1. Step("unlock", Head(work).obj, Head(work).via) \in Steps
      BY <1>1, HeadType DEF Step, Steps
    <3>2. work \in Seq(Steps) /\ Shape(work)
      BY DEF TypeOK, MemoryInv
    <3>3. \A e \in Steps : \A u :
            e = Step("unlock", Head(work).obj, Head(work).via) /\ u = << e >> \o Tail(work) =>
              \A i \in DOMAIN u : i \in DOMAIN work /\ u[i].obj = work[i].obj /\ u[i].via = work[i].via
      BY <1>1, <3>2, ReplacedHead
    <3>4. \A i \in DOMAIN work' : i \in DOMAIN work /\ work'[i].obj = work[i].obj /\ work'[i].via = work[i].via
      BY <2>2, <3>1, <3>3
    <3>5. QED BY <3>4, GuardedWork
  <2>3. QED BY <1>1, <2>1, <2>2
<1>5. CommandUses'
  BY <1>1, <1>2, <1>4, SameCommands
<1>6. LastContexts'
  BY <1>1 DEF UseInv, LastContexts
<1>7. QED BY <1>3, <1>5, <1>6 DEF UseInv

LEMMA SafeQueueStep ==
  ASSUME TypeOK, UseInv, QueueStep
  PROVE  UseInv'
<1> USE DEF resourceVars
<1> DEFINE v == Head(work).via
           e == EventOf(Head(work))
<1>1. /\ UNCHANGED << mem, exists, last_ctx, bound, alive, cmds, ctx_bo, ring, halfway >>
      /\ work # << >> /\ work' = Tail(work) /\ v \in Contexts
      /\ queue'[v] = Append(queue[v], e) /\ \A d \in Contexts : d # v => queue'[d] = queue[d]
      /\ Head(work) \in Steps /\ Head(work).op # "sync"
  BY HeadType DEF QueueStep, NextStep, TypeOK
<1>2. e \in Events /\ e.obj = Head(work).obj
  BY <1>1, EventTypes DEF EventOf
<1>3. \A o : Has(queue'[v], "free", o) => Has(queue[v], "free", o) \/ o = Head(work).obj
  <2>1. queue[v] \in Seq(Events) /\ << e >> \in Seq(Events)
    BY <1>1, <1>2 DEF TypeOK
  <2>2. Append(queue[v], e) = queue[v] \o << e >>
    BY <1>2, <2>1, AppendIsConcat
  <2>3. \A o : Has(<< e >>, "free", o) => o = Head(work).obj
    BY <1>2, OneEvent DEF Is
  <2>4. \A x \in Seq(Events) :
          \A o : Has(queue[v] \o x, "free", o) <=> Has(queue[v], "free", o) \/ Has(x, "free", o)
    BY <2>1, HasConcat
  <2>5. \A o : Has(queue[v] \o << e >>, "free", o) <=> Has(queue[v], "free", o) \/ Has(<< e >>, "free", o)
    BY <2>1, <2>4, Zenon
  <2>6. queue'[v] = queue[v] \o << e >>
    BY <1>1, <2>2
  <2> HIDE DEF v, e
  <2>7. QED BY <2>3, <2>5, <2>6
<1> HIDE DEF v, e
<1>4. Allocated
  BY <1>1 DEF Allocated
<1>5. RingUses' /\ ContextBufferIdle'
  BY <1>1, <1>4, NothingSent
<1>6. CommandUses'
  <2>1. ASSUME NEW c \in Contexts, NEW o \in cmds[c]
        PROVE  Guarded(c, o)' /\ o \in VidMem \union {CmdBufs(c)} /\ c \in alive'
    <3>1. Guarded(c, o) /\ o \in VidMem \union {CmdBufs(c)} /\ c \in alive
      BY DEF UseInv, CommandUses
    <3>2. \A i \in DOMAIN work' : work'[i].obj = o => work'[i].via = c
      BY <1>1, WorkRest
    <3>3. o = Head(work).obj => v = c
      BY <1>1, WorkRest DEF v
    <3>4. \A d \in Contexts : Has(queue'[d], "free", o) => d = c
      BY <1>1, <1>3, <3>1, <3>3 DEF Guarded
    <3>5. QED BY <1>1, <3>1, <3>2, <3>4 DEF Guarded
  <2>2. QED BY <1>1, <2>1 DEF CommandUses
<1>7. LastContexts'
  BY <1>1 DEF UseInv, LastContexts
<1>8. QED BY <1>5, <1>6, <1>7 DEF UseInv

LEMMA SafeDirectStep ==
  ASSUME TypeOK, UseInv, DirectStep \/ DirectStepFails
  PROVE  UseInv'
<1> USE DEF resourceVars
<1> DEFINE e == EventOf(Head(work))
<1>1. /\ UNCHANGED << mem, exists, last_ctx, bound, alive, cmds, queue, ctx_bo, halfway >>
      /\ work # << >> /\ work' = Tail(work) /\ Head(work).via \notin Contexts
      /\ ring' = ring \/ ring' = Append(ring, e)
      /\ Head(work) \in Steps /\ Head(work).op # "sync"
  BY HeadType, NamesAssumption DEF DirectStep, DirectStepFails, NextStep
<1>2. e \in Events /\ e.obj = Head(work).obj
  BY <1>1, EventTypes DEF EventOf
<1>3. \A o : /\ Used(ring', o) => Used(ring, o)
             /\ Ahead(ring, o) => Ahead(ring', o)
             /\ Has(ring', "free", o) => Has(ring, "free", o) \/ o = Head(work).obj
  <2>1. ring \in Seq(Items) /\ << e >> \in Seq(Events) /\ << e >> \in Seq(Items) /\ e \in Items
    BY <1>2, EventTypes DEF TypeOK, Items, Runs
  <2>2. Append(ring, e) = ring \o << e >>
    BY <2>1, AppendIsConcat
  <2>3. \A o : Has(<< e >>, "free", o) => o = Head(work).obj
    BY <1>2, OneEvent DEF Is
  <2>4. \A x \in Seq(Events) : x \in Seq(Items) =>
          \A o : /\ Used(ring \o x, o) <=> Used(ring, o)
                 /\ Ahead(ring, o) => Ahead(ring \o x, o)
                 /\ Has(ring \o x, "free", o) <=> Has(ring, "free", o) \/ Has(x, "free", o)
    BY <2>1, EventsSent, HasConcat
  <2>5. \A o : /\ Used(ring \o << e >>, o) <=> Used(ring, o)
               /\ Ahead(ring, o) => Ahead(ring \o << e >>, o)
               /\ Has(ring \o << e >>, "free", o) <=> Has(ring, "free", o) \/ Has(<< e >>, "free", o)
    BY <2>1, <2>4, Zenon
  <2>6. ring' = ring \/ ring' = ring \o << e >>
    BY <1>1, <2>2
  <2> HIDE DEF e
  <2>7. QED BY <2>3, <2>5, <2>6
<1> HIDE DEF e
<1>4. RingUses' /\ ContextBufferIdle'
  <2>1. RingUses'
    BY <1>1, <1>3 DEF UseInv, RingUses
  <2>2. \A o : InRing(o)' => InRing(o)
    BY <1>3, UsedInRing DEF InRing, Used
  <2>3. QED BY <1>1, <2>1, <2>2 DEF UseInv, ContextBufferIdle
<1>5. CommandUses'
  <2>1. ASSUME NEW c \in Contexts, NEW o \in cmds[c]
        PROVE  Guarded(c, o)' /\ o \in VidMem \union {CmdBufs(c)} /\ c \in alive'
    <3>1. Guarded(c, o) /\ o \in VidMem \union {CmdBufs(c)} /\ c \in alive
      BY <1>1 DEF UseInv, CommandUses
    <3>2. \A i \in DOMAIN work' : work'[i].obj = o => work'[i].via = c
      BY <1>1, WorkRest
    <3>3. o # Head(work).obj
      BY <1>1, WorkRest
    <3>4. QED BY <1>1, <1>3, <3>1, <3>2, <3>3 DEF Guarded
  <2>2. QED BY <1>1, <2>1 DEF CommandUses
<1>6. LastContexts'
  BY <1>1 DEF UseInv, LastContexts
<1>7. QED BY <1>4, <1>5, <1>6 DEF UseInv

-----------------------------------------------------------------------------
(* The end of a context, and of an object. *)

\* Its commands have run: etna_finish has returned.
LEMMA SafeDestroyContext ==
  ASSUME Careful, TypeOK, UseInv, NEW c \in Contexts, DestroyContext(c)
  PROVE  UseInv'
<1>1. /\ UNCHANGED << exists, last_ctx, bound, ctx_bo, ring, work, halfway >>
      /\ alive' = alive \ {c} /\ cmds[c] = {} /\ cmds' = cmds
      /\ ~InRing(CmdBufs(c)) /\ ~InRing(ctx_bo[c])
      /\ queue'[c] = << >> /\ \A d \in Contexts : d # c => queue'[d] = queue[d]
      /\ \A o \in Objects : o # CmdBufs(c) /\ o # ctx_bo[c] => mem'[o] = mem[o]
  BY DEF DestroyContext, Careful, TypeOK
<1>2. RingUses'
  <2>1. ASSUME NEW o \in Objects, Used(ring, o) PROVE mem'[o] # "none"
    <3>1. o # CmdBufs(c) /\ o # ctx_bo[c]
      BY <1>1, <2>1, UsedInRing
    <3>2. QED BY <1>1, <2>1, <3>1 DEF UseInv, RingUses
  <2>2. QED BY <1>1, <2>1 DEF UseInv, RingUses
<1>3. ContextBufferIdle'
  BY <1>1 DEF UseInv, ContextBufferIdle, InRing
<1>4. CommandUses'
  <2>1. ASSUME NEW d \in Contexts, NEW o \in cmds[d] PROVE Guarded(d, o)'
    <3>1. Guarded(d, o) /\ o \in Objects /\ o \in VidMem \union {CmdBufs(d)} /\ d # c
      BY <1>1, <2>1 DEF UseInv, CommandUses, TypeOK
    <3>2. o # CmdBufs(c) /\ o # ctx_bo[c]
      BY <3>1, Distinct, ObjectFacts DEF TypeOK
    <3>3. \A e \in Contexts : Has(queue'[e], "free", o) => Has(queue[e], "free", o)
      BY <1>1, EmptyList
    <3>4. QED BY <1>1, <3>1, <3>2, <3>3 DEF Guarded
  <2>2. QED BY <1>1, <2>1 DEF UseInv, CommandUses
<1>5. LastContexts'
  BY <1>1 DEF UseInv, LastContexts
<1>6. QED BY <1>2, <1>3, <1>4, <1>5 DEF UseInv

LEMMA SafeGpu ==
  ASSUME TypeOK, MemoryInv, UseInv, GpuExecute
  PROVE  UseInv'
<1> USE DEF resourceVars
<1> DEFINE e == Head(ring)
<1>1. /\ UNCHANGED << exists, last_ctx, bound, alive, cmds, queue, ctx_bo, work, halfway >>
      /\ ring # << >> /\ ring' = Tail(ring)
      /\ mem' = IF e.op = "run" THEN mem ELSE [mem EXCEPT ![e.obj] = AfterEvent(e)]
  BY DEF GpuExecute
<1>2. /\ ring \in Seq(Items)
      /\ e.op # "run" => e.obj \in Objects
      /\ \A o : Has(ring', "free", o) => Has(ring, "free", o)
      /\ \A o : Is(e, "free", o) => Has(ring, "free", o)
  BY <1>1, RingTail
<1>3. \A o : Ahead(ring, o) =>
        /\ Used(ring', o) => Used(ring, o)
        /\ Ahead(ring', o)
        /\ Is(e, "free", o) => ~Used(ring, o)
  BY <1>1, <1>2, UsedTail
\* Memory goes by a free only.
<1>4. \A o \in Objects : mem[o] # "none" /\ ~Is(e, "free", o) => mem'[o] # "none"
  BY <1>1, <1>2 DEF AfterEvent, Is, TypeOK
<1> HIDE DEF e
<1>5. RingUses'
  BY <1>3, <1>4 DEF UseInv, RingUses
<1>6. ContextBufferIdle'
  <2>1. ASSUME NEW c \in alive \ halfway PROVE ~Used(ring', ctx_bo[c])
    <3>1. ctx_bo[c] \in Objects /\ ~Used(ring, ctx_bo[c])
      BY UsedInRing, ObjectFacts DEF UseInv, ContextBufferIdle, TypeOK
    <3>2. QED BY <1>3, <3>1 DEF UseInv, RingUses
  <2>2. \A o : InRing(o)' => Used(ring', o)
    BY DEF InRing, Used
  <2>3. QED BY <1>1, <2>1, <2>2 DEF ContextBufferIdle
<1>7. CommandUses'
  <2>1. ASSUME NEW c \in Contexts, NEW o \in cmds[c] PROVE Guarded(c, o)'
    <3>1. Guarded(c, o) /\ o \in Objects
      BY DEF UseInv, CommandUses, TypeOK
    <3>2. mem'[o] # "none"
      BY <1>2, <1>4, <3>1 DEF Guarded
    <3>3. QED BY <1>1, <1>2, <3>1, <3>2 DEF Guarded
  <2>2. QED BY <1>1, <2>1 DEF UseInv, CommandUses
<1>8. LastContexts'
  BY <1>1 DEF UseInv, LastContexts
<1>9. QED BY <1>5, <1>6, <1>7, <1>8 DEF UseInv

LEMMA UsePreserved == ASSUME Careful, TypeOK, MemoryInv, UseInv, [Next]_vars PROVE UseInv'
<1>1. CASE Application
  BY <1>1, SafeCreate, SafeDestroy, SafeUse, SafeDraw, SafeDestroyContext DEF Application
<1>2. CASE Flush
  BY <1>2, SafeFlushCommands, SafeFlushEvents, SafeRefusal DEF Flush
<1>3. CASE Delete
  BY <1>3, SafeUnlock, SafeQueueStep, SafeDirectStep DEF Delete
<1>4. CASE UNCHANGED vars
  <2>1. UNCHANGED << mem, exists, last_ctx, bound, alive, cmds, queue, ctx_bo, ring, work, halfway >>
    BY <1>4 DEF vars
  <2>2. \A c \in Contexts : \A o \in cmds[c] : Guarded(c, o)'
    BY <2>1 DEF UseInv, CommandUses, Guarded
  <2>3. CommandUses'
    BY <2>1, <2>2 DEF UseInv, CommandUses
  <2>4. RingUses' /\ ContextBufferIdle'
    BY <2>1, NothingSent DEF Allocated
  <2>5. LastContexts'
    BY <2>1 DEF UseInv, LastContexts
  <2>6. QED BY <2>3, <2>4, <2>5 DEF UseInv
<1>5. QED BY <1>1, <1>2, <1>3, <1>4, SafeGpu DEF Next

\* Where every resource has one context, nothing that commands use, committed or
\* not, is freed before they have run, whichever calls fail.
THEOREM NoEarlyFree == Careful /\ Spec => []NoUseAfterFree
<1>1. Init => TypeOK /\ MemoryInv /\ UseInv
  BY TypeInit, MemoryInit, UseInit
<1>2. Careful /\ TypeOK /\ MemoryInv /\ UseInv /\ [Next]_vars => TypeOK' /\ MemoryInv' /\ UseInv'
  BY TypePreserved, MemoryPreserved, UsePreserved
<1>3. TypeOK /\ UseInv => NoUseAfterFree
  <2>1. SUFFICES ASSUME TypeOK, UseInv, NEW o \in Objects,
                        InRing(o) \/ \E c \in alive : o \in cmds[c]
                 PROVE  mem[o] # "none"
    BY DEF NoUseAfterFree
  <2>2. CASE InRing(o)
    BY <2>1, <2>2, UsedInRing DEF UseInv, RingUses
  <2>3. CASE \E c \in alive : o \in cmds[c]
    BY <2>1, <2>3 DEF UseInv, CommandUses, Guarded, TypeOK
  <2>4. QED BY <2>1, <2>2, <2>3
<1>4. CASE Careful
  BY <1>1, <1>2, <1>3, <1>4, PTL DEF Spec
<1>5. CASE ~Careful
  BY <1>5
<1>6. QED BY <1>4, <1>5

\* There, too, no context builds commands in a context buffer the GPU has yet to
\* read, unless one of its commits went through only half.
THEOREM ContextBufferKept == Careful /\ Spec => []ContextBufferIdle
<1>1. Init => TypeOK /\ MemoryInv /\ UseInv
  BY TypeInit, MemoryInit, UseInit
<1>2. Careful /\ TypeOK /\ MemoryInv /\ UseInv /\ [Next]_vars => TypeOK' /\ MemoryInv' /\ UseInv'
  BY TypePreserved, MemoryPreserved, UsePreserved
<1>3. UseInv => ContextBufferIdle
  BY DEF UseInv
<1>4. CASE Careful
  BY <1>1, <1>2, <1>3, <1>4, PTL DEF Spec
<1>5. CASE ~Careful
  BY <1>5
<1>6. QED BY <1>4, <1>5

=============================================================================
