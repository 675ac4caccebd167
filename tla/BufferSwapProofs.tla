--------------------------- MODULE BufferSwapProofs ---------------------------
(***************************************************************************)
(* Proofs about BufferSwap: for two and for three buffers, any number of   *)
(* frames, and whichever calls fail, no release is lost, no buffer is      *)
(* queued twice, and neither thread waits for what will not come.          *)
(*                                                                         *)
(* Until the buffers are freed, the available buffers are a stretch of the *)
(* circle that the client eats from the front and the display thread       *)
(* extends at the back, and the copies on their way to the screen are the  *)
(* stretch before it.  The two cannot meet, because at each moment every   *)
(* buffer is accounted for once at most: available, with the client, with  *)
(* the GPU, ready, or with the display thread.                             *)
(***************************************************************************)
EXTENDS BufferSwap, FiniteSetTheorems, SequenceTheorems, TLAPS

-----------------------------------------------------------------------------
(* The inductive invariant. *)

\* Where the threads are agrees with whether the buffers are being freed.
Stages ==
  /\ terminate <=> client \in {"signal", "join", "freed"}
  /\ client \in {"idle", "wait", "copy"} => signalled = 0
  /\ client = "signal" => signalled < NumBuffers
  /\ client = "join" => signalled = NumBuffers

\* The display thread at a buffer will find it ready: the buffer is, or is with the
\* client or the GPU, or the client is still to take it; or it is signalled by
\* etna_bswap_free.
Owed ==
  \/ ready[cur] \/ is_available[cur] \/ (client = "copy" /\ backbuffer = cur)
  \/ \E i \in DOMAIN ring : ring[i].buf = cur
Awaited ==
  /\ ~failed => unsent = << >> /\ \A i \in DOMAIN ring : ring[i].signals
  /\ display \in {"loop", "wait"} /\ ~terminate /\ ~failed => Owed
  /\ display = "wait" /\ terminate => ready[cur] \/ cur >= signalled

\* The next buffer the display thread gives back.
NextReleased == IF display = "release" THEN cur ELSE NextBuffer(cur)

\* Number of buffers whose ready signal is set, of those with the display thread.
NumReady == Cardinality({b \in Buffers : ready[b]})
NumShown == IF display \in {"show", "release"} THEN 1 ELSE 0

\* The last copy handed to the GPU may be one whose signal was not queued.
Mute == ring # << >> /\ ~ring[Len(ring)].signals
NumSignalling == IF Mute THEN Len(ring) - 1 ELSE Len(ring)

\* The buffer n steps on, for n up to NumBuffers; steps from a buffer to another:
\* 0 to NumBuffers - 1, 1 to NumBuffers.
Walk(a, n) == IF a + n < NumBuffers THEN a + n ELSE a + n - NumBuffers
Ahead(a, b) == IF b >= a THEN b - a ELSE b - a + NumBuffers
Back(a, b) == IF b < a THEN a - b ELSE a - b + NumBuffers

\* The buffer the client claims next, if it has taken "taken" from backbuffer on.
Claim(taken) == IF taken = 0 THEN backbuffer ELSE NextBuffer(backbuffer)

\* "free" buffers are available, from that one on; the display thread gives back
\* the one behind them next.
Available(taken, free) ==
  \A b \in Buffers : is_available[b] <=> Ahead(Claim(taken), b) < free
GivesBack(taken, free) ==
  NextReleased = Walk(Claim(taken), free)

\* No buffer is in two places.
Counted(taken, free) ==
  free + taken + NumSignalling + NumReady + NumShown <= NumBuffers

\* The copies handed over are the last ones the client made.
CopiesInOrder ==
  /\ \A i \in 1 .. NumSignalling :
       ring[i].signals /\ Back(backbuffer, ring[i].buf) = NumSignalling - i + 1
  /\ Mute => ring[Len(ring)].buf = backbuffer

\* "taken" is 1 while the client has a buffer: for ever, if queueing its swap failed.
Taken(taken) ==
  /\ Mute \/ client = "copy" \/ unsent # << >> => taken = 1
  /\ Mute \/ unsent # << >> => client \in {"idle", "wait"}
  /\ unsent # << >> => unsent = << Copy(backbuffer, FALSE) >> /\ ~Mute
  /\ ~failed /\ taken = 1 => client = "copy"

Layout(taken, free) ==
  Available(taken, free) /\ GivesBack(taken, free) /\ Counted(taken, free)
    /\ CopiesInOrder /\ Taken(taken)

Accounted == ~terminate => \E taken \in 0 .. 1, free \in 0 .. NumBuffers : Layout(taken, free)

IInv == TypeOK /\ Stages /\ Awaited /\ Accounted

-----------------------------------------------------------------------------
(* Type correctness. *)

LEMMA BuffersFinite ==
  /\ NumBuffers \in {2, 3}
  /\ IsFiniteSet(Buffers)
  /\ \A b \in Buffers : NextBuffer(b) = IF b + 1 < NumBuffers THEN b + 1 ELSE 0
  /\ \A b \in Buffers : NextBuffer(b) \in Buffers
<1>1. NumBuffers \in {2, 3}
  BY BuffersAssumption
<1>2. IsFiniteSet(Buffers)
  BY <1>1, FS_Interval DEF Buffers
<1>3. ASSUME NEW b \in Buffers
      PROVE  NextBuffer(b) = IF b + 1 < NumBuffers THEN b + 1 ELSE 0
  BY <1>1 DEF NextBuffer, Buffers
<1>4. QED BY <1>1, <1>2, <1>3 DEF Buffers

LEMMA TypeInit == Init => TypeOK /\ Stages
  BY BuffersFinite DEF Init, TypeOK, Stages, Buffers

LEMMA TypePreserved == TypeOK /\ Stages /\ [Next]_vars => TypeOK' /\ Stages'
<1> SUFFICES ASSUME TypeOK, Stages, [Next]_vars PROVE TypeOK' /\ Stages'
  OBVIOUS
<1> USE BuffersFinite DEF TypeOK, Stages, Copy
<1>1. CASE Client
  <2>1. CASE SwapBuffers
    <3>1. ring \o unsent \in Seq([buf : Buffers, signals : BOOLEAN])
      BY ConcatProperties
    <3>2. << >> \in Seq([buf : Buffers, signals : BOOLEAN])
      OBVIOUS
    <3>3. ring' \in Seq([buf : Buffers, signals : BOOLEAN])
          /\ unsent' \in Seq([buf : Buffers, signals : BOOLEAN])
      BY <2>1, <3>1, <3>2, Zenon DEF SwapBuffers
    <3>4. QED BY <2>1, <3>3 DEF SwapBuffers
  <2>2. CASE WaitAvailable BY <2>2 DEF WaitAvailable
  <2>3. CASE QueueSwap BY <2>3 DEF QueueSwap
  <2>4. CASE QueueSwapFails BY <2>4 DEF QueueSwapFails
  <2>5. QED BY <1>1, <2>1, <2>2, <2>3, <2>4 DEF Client
<1>2. CASE Free
  BY <1>2 DEF Free
<1>3. CASE Freeing
  <2>1. CASE FreeSignal
    <3>1. terminate' /\ client' \in {"signal", "join"}
      BY <2>1 DEF FreeSignal
    <3>2. signalled' \in 0 .. NumBuffers /\ (client' = "signal" => signalled' < NumBuffers)
      BY <2>1 DEF FreeSignal
    <3>3. QED BY <2>1, <3>1, <3>2 DEF FreeSignal
  <2>2. CASE FreeJoin BY <2>2 DEF FreeJoin
  <2>3. QED BY <1>3, <2>1, <2>2 DEF Freeing
<1>4. CASE Display
  <2>1. CASE DisplayLoop BY <2>1 DEF DisplayLoop
  <2>2. CASE DisplayReady BY <2>2 DEF DisplayReady
  <2>3. CASE DisplayShow BY <2>3 DEF DisplayShow
  <2>4. CASE DisplayRelease BY <2>4 DEF DisplayRelease
  <2>5. QED BY <1>4, <2>1, <2>2, <2>3, <2>4 DEF Display
<1>5. CASE DisplayWaitFails
  BY <1>5 DEF DisplayWaitFails
<1>6. CASE Gpu
  <2>1. Head(ring) \in [buf : Buffers, signals : BOOLEAN]
    BY <1>6, HeadTailProperties DEF Gpu
  <2>2. Tail(ring) \in Seq([buf : Buffers, signals : BOOLEAN])
    BY <1>6, HeadTailProperties DEF Gpu
  <2>3. QED BY <1>6, <2>1, <2>2 DEF Gpu
<1>7. CASE UNCHANGED vars
  BY <1>7 DEF vars
<1>8. QED BY <1>1, <1>2, <1>3, <1>4, <1>5, <1>6, <1>7 DEF Next

\* Every reachable state is well typed.
THEOREM TypeCorrect == Spec => []TypeOK
<1>1. Init => TypeOK /\ Stages
  BY TypeInit
<1>2. TypeOK /\ Stages /\ [Next]_vars => (TypeOK /\ Stages)'
  BY TypePreserved
<1>3. QED BY <1>1, <1>2, PTL DEF Spec

-----------------------------------------------------------------------------
(* The display thread does not wait for what never comes. *)

LEMMA AwaitedInit == Init => Awaited
  BY BuffersAssumption DEF Init, Awaited, Owed, Buffers

LEMMA AwaitedPreserved == TypeOK /\ Stages /\ Awaited /\ [Next]_vars => Awaited'
<1> SUFFICES ASSUME TypeOK, Stages, Awaited, [Next]_vars PROVE Awaited'
  OBVIOUS
<1> DEFINE Copies == [buf : Buffers, signals : BOOLEAN]
<1>1. /\ ring \in Seq(Copies) /\ unsent \in Seq(Copies) /\ DOMAIN ring = 1 .. Len(ring) /\ Len(ring) \in Nat
      /\ ready \in [Buffers -> BOOLEAN] /\ is_available \in [Buffers -> BOOLEAN]
      /\ cur \in Buffers /\ backbuffer \in Buffers
  BY LenProperties DEF TypeOK
\* Only the flags of the buffers and the two threads matter, if the ring stays.
<1>2. ASSUME UNCHANGED << ring, unsent, cur, signalled, terminate >>,
             failed => failed', Owed /\ ~terminate => Owed',
             display' \in {"loop", "wait"} => display \in {"loop", "wait"},
             display' = "wait" /\ terminate => display = "wait" /\ ready' = ready
      PROVE  Awaited'
  BY <1>2 DEF Awaited
<1>3. CASE SwapBuffers
  <2>1. CASE UNCHANGED << ring, unsent >>
    BY <1>2, <1>3, <2>1 DEF SwapBuffers, Owed
  <2>2. CASE ring' = ring \o unsent /\ unsent' = << >>
    <3>1. CASE ~failed
      <4>1. unsent = << >> /\ ring' = ring
        BY <1>1, <2>2, <3>1, ConcatEmptySeq DEF Awaited
      <4>2. QED BY <1>2, <1>3, <2>2, <4>1 DEF SwapBuffers, Owed
    <3>2. CASE failed
      BY <1>3, <3>2 DEF SwapBuffers, Awaited
    <3>3. QED BY <3>1, <3>2
  <2>3. QED BY <1>3, <2>1, <2>2 DEF SwapBuffers
<1>4. CASE WaitAvailable
  <2>1. Owed => Owed'
    BY <1>1, <1>4 DEF WaitAvailable, Owed
  <2>2. QED BY <1>2, <1>4, <2>1 DEF WaitAvailable
<1>5. CASE QueueSwap
  <2>1. CASE failed
    BY <1>5, <2>1 DEF QueueSwap, Stages, Awaited
  <2>2. CASE ~failed
    <3> DEFINE copy == Copy(backbuffer, TRUE)
    <3>1. copy \in Copies /\ copy.signals /\ copy.buf = backbuffer
      BY <1>1 DEF Copy
    <3> HIDE DEF copy
    <3>2. ring' = ring \o << copy >> /\ unsent' = << >>
      BY <1>1, <1>5, <2>2, ConcatEmptySeq DEF QueueSwap, Awaited, copy
    <3>3. /\ DOMAIN ring' = 1 .. Len(ring) + 1 /\ ring'[Len(ring) + 1] = copy
          /\ \A i \in 1 .. Len(ring) : ring'[i] = ring[i]
      BY <1>1, <3>1, <3>2
    <3>4. \A i \in DOMAIN ring' : ring'[i].signals
      BY <1>1, <2>2, <3>1, <3>3 DEF Awaited
    <3>5. Owed => Owed'
      <4>1. UNCHANGED << ready, is_available, cur >>
        BY <1>5 DEF QueueSwap
      <4>2. CASE backbuffer = cur
        <5>1. Len(ring) + 1 \in DOMAIN ring' /\ ring'[Len(ring) + 1].buf = cur
          BY <1>1, <3>1, <3>3, <4>2
        <5>2. QED BY <4>1, <5>1 DEF Owed
      <4>3. CASE backbuffer # cur
        <5>1. \A i \in DOMAIN ring : i \in DOMAIN ring' /\ ring'[i] = ring[i]
          BY <1>1, <3>3
        <5>2. client = "copy" => backbuffer # cur
          BY <4>3
        <5>3. QED BY <4>1, <5>1, <5>2 DEF Owed
      <4>4. QED BY <4>2, <4>3
    <3>6. QED BY <1>5, <3>2, <3>4, <3>5 DEF QueueSwap, Awaited, Stages
  <2>3. QED BY <2>1, <2>2
<1>6. CASE QueueSwapFails
  BY <1>6 DEF QueueSwapFails, Awaited, Stages
<1>7. CASE Free
  BY <1>1, <1>7 DEF Free, Awaited, Stages, Buffers
<1>8. CASE FreeSignal
  <2>1. terminate /\ signalled \in Buffers /\ signalled' = signalled + 1
        /\ ready' = [ready EXCEPT ![signalled] = TRUE]
    BY <1>8, BuffersAssumption DEF FreeSignal, Stages, TypeOK, Buffers
  <2>2. ready[cur] \/ cur >= signalled => ready'[cur] \/ cur >= signalled'
    BY <1>1, <2>1 DEF Buffers
  <2>3. QED BY <1>8, <2>1, <2>2 DEF FreeSignal, Awaited
<1>9. CASE FreeJoin
  BY <1>2, <1>9 DEF FreeJoin, Stages
<1>10. CASE DisplayLoop
  BY <1>2, <1>10 DEF DisplayLoop, Owed
<1>11. CASE DisplayReady
  BY <1>11 DEF DisplayReady, Awaited
<1>12. CASE DisplayWaitFails
  BY <1>12 DEF DisplayWaitFails, Awaited
<1>13. CASE DisplayShow
  BY <1>13 DEF DisplayShow, Awaited
\* The buffer it gives back is the one it waits for next.
<1>14. CASE DisplayRelease
  BY <1>1, <1>14 DEF DisplayRelease, Awaited, Owed
<1>15. CASE Gpu
  <2>1. ring # << >> /\ ring' = Tail(ring) /\ Len(ring) > 0
    BY <1>1, <1>15 DEF Gpu
  <2>2. /\ DOMAIN ring' = 1 .. Len(ring) - 1 /\ Head(ring) = ring[1] /\ ring[1].buf \in Buffers
        /\ \A i \in 1 .. Len(ring) - 1 : ring'[i] = ring[i + 1]
    <3>1. Len(Tail(ring)) = Len(ring) - 1 /\ \A i \in 1 .. Len(ring) - 1 : Tail(ring)[i] = ring[i + 1]
      BY <1>1, <2>1, HeadTailProperties
    <3>2. Tail(ring) \in Seq(Copies)
      BY <1>1, <2>1, HeadTailProperties
    <3>3. DOMAIN Tail(ring) = 1 .. Len(Tail(ring))
      BY <3>2, LenProperties
    <3>4. Head(ring) = ring[1] /\ 1 \in DOMAIN ring
      BY <1>1, <2>1, HeadTailProperties
    <3>5. ring[1] \in Copies
      BY <1>1, <3>4, ElementOfSeq
    <3>6. QED BY <2>1, <3>1, <3>3, <3>4, <3>5
  <2>3. \A b \in Buffers : ready[b] => ready'[b]
    BY <1>1, <1>15, <2>2 DEF Gpu
  <2>4. CASE failed
    BY <1>1, <1>15, <2>3, <2>4 DEF Gpu, Awaited
  <2>5. CASE ~failed
    <3>1. \A i \in DOMAIN ring' : ring'[i].signals
      BY <1>1, <2>2, <2>5 DEF Awaited
    <3>2. Owed => Owed'
      <4>1. UNCHANGED << is_available, client, backbuffer, cur >>
        BY <1>15 DEF Gpu
      <4>2. ASSUME NEW i \in DOMAIN ring, ring[i].buf = cur
            PROVE  ready'[cur] \/ \E j \in DOMAIN ring' : ring'[j].buf = cur
        <5>1. CASE i = 1
          <6>1. ring[1].signals
            BY <1>1, <2>1, <2>5 DEF Awaited
          <6>2. QED BY <1>1, <1>15, <2>2, <4>2, <5>1, <6>1 DEF Gpu
        <5>2. CASE i # 1
          <6>1. i - 1 \in DOMAIN ring' /\ ring'[i - 1] = ring[i]
            BY <1>1, <2>2, <5>2
          <6>2. QED BY <4>2, <6>1
        <5>3. QED BY <5>1, <5>2
      <4>3. QED BY <1>1, <2>3, <4>1, <4>2 DEF Owed
    <3>3. QED BY <1>1, <1>15, <2>3, <3>1, <3>2 DEF Gpu, Awaited
  <2>6. QED BY <2>4, <2>5
<1>16. CASE UNCHANGED vars
  BY <1>2, <1>16 DEF vars, Owed
<1>17. QED BY <1>3, <1>4, <1>5, <1>6, <1>7, <1>8, <1>9, <1>10, <1>11, <1>12, <1>13, <1>14, <1>15,
              <1>16 DEF Next, Client, Freeing, Display

-----------------------------------------------------------------------------
(* Every buffer is accounted for once. *)

LEMMA ReadyType ==
  ASSUME ready \in [Buffers -> BOOLEAN]
  PROVE  NumReady \in Nat
<1>1. IsFiniteSet({b \in Buffers : ready[b]})
  BY BuffersFinite, FS_Subset
<1>2. QED BY <1>1, FS_CardinalityType DEF NumReady

\* Setting a signal adds a ready buffer at most, resetting it takes one away.
LEMMA ReadySet ==
  ASSUME TypeOK, NEW b \in Buffers, ready' = [ready EXCEPT ![b] = TRUE]
  PROVE  NumReady' <= NumReady + 1 /\ NumReady' \in Nat
<1>1. {x \in Buffers : ready'[x]} = {x \in Buffers : ready[x]} \union {b}
  BY DEF TypeOK
<1>2. IsFiniteSet({x \in Buffers : ready[x]})
  BY BuffersFinite, FS_Subset
<1>3. NumReady' = IF b \in {x \in Buffers : ready[x]} THEN NumReady ELSE NumReady + 1
  BY <1>1, <1>2, FS_AddElement DEF NumReady
<1>4. QED BY <1>3, ReadyType DEF TypeOK

LEMMA ReadyReset ==
  ASSUME TypeOK, NEW b \in Buffers, ready[b], ready' = [ready EXCEPT ![b] = FALSE]
  PROVE  NumReady' = NumReady - 1 /\ NumReady' \in Nat
<1>1. {x \in Buffers : ready'[x]} = {x \in Buffers : ready[x]} \ {b}
  BY DEF TypeOK
<1>2. IsFiniteSet({x \in Buffers : ready[x]})
  BY BuffersFinite, FS_Subset
<1>3. NumReady' = NumReady - 1
  BY <1>1, <1>2, FS_RemoveElement DEF NumReady
<1>4. IsFiniteSet({x \in Buffers : ready[x]} \ {b})
  BY <1>2, FS_RemoveElement
<1>5. QED BY <1>1, <1>3, <1>4, FS_CardinalityType DEF NumReady

\* Walking round the circle.
LEMMA AheadNext ==
  ASSUME NEW a \in Buffers, NEW b \in Buffers
  PROVE  /\ Ahead(a, b) \in 0 .. NumBuffers - 1
         /\ Ahead(a, b) = 0 <=> b = a
         /\ Ahead(NextBuffer(a), b) = IF b = a THEN NumBuffers - 1 ELSE Ahead(a, b) - 1
<1>1. NextBuffer(a) = IF a + 1 < NumBuffers THEN a + 1 ELSE 0
  BY BuffersFinite
<1>2. a \in Int /\ b \in Int /\ a >= 0 /\ b >= 0 /\ a < NumBuffers /\ b < NumBuffers
      /\ NumBuffers \in Int
  BY BuffersFinite DEF Buffers
<1>3. Ahead(a, b) \in 0 .. NumBuffers - 1 /\ (Ahead(a, b) = 0 <=> b = a)
  BY <1>2 DEF Ahead
<1>4. Ahead(NextBuffer(a), b) = IF b = a THEN NumBuffers - 1 ELSE Ahead(a, b) - 1
  BY <1>1, <1>2 DEF Ahead
<1>5. QED BY <1>3, <1>4

LEMMA BackNext ==
  ASSUME NEW a \in Buffers, NEW b \in Buffers
  PROVE  /\ Back(a, b) \in 1 .. NumBuffers
         /\ Back(a, b) < NumBuffers => Back(NextBuffer(a), b) = Back(a, b) + 1
         /\ Back(NextBuffer(a), a) = 1
  BY BuffersFinite DEF Back, Buffers

LEMMA WalkNext ==
  ASSUME NEW a \in Buffers, NEW n \in 0 .. NumBuffers - 1
  PROVE  /\ NextBuffer(Walk(a, n)) = Walk(a, n + 1)
         /\ Walk(NextBuffer(a), n) = Walk(a, n + 1)
         /\ \A b \in Buffers : Ahead(a, b) = n <=> b = Walk(a, n)
<1>1. \A b \in Buffers : NextBuffer(b) = IF b + 1 < NumBuffers THEN b + 1 ELSE 0
  BY BuffersFinite
<1>2. a \in Int /\ a >= 0 /\ a < NumBuffers /\ NumBuffers \in Int /\ NumBuffers > 0
      /\ n \in Int /\ n >= 0 /\ n < NumBuffers
  BY BuffersFinite DEF Buffers
<1>3. Walk(a, n) \in Buffers
  BY <1>2 DEF Walk, Buffers
<1>4. NextBuffer(Walk(a, n)) = IF Walk(a, n) + 1 < NumBuffers THEN Walk(a, n) + 1 ELSE 0
  BY <1>1, <1>3
<1>5. NextBuffer(a) = IF a + 1 < NumBuffers THEN a + 1 ELSE 0
  BY <1>1
<1>6. NextBuffer(Walk(a, n)) = Walk(a, n + 1)
  BY <1>2, <1>4 DEF Walk
<1>7. Walk(NextBuffer(a), n) = Walk(a, n + 1)
  BY <1>2, <1>5 DEF Walk
<1>8. \A b \in Buffers : Ahead(a, b) = n <=> b = Walk(a, n)
  BY <1>2 DEF Ahead, Walk, Buffers
<1>9. QED BY <1>6, <1>7, <1>8

Copies == [buf : Buffers, signals : BOOLEAN]

\* A list with one copy more, and with one less.
LEMMA OneMore ==
  ASSUME NEW s \in Seq(Copies), NEW x \in Copies
  PROVE  /\ Len(s \o << x >>) = Len(s) + 1
         /\ (s \o << x >>)[Len(s) + 1] = x
         /\ \A i \in 1 .. Len(s) : (s \o << x >>)[i] = s[i]
  OBVIOUS

LEMMA OneLess ==
  ASSUME NEW s \in Seq(Copies), s # << >>
  PROVE  /\ Len(s) \in Nat /\ Len(s) > 0
         /\ Len(Tail(s)) = Len(s) - 1
         /\ \A i \in 1 .. Len(s) - 1 : Tail(s)[i] = s[i + 1]
         /\ Head(s) = s[1] /\ s[1] \in Copies
         /\ Len(s) = 1 <=> Tail(s) = << >>
         /\ Len(s) = 1 \/ Len(s) > 1
<1>1. Len(s) \in Nat /\ Len(s) > 0 /\ Tail(s) \in Seq(Copies)
  OBVIOUS
<1>2. Len(Tail(s)) = Len(s) - 1 /\ \A i \in 1 .. Len(s) - 1 : Tail(s)[i] = s[i + 1]
  BY <1>1
<1>3. Head(s) = s[1] /\ s[1] \in Copies
  BY <1>1
<1>4. Len(s) = 1 <=> Tail(s) = << >>
  BY <1>1, <1>2, EmptySeq
<1>5. QED BY <1>1, <1>2, <1>3, <1>4

LEMMA AccountedInit == Init => Accounted
<1> SUFFICES ASSUME Init PROVE Layout(0, NumBuffers)
  BY BuffersFinite DEF Accounted
<1>1. NumReady = 0
  <2>1. {b \in Buffers : ready[b]} = {}
    BY DEF Init
  <2>2. QED BY <2>1, FS_EmptySet DEF NumReady
<1>2. Len(ring) = 0 /\ NumShown = 0 /\ ~Mute /\ NumSignalling = 0
  BY DEF Init, NumShown, Mute, NumSignalling
<1>3. Available(0, NumBuffers) /\ GivesBack(0, NumBuffers)
  BY BuffersFinite DEF Init, Available, GivesBack, Walk, Ahead, Claim, NextReleased, Buffers
<1>4. QED
  BY <1>1, <1>2, <1>3, BuffersFinite DEF Init, Layout, Counted, CopiesInOrder, Taken

\* An action that changes nothing the layout speaks of.
LEMMA AccountedUnchanged ==
  ASSUME Accounted,
         UNCHANGED << backbuffer, is_available, ready, ring, unsent, terminate, client >>,
         failed => failed',
         NextReleased' = NextReleased, NumShown' = NumShown
  PROVE  Accounted'
<1> SUFFICES ASSUME ~terminate PROVE Accounted'
  BY DEF Accounted
<1>1. PICK taken \in 0 .. 1, free \in 0 .. NumBuffers : Layout(taken, free)
  BY DEF Accounted
<1>2. Layout(taken, free)'
  BY <1>1
  DEF Layout, Available, GivesBack, Counted, CopiesInOrder, Taken, Claim, NumReady, Mute,
      NumSignalling
<1>3. QED BY <1>2 DEF Accounted

LEMMA AccountedPreserved == IInv /\ [Next]_vars => Accounted'
<1> SUFFICES ASSUME IInv, [Next]_vars, ~terminate' PROVE Accounted'
  BY DEF Accounted
<1>1. /\ TypeOK /\ Stages /\ Accounted
      /\ NumReady \in Nat /\ backbuffer \in Buffers /\ cur \in Buffers
      /\ is_available \in [Buffers -> BOOLEAN]
      /\ ring \in Seq(Copies)
  BY ReadyType DEF IInv, TypeOK, Copies
<1>2. ~terminate /\ client \in {"idle", "wait", "copy"}
  BY <1>1 DEF TypeOK, Stages, Next, Client, Free, Freeing, Display, SwapBuffers, WaitAvailable,
     QueueSwap, QueueSwapFails, FreeSignal, FreeJoin, DisplayLoop, DisplayReady, DisplayShow,
     DisplayRelease, DisplayWaitFails, Gpu, vars
<1>3. PICK taken \in 0 .. 1, free \in 0 .. NumBuffers : Layout(taken, free)
  BY <1>1, <1>2 DEF Accounted
<1> USE <1>3 DEF Layout
<1>4. Len(ring) \in Nat /\ NumSignalling \in Nat /\ NumShown \in 0 .. 1
  <2>1. Len(ring) \in Nat /\ (ring # << >> => Len(ring) > 0)
    BY <1>1
  <2>2. QED BY <2>1 DEF NumSignalling, Mute, NumShown
<1>5. CASE SwapBuffers
  <2>1. NumShown' = NumShown /\ NextReleased' = NextReleased /\ NumReady' = NumReady
        /\ Claim(taken)' = Claim(taken)
    BY <1>5 DEF SwapBuffers, NumShown, NextReleased, NumReady, Claim
  <2>2. Available(taken, free)' /\ GivesBack(taken, free)'
    BY <1>5, <2>1 DEF SwapBuffers, Available, GivesBack
  <2>3. CASE UNCHANGED << ring, unsent >>
    <3>1. CopiesInOrder' /\ Taken(taken)' /\ Counted(taken, free)'
      BY <1>5, <2>1, <2>3
      DEF SwapBuffers, CopiesInOrder, Taken, Counted, Mute, NumSignalling
    <3>2. QED BY <2>2, <3>1 DEF Accounted
  <2>4. CASE ring' = ring \o unsent /\ unsent' = << >> /\ unsent = << >>
    <3>1. ring' = ring
      BY <1>1, <2>4, ConcatEmptySeq
    <3>2. QED BY <2>3, <2>4, <3>1
  <2>5. CASE ring' = ring \o unsent /\ unsent' = << >> /\ unsent # << >>
    <3>1. unsent = << Copy(backbuffer, FALSE) >> /\ ~Mute /\ taken = 1
      BY <2>5 DEF Taken
    <3>2. Copy(backbuffer, FALSE) \in Copies
      BY <1>1 DEF Copy, Copies
    <3>3. ring' = ring \o << Copy(backbuffer, FALSE) >>
      BY <2>5, <3>1
    <3>4. /\ Len(ring') = Len(ring) + 1
          /\ ring'[Len(ring) + 1] = Copy(backbuffer, FALSE)
          /\ \A i \in 1 .. Len(ring) : ring'[i] = ring[i]
      BY <1>1, <3>2, <3>3, OneMore
    <3>9. ring' # << >>
      BY <1>4, <3>4
    <3>5. Mute' /\ NumSignalling' = NumSignalling /\ NumSignalling = Len(ring)
      BY <1>4, <3>1, <3>4, <3>9 DEF Mute, NumSignalling, Copy
    <3>6. CopiesInOrder'
      BY <1>4, <1>5, <3>4, <3>5 DEF SwapBuffers, CopiesInOrder, Copy
    <3>7. Taken(taken)' /\ Counted(taken, free)'
      BY <1>5, <2>1, <2>5, <3>1, <3>5 DEF SwapBuffers, Taken, Counted
    <3>8. QED BY <2>2, <3>6, <3>7 DEF Accounted
  <2>6. QED BY <1>5, <2>3, <2>4, <2>5 DEF SwapBuffers
<1>6. CASE WaitAvailable
  <2>1. taken = 0 /\ free > 0 /\ ~Mute /\ unsent = << >>
    <3>1. Ahead(Claim(taken), backbuffer) < free
      BY <1>1, <1>6 DEF WaitAvailable, Available
    <3>2. Ahead(Claim(0), backbuffer) = 0 /\ Ahead(Claim(1), backbuffer) = NumBuffers - 1
      BY <1>1, AheadNext DEF Claim
    <3>3. free + taken <= NumBuffers
      BY <1>1, <1>4, BuffersFinite DEF Counted
    <3>4. taken = 0 /\ free > 0
      BY <3>1, <3>2, <3>3, BuffersFinite
    <3>5. QED BY <3>4 DEF Taken
  <2>2. UNCHANGED << backbuffer, ready, ring, unsent, display, cur, Mute, NumSignalling, NumReady,
                     NumShown, NextReleased >>
    BY <1>6 DEF WaitAvailable, NumReady, NumShown, Mute, NumSignalling, NextReleased
  <2>3. Available(1, free - 1)'
    <3> SUFFICES ASSUME NEW b \in Buffers
                 PROVE  is_available'[b] <=> Ahead(Claim(1)', b) < free - 1
      BY DEF Available, Ahead
    <3>1. Claim(1)' = NextBuffer(backbuffer)
      BY <2>2 DEF Claim
    <3>2. is_available[b] <=> Ahead(backbuffer, b) < free
      BY <2>1 DEF Available, Claim
    <3>3. CASE b = backbuffer
      <4>1. ~is_available'[b]
        BY <1>1, <1>6, <3>3 DEF WaitAvailable
      <4>2. Ahead(NextBuffer(backbuffer), b) = NumBuffers - 1
        BY <1>1, <3>3, AheadNext
      <4>3. QED BY <3>1, <4>1, <4>2, BuffersFinite
    <3>4. CASE b # backbuffer
      <4>1. is_available'[b] = is_available[b]
        BY <1>1, <1>6, <3>4 DEF WaitAvailable
      <4>2. Ahead(NextBuffer(backbuffer), b) = Ahead(backbuffer, b) - 1
            /\ Ahead(backbuffer, b) \in Int
        BY <1>1, <3>4, AheadNext
      <4>3. QED BY <3>1, <3>2, <4>1, <4>2, BuffersFinite
    <3>5. QED BY <3>3, <3>4
  <2>4. GivesBack(1, free - 1)'
    <3>1. NextReleased = Walk(backbuffer, free) /\ Claim(1)' = NextBuffer(backbuffer)
      BY <2>1, <2>2 DEF GivesBack, Claim
    <3>2. free - 1 \in 0 .. NumBuffers - 1 /\ (free - 1) + 1 = free
      BY <2>1, BuffersFinite
    <3>3. Walk(NextBuffer(backbuffer), free - 1) = Walk(backbuffer, free)
      BY <1>1, <3>2, WalkNext
    <3>4. QED BY <2>2, <3>1, <3>3 DEF GivesBack, Walk
  <2>5. Counted(1, free - 1)' /\ CopiesInOrder' /\ Taken(1)'
    BY <1>4, <1>6, <2>1, <2>2, BuffersFinite DEF WaitAvailable, Counted, CopiesInOrder, Taken
  <2>6. QED BY <2>1, <2>3, <2>4, <2>5, BuffersFinite DEF Accounted
<1>7. CASE QueueSwap
  <2>1. taken = 1 /\ ~Mute /\ unsent = << >> /\ NumSignalling = Len(ring)
    BY <1>7 DEF QueueSwap, Taken, NumSignalling
  <2>2. Copy(backbuffer, TRUE) \in Copies
    BY <1>1 DEF Copy, Copies
  <2>3. ring' = ring \o << Copy(backbuffer, TRUE) >>
    BY <1>1, <1>7, <2>1, ConcatEmptySeq DEF QueueSwap
  <2>4. /\ Len(ring') = Len(ring) + 1
        /\ ring'[Len(ring) + 1] = Copy(backbuffer, TRUE)
        /\ \A i \in 1 .. Len(ring) : ring'[i] = ring[i]
    BY <1>1, <2>2, <2>3, OneMore
  <2>5. ~Mute' /\ NumSignalling' = Len(ring) + 1
    BY <1>4, <2>4 DEF Mute, NumSignalling, Copy
  <2>6. Len(ring) < NumBuffers
    BY <1>1, <1>4, <2>1, BuffersFinite DEF Counted
  <2>7. ASSUME NEW i \in 1 .. Len(ring) + 1
        PROVE  ring'[i].signals /\ Back(backbuffer', ring'[i].buf) = Len(ring) + 1 - i + 1
    <3>1. backbuffer' = NextBuffer(backbuffer)
      BY <1>7 DEF QueueSwap
    <3>2. CASE i = Len(ring) + 1
      BY <1>1, <1>4, <2>4, <3>1, <3>2, BackNext DEF Copy
    <3>3. CASE i \in 1 .. Len(ring)
      <4>1. ring[i].signals /\ Back(backbuffer, ring[i].buf) = Len(ring) - i + 1
        BY <2>1, <3>3 DEF CopiesInOrder
      <4>2. ring[i].buf \in Buffers /\ ring'[i] = ring[i]
        <5>1. ring[i] \in Copies
          BY <1>1, <3>3, ElementOfSeq
        <5>2. QED BY <2>4, <3>3, <5>1 DEF Copies
      <4>3. Back(backbuffer, ring[i].buf) < NumBuffers
        BY <1>4, <2>6, <3>3, <4>1, BuffersFinite
      <4>4. Back(NextBuffer(backbuffer), ring[i].buf) = Back(backbuffer, ring[i].buf) + 1
        BY <1>1, <4>2, <4>3, BackNext
      <4>5. QED BY <1>4, <3>1, <3>3, <4>1, <4>2, <4>4
    <3>4. QED BY <1>4, <3>2, <3>3
  <2>8. CopiesInOrder'
    BY <2>5, <2>7 DEF CopiesInOrder
  <2>9. UNCHANGED << is_available, NumReady, NumShown, NextReleased >> /\ Claim(0)' = Claim(1)
    BY <1>7 DEF QueueSwap, NumReady, NumShown, NextReleased, Claim
  <2>10. Available(0, free)' /\ GivesBack(0, free)'
    BY <2>1, <2>9 DEF Available, GivesBack, Ahead, Walk
  <2>11. Counted(0, free)' /\ Taken(0)'
    BY <1>1, <1>4, <1>7, <2>1, <2>5, <2>9, BuffersFinite DEF QueueSwap, Counted, Taken
  <2>12. QED BY <2>8, <2>10, <2>11 DEF Accounted
<1>8. CASE QueueSwapFails
  <2>1. taken = 1 /\ ~Mute /\ unsent = << >>
    BY <1>8 DEF QueueSwapFails, Taken
  <2>2. unsent' = << Copy(backbuffer, FALSE) >>
    BY <1>8, <2>1 DEF QueueSwapFails
  <2>3. UNCHANGED << backbuffer, is_available, ring, Mute, NumSignalling, NumReady, NumShown,
                     NextReleased >>
    BY <1>8 DEF QueueSwapFails, NumReady, NumShown, Mute, NumSignalling, NextReleased
  <2>4. Claim(taken)' = Claim(taken)
    BY <2>3 DEF Claim
  <2>5. Available(taken, free)' /\ GivesBack(taken, free)' /\ Counted(taken, free)'
    BY <2>3, <2>4 DEF Available, GivesBack, Counted
  <2>6. CopiesInOrder'
    BY <2>3 DEF CopiesInOrder
  <2>7. Taken(taken)'
    BY <1>8, <2>1, <2>2, <2>3 DEF QueueSwapFails, Taken, Copy
  <2>8. QED BY <2>5, <2>6, <2>7 DEF Accounted
<1>9. CASE DisplayLoop
  BY <1>1, <1>9, AccountedUnchanged DEF DisplayLoop, NextReleased, NumShown
<1>10. CASE DisplayReady
  <2>1. NumReady' = NumReady - 1 /\ NumReady' \in Nat
    BY <1>1, <1>10, ReadyReset DEF DisplayReady
  <2>2. NumShown = 0 /\ NumShown' = 1 /\ NextReleased' = NextReleased
    BY <1>10 DEF DisplayReady, NumShown, NextReleased
  <2>3. UNCHANGED << backbuffer, is_available, client, ring, unsent, failed, Mute, NumSignalling >>
    BY <1>10 DEF DisplayReady, Mute, NumSignalling
  <2>4. Claim(taken)' = Claim(taken)
    BY <2>3 DEF Claim
  <2>5. Available(taken, free)' /\ GivesBack(taken, free)' /\ CopiesInOrder' /\ Taken(taken)'
    BY <2>2, <2>3, <2>4 DEF Available, GivesBack, CopiesInOrder, Taken
  <2>6. Counted(taken, free)'
    BY <1>1, <1>4, <2>1, <2>2, <2>3, BuffersFinite DEF Counted
  <2>7. QED BY <2>5, <2>6 DEF Accounted
<1>11. CASE DisplayShow
  BY <1>1, <1>11, AccountedUnchanged DEF DisplayShow, NextReleased, NumShown
<1>12. CASE DisplayRelease
  <2>1. NumShown = 1 /\ NumShown' = 0
    BY <1>12 DEF DisplayRelease, NumShown
  <2>2. free < NumBuffers
    BY <1>1, <1>4, <2>1, BuffersFinite DEF Counted
  <2>3. cur = Walk(Claim(taken), free)
    BY <1>12 DEF DisplayRelease, NextReleased, GivesBack
  <2>4. UNCHANGED << backbuffer, client, ring, unsent, failed, Mute, NumSignalling, NumReady, cur >>
    BY <1>12 DEF DisplayRelease, NumReady, Mute, NumSignalling
  <2>5. Claim(taken) \in Buffers /\ Claim(taken)' = Claim(taken)
    BY <1>1, <2>4, BuffersFinite DEF Claim
  <2>11. free \in 0 .. NumBuffers - 1
    BY <2>2, BuffersFinite
  <2>6. Available(taken, free + 1)'
    <3> SUFFICES ASSUME NEW b \in Buffers
                 PROVE  is_available'[b] <=> Ahead(Claim(taken), b) < free + 1
      BY <2>5 DEF Available, Ahead
    <3>1. CASE b = cur
      <4>1. is_available'[b]
        BY <1>1, <1>12, <3>1 DEF DisplayRelease
      <4>2. Ahead(Claim(taken), b) = free
        BY <2>2, <2>3, <2>5, <3>1, <2>11, WalkNext
      <4>3. QED BY <4>1, <4>2
    <3>2. CASE b # cur
      <4>1. is_available'[b] = is_available[b]
        BY <1>1, <1>12, <3>2 DEF DisplayRelease
      <4>2. Ahead(Claim(taken), b) # free /\ Ahead(Claim(taken), b) \in Int
        BY <2>2, <2>3, <2>5, <3>2, <2>11, WalkNext, AheadNext
      <4>3. is_available[b] <=> Ahead(Claim(taken), b) < free
        BY DEF Available
      <4>4. QED BY <4>1, <4>2, <4>3
    <3>3. QED BY <3>1, <3>2
  <2>7. NextReleased' = NextBuffer(cur)
    BY <1>12 DEF DisplayRelease, NextReleased
  <2>8. GivesBack(taken, free + 1)'
    <3>1. NextBuffer(cur) = Walk(Claim(taken), free + 1)
      BY <2>3, <2>5, <2>11, WalkNext
    <3>2. QED BY <2>5, <2>7, <3>1 DEF GivesBack, Walk
  <2>9. Counted(taken, free + 1)'
    BY <1>1, <1>4, <2>1, <2>4, BuffersFinite DEF Counted
  <2>12. CopiesInOrder' /\ Taken(taken)'
    BY <2>4 DEF CopiesInOrder, Taken
  <2>10. QED BY <2>11, <2>6, <2>8, <2>9, <2>12, BuffersFinite DEF Accounted
<1>13. CASE DisplayWaitFails
  BY <1>1, <1>13, AccountedUnchanged DEF DisplayWaitFails, NextReleased, NumShown
<1>14. CASE Gpu
  <2>1. ring # << >> /\ ring' = Tail(ring) /\ Len(ring) > 0
    BY <1>1, <1>14, OneLess DEF Gpu
  <2>2. Len(ring') = Len(ring) - 1 /\ \A i \in 1 .. Len(ring) - 1 : ring'[i] = ring[i + 1]
    BY <1>1, <2>1, OneLess
  <2>3. Head(ring) = ring[1] /\ ring[1].buf \in Buffers
    BY <1>1, <2>1, OneLess DEF Copies
  <2>4. UNCHANGED << backbuffer, is_available, client, unsent, failed, NextReleased, NumShown >>
        /\ Claim(taken)' = Claim(taken)
    BY <1>14 DEF Gpu, Claim, NextReleased, NumShown
  <2>5. Available(taken, free)' /\ GivesBack(taken, free)'
    BY <2>4 DEF Available, GivesBack
  <2>6. CASE NumSignalling = 0
    <3>1. Mute /\ Len(ring) = 1 /\ ~Head(ring).signals
      BY <1>4, <2>1, <2>3, <2>6 DEF NumSignalling, Mute
    <3>2. ring' = << >> /\ ~Mute' /\ NumSignalling' = 0
      <4>1. ring' = << >>
        BY <1>1, <2>1, <3>1, OneLess
      <4>2. QED BY <4>1 DEF Mute, NumSignalling
    <3>3. NumReady' = NumReady
      BY <1>14, <3>1 DEF Gpu, NumReady
    <3>7. 1 .. NumSignalling' = {}
      BY <3>2
    <3>8. CopiesInOrder'
      BY <3>2, <3>7 DEF CopiesInOrder
    <3>9. Taken(taken)'
      BY <2>4, <3>1, <3>2 DEF Taken
    <3>4. CopiesInOrder' /\ Taken(taken)'
      BY <3>8, <3>9
    <3>6. Counted(taken, free)'
      BY <2>4, <2>6, <3>2, <3>3 DEF Counted
    <3>5. QED BY <2>5, <3>4, <3>6 DEF Accounted
  <2>7. CASE NumSignalling > 0
    <3>1. ring[1].signals
      BY <1>4, <2>7 DEF CopiesInOrder
    <3>2. NumReady' <= NumReady + 1 /\ NumReady' \in Nat
      BY <1>1, <1>14, <2>3, <3>1, ReadySet DEF Gpu
    <3>3. /\ Mute' <=> Mute
          /\ NumSignalling' = NumSignalling - 1
          /\ Mute => ring'[Len(ring')] = ring[Len(ring)]
      <4>1. CASE Len(ring) = 1
        <5>1. ~Mute
          BY <3>1, <4>1 DEF Mute
        <5>2. ring' = << >>
          BY <1>1, <2>1, <4>1, OneLess
        <5>3. QED BY <4>1, <5>1, <5>2 DEF Mute, NumSignalling
      <4>2. CASE Len(ring) > 1
        <5>4. ring' # << >>
          BY <1>1, <2>1, <4>2, OneLess
        <5>1. ring'[Len(ring')] = ring[Len(ring)] /\ ring' # << >>
          BY <1>4, <2>2, <4>2, <5>4
        <5>2. Mute' <=> Mute
          BY <2>1, <5>1 DEF Mute
        <5>3. CASE Mute
          BY <1>4, <2>2, <5>1, <5>2, <5>3 DEF NumSignalling
        <5>5. CASE ~Mute
          BY <1>4, <2>2, <5>1, <5>2, <5>5 DEF NumSignalling
        <5>6. QED BY <5>3, <5>5
      <4>3. Len(ring) = 1 \/ Len(ring) > 1
        BY <1>1, <2>1, OneLess
      <4>4. QED BY <4>1, <4>2, <4>3, Zenon
    <3>4. ASSUME NEW i \in 1 .. NumSignalling - 1
          PROVE  ring'[i].signals /\ Back(backbuffer, ring'[i].buf) = NumSignalling - 1 - i + 1
      <4>1. ring'[i] = ring[i + 1] /\ i + 1 \in 1 .. NumSignalling
        BY <1>4, <2>2 DEF NumSignalling
      <4>2. ring[i + 1].signals
            /\ Back(backbuffer, ring[i + 1].buf) = NumSignalling - (i + 1) + 1
        BY <4>1 DEF CopiesInOrder
      <4>3. QED BY <1>4, <4>1, <4>2
    <3>5. CopiesInOrder'
      BY <2>4, <3>3, <3>4 DEF CopiesInOrder, Back
    <3>6. Taken(taken)'
      BY <2>4, <3>3 DEF Taken
    <3>7. Counted(taken, free)'
      <4>1. NumSignalling' = NumSignalling - 1 /\ NumShown' = NumShown
        BY <2>4, <3>3
      <4>2. free + taken + NumSignalling + NumReady + NumShown <= NumBuffers
        BY DEF Counted
      <4>3. free + taken + (NumSignalling - 1) + NumReady' + NumShown <= NumBuffers
        <5> DEFINE s == NumSignalling
                   r == NumReady
                   q == NumReady'
                   d == NumShown
        <5>1. /\ s \in Int /\ r \in Int /\ q \in Int /\ d \in Int /\ free \in Int /\ taken \in Int
              /\ NumBuffers \in Int
          BY <1>1, <1>4, <3>2, BuffersFinite
        <5>2. q <= r + 1 /\ free + taken + s + r + d <= NumBuffers
          BY <3>2, <4>2
        <5> HIDE DEF s, r, q, d
        <5>3. free + taken + (s - 1) + q + d <= NumBuffers
          BY <5>1, <5>2
        <5>4. QED BY <5>3 DEF s, r, q, d
      <4>4. QED BY <4>1, <4>3 DEF Counted
    <3>8. QED BY <2>5, <3>5, <3>6, <3>7 DEF Accounted
  <2>8. QED BY <1>4, <2>6, <2>7
<1>15. CASE UNCHANGED vars
  BY <1>1, <1>15, AccountedUnchanged DEF vars, NextReleased, NumShown
<1>16. QED
  BY <1>2, <1>5, <1>6, <1>7, <1>8, <1>9, <1>10, <1>11, <1>12, <1>13, <1>14, <1>15
  DEF Next, Client, Display, Free, Freeing, FreeSignal, FreeJoin

\* The invariant holds in every reachable state.
LEMMA Inductive == Spec => []IInv
<1>1. Init => IInv
  BY TypeInit, AwaitedInit, AccountedInit DEF IInv
<1>2. IInv /\ [Next]_vars => IInv'
  BY TypePreserved, AwaitedPreserved, AccountedPreserved DEF IInv
<1>3. QED BY <1>1, <1>2, PTL DEF Spec

\* No release is lost: a buffer the display thread gives back, with the others
\* that are available, does not fill the circle.
THEOREM NoReleaseLost == Spec => []ReleasedOnce
<1>1. IInv => ReleasedOnce
  <2> SUFFICES ASSUME IInv, display = "release", ~terminate PROVE ~is_available[cur]
    BY DEF ReleasedOnce
  <2>1. /\ TypeOK /\ Accounted /\ NumReady \in Nat /\ backbuffer \in Buffers
        /\ cur \in Buffers /\ Len(ring) \in Nat
    BY ReadyType DEF IInv, TypeOK
  <2>2. PICK taken \in 0 .. 1, free \in 0 .. NumBuffers : Layout(taken, free)
    BY <2>1 DEF Accounted
  <2>3. NumShown = 1 /\ NumSignalling \in Nat /\ NextReleased = cur
    <3>1. ring # << >> => Len(ring) > 0
      BY <2>1 DEF TypeOK
    <3>2. QED BY <2>1, <3>1 DEF NumShown, NumSignalling, Mute, NextReleased
  <2>4. free \in 0 .. NumBuffers - 1
    <3>1. free + taken + NumSignalling + NumReady + NumShown <= NumBuffers
      BY <2>2 DEF Layout, Counted
    <3>2. QED BY <2>1, <2>2, <2>3, <3>1, BuffersFinite
  <2>5. Claim(taken) \in Buffers /\ cur = Walk(Claim(taken), free)
    BY <2>1, <2>2, <2>3, BuffersFinite DEF Layout, GivesBack, Claim
  <2>6. Ahead(Claim(taken), cur) = free
    BY <2>1, <2>4, <2>5, WalkNext
  <2>7. is_available[cur] <=> Ahead(Claim(taken), cur) < free
    BY <2>1, <2>2 DEF Layout, Available
  <2>8. QED BY <2>4, <2>6, <2>7
<1>2. QED BY <1>1, Inductive, PTL

\* The threads never wait for each other: what the display thread waits for is owed to
\* it, and if the client has not taken that buffer yet its own comes first.
THEOREM NoWakeUpLost == Spec => []NeverStuck
<1>1. IInv => NeverStuck
  <2> SUFFICES ASSUME IInv PROVE NeverStuck
    OBVIOUS
  <2>1. TypeOK /\ Stages /\ Awaited /\ Accounted /\ cur \in Buffers /\ backbuffer \in Buffers
    BY DEF IInv, TypeOK
  <2>2. ASSUME client = "wait", display = "wait", ring = << >>, ~failed, ~ready[cur]
        PROVE  is_available[backbuffer]
    <3>1. ~terminate /\ is_available[cur]
      BY <2>1, <2>2 DEF Stages, Awaited, Owed
    <3>2. PICK taken \in 0 .. 1, free \in 0 .. NumBuffers : Layout(taken, free)
      BY <2>1, <3>1 DEF Accounted
    <3>3. taken = 0
      BY <2>2, <3>2 DEF Layout, Taken
    <3>4. \A b \in Buffers : is_available[b] <=> Ahead(backbuffer, b) < free
      BY <3>2, <3>3 DEF Layout, Available, Claim
    <3>5. Ahead(backbuffer, cur) \in 0 .. NumBuffers - 1 /\ Ahead(backbuffer, backbuffer) = 0
      BY <2>1, AheadNext
    <3>6. QED BY <2>1, <3>1, <3>4, <3>5, BuffersFinite
  <2>3. client = "join" /\ display = "wait" => ready[cur]
    BY <2>1, BuffersFinite DEF Stages, Awaited, Buffers
  <2>4. QED BY <2>2, <2>3 DEF NeverStuck
<1>2. QED BY <1>1, Inductive, PTL

\* Buffers go round between the client and the display thread: no release is lost,
\* and none of the two waits for ever.
THEOREM BuffersGoRound == Spec => []BuffersCirculate
<1>1. ReleasedOnce /\ NeverStuck => BuffersCirculate
  BY DEF BuffersCirculate
<1>2. QED BY <1>1, NoReleaseLost, NoWakeUpLost, PTL

\* The buffers of the copies handed over lie before the available ones on the
\* circle, all of them different.
THEOREM NoDoubleSwap == Spec => []OneSwapPerBuffer
<1>1. IInv => OneSwapPerBuffer
  <2> SUFFICES ASSUME IInv, ~terminate PROVE OneSwapPerBuffer
    BY DEF OneSwapPerBuffer
  <2>1. /\ TypeOK /\ Accounted /\ NumReady \in Nat /\ backbuffer \in Buffers
        /\ Len(ring) \in Nat /\ NumShown \in 0 .. 1
        /\ \A i \in 1 .. Len(ring) : ring[i].buf \in Buffers
    <3>1. ring \in Seq(Copies)
      BY DEF IInv, TypeOK, Copies
    <3>2. \A i \in 1 .. Len(ring) : ring[i] \in Copies
      BY <3>1, ElementOfSeq
    <3>3. QED BY <3>1, <3>2, ReadyType DEF IInv, TypeOK, NumShown, Copies
  <2>2. PICK taken \in 0 .. 1, free \in 0 .. NumBuffers : Layout(taken, free)
    BY <2>1 DEF Accounted
  <2>3. free + taken + NumSignalling <= NumBuffers /\ NumSignalling \in Nat
    <3>1. ring # << >> => Len(ring) > 0
      BY <2>1 DEF TypeOK
    <3>2. NumSignalling \in Nat
      BY <2>1, <3>1 DEF NumSignalling, Mute
    <3>3. free + taken + NumSignalling + NumReady + NumShown <= NumBuffers
      BY <2>2 DEF Layout, Counted
    <3>4. QED BY <2>1, <2>2, <3>2, <3>3, BuffersFinite
  <2>4. ASSUME NEW i \in 1 .. Len(ring)
        PROVE  \/ i <= NumSignalling /\ Back(backbuffer, ring[i].buf) = NumSignalling - i + 1
               \/ i = NumSignalling + 1 /\ ring[i].buf = backbuffer /\ taken = 1
    <3>1. CASE i <= NumSignalling
      BY <2>2, <2>3, <3>1 DEF Layout, CopiesInOrder
    <3>2. CASE i > NumSignalling
      <4>1. Mute /\ i = Len(ring) /\ i = NumSignalling + 1
        BY <2>1, <3>2 DEF NumSignalling
      <4>2. QED BY <2>2, <4>1 DEF Layout, CopiesInOrder, Taken
    <3>3. QED BY <2>3, <3>1, <3>2
  <2>5. ASSUME NEW i \in 1 .. Len(ring) PROVE ~is_available[ring[i].buf]
    <3>1. is_available[ring[i].buf] <=> Ahead(Claim(taken), ring[i].buf) < free
      BY <2>1, <2>2 DEF Layout, Available
    <3>2. Ahead(backbuffer, ring[i].buf) =
            IF ring[i].buf = backbuffer THEN 0 ELSE NumBuffers - Back(backbuffer, ring[i].buf)
      BY <2>1, BuffersFinite DEF Ahead, Back, Buffers
    <3>3. Back(backbuffer, ring[i].buf) = NumBuffers <=> ring[i].buf = backbuffer
      BY <2>1, BuffersFinite DEF Back, Buffers
    <3>4. Ahead(Claim(1), ring[i].buf) =
            IF ring[i].buf = backbuffer THEN NumBuffers - 1
            ELSE Ahead(backbuffer, ring[i].buf) - 1
      BY <2>1, AheadNext DEF Claim
    <3>5. Claim(0) = backbuffer
      BY DEF Claim
    <3>6. CASE i <= NumSignalling /\ Back(backbuffer, ring[i].buf) = NumSignalling - i + 1
      <4>1. CASE taken = 0
        BY <2>2, <2>3, <3>1, <3>2, <3>3, <3>5, <3>6, <4>1, BuffersFinite
      <4>2. CASE taken = 1
        BY <2>2, <2>3, <3>1, <3>2, <3>3, <3>4, <3>6, <4>2, BuffersFinite
      <4>3. QED BY <2>2, <4>1, <4>2
    <3>7. CASE ring[i].buf = backbuffer /\ taken = 1
      BY <2>2, <2>3, <3>1, <3>4, <3>7, BuffersFinite
    <3>8. QED BY <2>4, <3>6, <3>7
  <2>6. ASSUME NEW i \in 1 .. Len(ring), NEW j \in 1 .. Len(ring), ring[i].buf = ring[j].buf
        PROVE  i = j
    <3>1. Back(backbuffer, backbuffer) = NumBuffers
      BY <2>1, BuffersFinite DEF Back, Buffers
    <3>2. CASE i <= NumSignalling /\ j <= NumSignalling
      BY <2>3, <2>4, <2>6, <3>2
    <3>3. CASE i > NumSignalling /\ j > NumSignalling
      BY <2>3, <2>4, <3>3
    <3>4. CASE i <= NumSignalling /\ j > NumSignalling
      <4>1. Back(backbuffer, ring[i].buf) = NumSignalling - i + 1
            /\ ring[j].buf = backbuffer /\ taken = 1
        BY <2>3, <2>4, <3>4
      <4>2. QED BY <2>2, <2>3, <2>6, <3>1, <4>1, BuffersFinite
    <3>5. CASE i > NumSignalling /\ j <= NumSignalling
      <4>1. Back(backbuffer, ring[j].buf) = NumSignalling - j + 1
            /\ ring[i].buf = backbuffer /\ taken = 1
        BY <2>3, <2>4, <3>5
      <4>2. QED BY <2>2, <2>3, <2>6, <3>1, <4>1, BuffersFinite
    <3>6. QED BY <2>3, <3>2, <3>3, <3>4, <3>5
  <2>7. DOMAIN ring = 1 .. Len(ring)
    BY <2>1 DEF TypeOK
  <2>8. QED BY <2>5, <2>6, <2>7 DEF OneSwapPerBuffer
<1>2. QED BY <1>1, Inductive, PTL

=============================================================================
