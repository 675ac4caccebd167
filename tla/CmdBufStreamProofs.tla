-------------------------- MODULE CmdBufStreamProofs --------------------------
(***************************************************************************)
(* CmdBuf implements CommandStream: whatever the layout of the buffers,    *)
(* the GPU executes every group of commands once, in the order written,    *)
(* and etna_finish waits for all of them.                                  *)
(*                                                                         *)
(* The invariant numbers the groups.  What the client wrote since the last *)
(* commit is one more list of groups behind those of the jobs that wait    *)
(* for the GPU; the lists, one after the other, have the numbers that      *)
(* follow those of the groups executed.                                    *)
(***************************************************************************)
EXTENDS CmdBufProofs

-----------------------------------------------------------------------------
(* Numbers of groups. *)

\* The groups of G, in the order of their places, have the numbers from lo + 1 to hi.
IdsAre(G, lo, hi) ==
  /\ lo <= hi
  /\ \A g \in G : lo < g.id /\ g.id <= hi
  /\ \A k \in lo + 1 .. hi : \E g \in G : g.id = k
  /\ \A g, h \in G : /\ g.at < h.at <=> g.id < h.id
                     /\ g.id = h.id => g = h

LEMMA NoIds ==
  ASSUME NEW lo \in Nat, NEW hi \in Nat
  PROVE  IdsAre({}, lo, lo) /\ (IdsAre({}, lo, hi) => lo = hi)
<1>1. lo + 1 .. lo = {}
  OBVIOUS
<1>2. ASSUME IdsAre({}, lo, hi) PROVE lo = hi
  <2>1. ASSUME lo # hi PROVE FALSE
    <3>1. lo + 1 \in lo + 1 .. hi
      BY <1>2, <2>1 DEF IdsAre
    <3>2. QED BY <1>2, <3>1 DEF IdsAre
  <2>2. QED BY <2>1
<1>3. QED BY <1>1, <1>2 DEF IdsAre

\* As many groups as numbers.
LEMMA IdsCount ==
  ASSUME NEW G, NEW lo \in Nat, NEW hi \in Nat, IdsAre(G, lo, hi), \A g \in G : g.id \in Nat
  PROVE  IsFiniteSet(G) /\ Cardinality(G) = hi - lo
<1> DEFINE f == [k \in lo + 1 .. hi |-> CHOOSE g \in G : g.id = k]
<1>1. \A k \in lo + 1 .. hi : f[k] \in G /\ f[k].id = k
  BY DEF IdsAre
<1>2. \A g \in G : g.id \in lo + 1 .. hi
  BY DEF IdsAre
<1> HIDE DEF f
<1>3. \A g \in G : f[g.id] = g
  BY <1>1, <1>2 DEF IdsAre
<1>4. f \in Bijection(lo + 1 .. hi, G)
  <2>1. f \in [lo + 1 .. hi -> G]
    BY <1>1 DEF f
  <2>2. \A j, k \in lo + 1 .. hi : f[j] = f[k] => j = k
    BY <1>1
  <2>3. \A g \in G : \E k \in lo + 1 .. hi : f[k] = g
    BY <1>2, <1>3
  <2>4. QED BY <2>1, <2>2, <2>3 DEF Bijection, Injection, Surjection, IsInjective
<1>5. IsFiniteSet(lo + 1 .. hi) /\ Cardinality(lo + 1 .. hi) = hi - lo
  <2> DEFINE first == lo + 1
  <2>1. first \in Int /\ hi \in Int
    OBVIOUS
  <2> HIDE DEF first
  <2>2. /\ IsFiniteSet(first .. hi)
        /\ Cardinality(first .. hi) = IF first > hi THEN 0 ELSE hi - first + 1
    BY <2>1, FS_Interval
  <2>3. first = lo + 1 /\ lo <= hi
    BY DEF first, IdsAre
  <2>4. QED BY <2>2, <2>3
<1>6. QED BY <1>4, <1>5, FS_Bijection DEF ExistsBijection

\* The groups before one are as many as the numbers before its own.
LEMMA IdsBefore ==
  ASSUME NEW G, NEW lo \in Nat, NEW hi \in Nat, IdsAre(G, lo, hi), \A g \in G : g.id \in Nat,
         NEW x \in G
  PROVE  Cardinality({h \in G : h.at < x.at}) = x.id - 1 - lo
<1> DEFINE B == {h \in G : h.at < x.at}
           top == x.id - 1
<1>1. /\ top \in Nat /\ lo <= top /\ top <= hi
      /\ \A h \in B : h \in G /\ h.id \in Nat /\ h.id < x.id
  BY DEF IdsAre
<1>2. ASSUME NEW k \in lo + 1 .. top PROVE \E g \in B : g.id = k
  <2>1. k \in lo + 1 .. hi /\ k < x.id
    BY <1>1
  <2>2. PICK g \in G : g.id = k
    BY <2>1 DEF IdsAre
  <2>3. QED BY <2>1, <2>2 DEF IdsAre
<1>3. \A h \in B : lo < h.id /\ h.id <= top
  BY <1>1 DEF IdsAre
<1>4. \A g, h \in B : (g.at < h.at <=> g.id < h.id) /\ (g.id = h.id => g = h)
  BY DEF IdsAre
<1> HIDE DEF B, top
<1>5. IdsAre(B, lo, top)
  BY <1>1, <1>2, <1>3, <1>4 DEF IdsAre
<1>6. Cardinality(B) = top - lo
  BY <1>1, <1>5, IdsCount
<1>7. QED BY <1>6 DEF B, top

\* So the GPU fetches the groups in the order of their numbers.
LEMMA FetchedInOrder ==
  ASSUME NEW job, NEW lo \in Nat, NEW hi \in Nat, IdsAre(GroupsOf(job, mem), lo, hi),
         \A g \in GroupsOf(job, mem) : g.id \in Nat
  PROVE  Fetched(job) = [i \in 1 .. hi - lo |-> lo + i]
<1> DEFINE G == GroupsOf(job, mem)
           before(g) == {h \in G : h.at < g.at}
           nth(i) == CHOOSE g \in G : Cardinality(before(g)) = i - 1
<1>1. Cardinality(G) = hi - lo
  BY IdsCount
<1>2. ASSUME NEW i \in 1 .. hi - lo PROVE nth(i).id = lo + i
  <2>1. lo + i \in lo + 1 .. hi
    OBVIOUS
  <2>2. PICK g \in G : g.id = lo + i
    BY <2>1 DEF IdsAre
  <2>3. \A h \in G : Cardinality(before(h)) = h.id - 1 - lo /\ h.id \in Nat
    BY IdsBefore
  <2> HIDE DEF G, before
  <2>4. Cardinality(before(g)) = i - 1
    BY <2>2, <2>3
  <2>5. nth(i) \in G /\ Cardinality(before(nth(i))) = i - 1
    BY <2>4
  <2> HIDE DEF nth
  <2>6. nth(i).id - 1 - lo = i - 1 /\ nth(i).id \in Nat
    BY <2>3, <2>5
  <2>7. QED BY <2>6
<1>3. Fetched(job) = [i \in 1 .. Cardinality(G) |-> nth(i).id]
  BY DEF Fetched
<1> HIDE DEF G, nth
<1>4. QED BY <1>1, <1>2, <1>3

-----------------------------------------------------------------------------
(* Numbers along a list of jobs. *)

\* The commands written since the last commit, as the job they will be.
Written(c) == Job(c.cur_buf, c.start, c.offset, c.queue)
Pending(c, m) == GroupsOf(Written(c), m)

\* What Unsubmitted is of a context and a memory.
Unsent(c, m) ==
  IF c.cur_buf = NO_BUFFER THEN {}
  ELSE {g \in m[c.cur_buf] : g.at >= c.start + Begin /\ g.at < c.offset}

\* Up to and with the i-th job the numbers go to f[i].
NumberedBy(f, c, r, m, lo, hi) ==
  /\ f \in [0 .. Len(r) -> Nat]
  /\ f[0] = lo
  /\ \A i, j \in 0 .. Len(r) : i <= j => f[i] <= f[j]
  /\ \A i \in 1 .. Len(r) : IdsAre(GroupsOf(r[i], m), f[i - 1], f[i])
  /\ IdsAre(Pending(c, m), f[Len(r)], hi)

Numbered(c, r, m, lo, hi) ==
  /\ Unsent(c, m) = Pending(c, m)
  /\ \E f : NumberedBy(f, c, r, m, lo, hi)

LEMMA WrittenIs ==
  ASSUME NEW c \in Contexts
  PROVE  /\ Written(c).buf = c.cur_buf /\ Written(c).from = c.start /\ Written(c).to = c.offset
         /\ Written(c) \in Jobs
  BY DEF Written, Job, Jobs, Contexts, EventLists

\* Only the buffer and the offsets of the context matter.
LEMMA NumberedSame ==
  ASSUME NEW c, NEW d, NEW r, NEW m, NEW lo, NEW hi, Numbered(c, r, m, lo, hi),
         d.cur_buf = c.cur_buf, d.start = c.start, d.offset = c.offset
  PROVE  Numbered(d, r, m, lo, hi)
<1>1. Unsent(d, m) = Unsent(c, m)
  BY DEF Unsent
<1>2. Pending(d, m) = Pending(c, m)
  BY DEF Pending, Written, GroupsOf, Job
<1>3. QED BY <1>1, <1>2 DEF Numbered, NumberedBy

LEMMA GroupFacts ==
  ASSUME NEW m \in Memories, NEW j \in Jobs, NEW g \in GroupsOf(j, m)
  PROVE  /\ j.buf \in Bufs /\ g \in m[j.buf]
         /\ g.at \in Nat /\ g.len \in Nat /\ g.len > 0 /\ g.id \in Nat
         /\ j.from + Begin <= g.at /\ g.at + g.len <= j.to
  BY DEF GroupsOf, Memories, Jobs

\* Nothing is pending where nothing was written.
LEMMA NothingPending ==
  ASSUME NEW c \in Contexts, NothingWritten(c), NEW m \in Memories
  PROVE  Unsent(c, m) = {} /\ Pending(c, m) = {}
<1>1. c.offset \in Nat /\ c.start \in Nat /\ Begin \in Nat
  BY Constants DEF Contexts
<1>2. ASSUME NEW g \in Unsent(c, m) PROVE FALSE
  <2>1. c.cur_buf # NO_BUFFER /\ c.offset <= c.start + Begin /\ c.cur_buf \in Bufs
    BY <1>2 DEF Unsent, NothingWritten, Contexts
  <2>2. g \in m[c.cur_buf] /\ g.at >= c.start + Begin /\ g.at < c.offset
    BY <1>2, <2>1 DEF Unsent
  <2>3. g.at \in Nat
    BY <2>1, <2>2 DEF Memories
  <2>4. QED BY <1>1, <2>1, <2>2, <2>3
<1>3. ASSUME NEW g \in Pending(c, m) PROVE FALSE
  <2>1. c.cur_buf # NO_BUFFER /\ c.offset <= c.start + Begin
    BY <1>3, WrittenIs DEF Pending, GroupsOf, NothingWritten
  <2>2. g.at \in Nat /\ g.len \in Nat /\ g.len > 0 /\ c.start + Begin <= g.at /\ g.at + g.len <= c.offset
    BY <1>3, WrittenIs, GroupFacts DEF Pending
  <2>3. QED BY <1>1, <2>1, <2>2
<1>4. QED BY <1>2, <1>3

\* What the kernel writes around a job touches no group of it, nor of a job before it.
LEMMA GroupsStay ==
  ASSUME NEW m \in Memories, NEW j \in Jobs, NEW k \in Jobs, j.from <= j.to,
         k = j \/ (k.buf = j.buf /\ k.buf # NO_BUFFER => k.to <= j.from)
  PROVE  GroupsOf(k, Patched(<< j >>, m)) = GroupsOf(k, m)
<1>1. j.from \in Nat /\ j.to \in Nat /\ k.to \in Nat /\ k.from \in Nat /\ Begin \in Nat /\ End \in Nat
  BY Constants DEF Jobs
<1>2. ASSUME NEW g \in GroupsOf(k, m), j.buf = k.buf PROVE ~Patches(j, g)
  <2>1. /\ g.at \in Nat /\ g.len \in Nat /\ g.len > 0 /\ k.buf # NO_BUFFER
        /\ k.from + Begin <= g.at /\ g.at + g.len <= k.to
    BY GroupFacts, Constants
  <2>2. QED BY <1>1, <1>2, <2>1 DEF Patches, Overlaps
<1>3. CASE k.buf = NO_BUFFER
  BY <1>3 DEF GroupsOf
<1>4. CASE k.buf # NO_BUFFER
  <2>1. k.buf \in Bufs
    BY <1>4 DEF Jobs
  <2>2. Patched(<< j >>, m)[k.buf] = {g \in m[k.buf] : j.buf = k.buf => ~Patches(j, g)}
    BY <2>1, PatchedOne
  <2>3. QED BY <1>2, <1>4, <2>2 DEF GroupsOf
<1>5. QED BY <1>3, <1>4

\* A flush commits what was written: no group changes its number.
LEMMA FlushNumbered ==
  ASSUME NEW c \in Contexts, Offsets(c), NEW r \in JobLists, Layout(c, r), NEW m \in Memories,
         NEW lo \in Nat, NEW hi \in Nat, Numbered(c, r, m, lo, hi)
  PROVE  Numbered(Flushed(c), r \o Sent(c), Patched(Sent(c), m), lo, hi)
<1> DEFINE d == Flushed(c)
           p == Patched(Sent(c), m)
<1>1. d \in Contexts /\ NothingWritten(d) /\ p \in Memories
  BY FlushContext, PatchedLists
<1>2. Unsent(d, p) = {} /\ Pending(d, p) = {}
  BY <1>1, NothingPending
<1>3. PICK f : NumberedBy(f, c, r, m, lo, hi)
  BY DEF Numbered
<1>4. Len(r) \in Nat /\ (\A i \in 1 .. Len(r) : r[i] \in Jobs) /\ f[Len(r)] \in Nat
  BY <1>3, JobOf DEF NumberedBy
<1>5. CASE Sent(c) = << >> /\ NothingWritten(c)
  <2>1. Pending(c, m) = {} /\ IdsAre(Pending(c, m), f[Len(r)], hi)
    BY <1>3, <1>5, NothingPending DEF NumberedBy
  <2>2. IdsAre({}, f[Len(r)], hi)
    BY <2>1
  <2>3. r \o Sent(c) = r /\ p = m
    BY <1>5, JobOf, PatchedLists
  <2> HIDE DEF d, p
  <2>4. NumberedBy(f, d, r, p, lo, hi)
    BY <1>2, <1>3, <2>2, <2>3 DEF NumberedBy
  <2>5. Numbered(d, r \o Sent(c), p, lo, hi)
    BY <1>2, <2>3, <2>4 DEF Numbered
  <2>6. QED BY <2>5 DEF d, p
<1>6. ASSUME NEW j \in Jobs, Sent(c) = << j >>, j.from <= j.to,
             \A i \in 1 .. Len(r) : r[i].buf # NO_BUFFER /\ r[i].buf = j.buf => r[i].to <= j.from,
             IdsAre(GroupsOf(j, m), f[Len(r)], hi)
      PROVE  Numbered(Flushed(c), r \o Sent(c), Patched(Sent(c), m), lo, hi)
  <2> DEFINE q == r \o << j >>
             n == Len(r)
             e == [i \in 0 .. n + 1 |-> IF i <= n THEN f[i] ELSE hi]
  <2>1. /\ q \in JobLists /\ Len(q) = n + 1 /\ q[n + 1] = j
        /\ \A i \in 1 .. n : q[i] = r[i]
    BY OneMore
  <2>2. p = Patched(<< j >>, m)
    BY <1>6
  <2>3. GroupsOf(j, p) = GroupsOf(j, m) /\ \A i \in 1 .. n : GroupsOf(r[i], p) = GroupsOf(r[i], m)
    BY <1>4, <1>6, <2>2, GroupsStay
  <2>4. n \in Nat /\ f \in [0 .. n -> Nat] /\ f[n] <= hi /\ f[0] = lo
        /\ \A i, k \in 0 .. n : i <= k => f[i] <= f[k]
    BY <1>3, <1>4 DEF NumberedBy, IdsAre
  <2> HIDE DEF q, n, p, d
  <2>5. /\ e \in [0 .. n + 1 -> Nat] /\ e[0] = lo /\ e[n + 1] = hi
        /\ \A i \in 0 .. n : e[i] = f[i]
    BY <2>4
  <2> HIDE DEF e
  <2>6. \A i, k \in 0 .. n + 1 : i <= k => e[i] <= e[k]
    <3> SUFFICES ASSUME NEW i \in 0 .. n + 1, NEW k \in 0 .. n + 1, i <= k PROVE e[i] <= e[k]
      OBVIOUS
    <3>1. CASE k <= n
      BY <2>4, <2>5, <3>1
    <3>2. CASE k = n + 1 /\ i <= n
      <4>1. f[i] <= f[n] /\ f[i] \in Nat /\ f[n] \in Nat
        BY <2>4, <3>2
      <4>2. QED BY <2>4, <2>5, <3>2, <4>1
    <3>3. CASE k = n + 1 /\ i = n + 1
      BY <2>5, <3>3
    <3>4. QED BY <2>4, <3>1, <3>2, <3>3
  <2>7. ASSUME NEW i \in 1 .. n + 1 PROVE IdsAre(GroupsOf(q[i], p), e[i - 1], e[i])
    <3>1. CASE i = n + 1
      <4>1. e[i - 1] = f[n] /\ e[i] = hi /\ GroupsOf(q[i], p) = GroupsOf(j, m)
        BY <2>1, <2>3, <2>4, <2>5, <3>1
      <4>2. QED BY <1>6, <4>1 DEF n
    <3>2. CASE i \in 1 .. n
      <4>1. i - 1 \in 0 .. n /\ i \in 0 .. n
        BY <2>4, <3>2
      <4>2. e[i - 1] = f[i - 1] /\ e[i] = f[i] /\ GroupsOf(q[i], p) = GroupsOf(r[i], m)
        BY <2>1, <2>3, <2>5, <3>2, <4>1
      <4>3. QED BY <1>3, <3>2, <4>2 DEF NumberedBy, n
    <3>3. QED BY <2>4, <3>1, <3>2
  <2>8. IdsAre(Pending(d, p), e[n + 1], hi)
    BY <1>2, <2>5, NoIds DEF d, p
  <2>9. NumberedBy(e, d, q, p, lo, hi)
    BY <2>1, <2>5, <2>6, <2>7, <2>8 DEF NumberedBy
  <2>10. Numbered(d, q, p, lo, hi)
    BY <1>2, <2>9 DEF Numbered, d, p
  <2>11. QED BY <1>6, <2>10 DEF d, p, q
<1>7. CASE NothingWritten(c) /\ Sent(c) = << Job(NO_BUFFER, 0, 0, c.queue) >>
           /\ Job(NO_BUFFER, 0, 0, c.queue) \in Jobs
  <2> DEFINE j == Job(NO_BUFFER, 0, 0, c.queue)
  <2>1. j.buf = NO_BUFFER /\ j.from <= j.to /\ GroupsOf(j, m) = {}
    BY DEF Job, GroupsOf
  <2>2. IdsAre({}, f[Len(r)], hi)
    BY <1>3, <1>7, NothingPending DEF NumberedBy
  <2> HIDE DEF j
  <2>3. QED BY <1>6, <1>7, <2>1, <2>2 DEF j
<1>8. CASE ~NothingWritten(c) /\ Sent(c) = << Written(c) >>
  <2>1. /\ c.cur_buf # NO_BUFFER /\ c.start <= c.offset /\ ~Spent(c)
    BY <1>8, Constants DEF NothingWritten, Spent, Contexts
  <2>2. \A i \in 1 .. Len(r) : r[i].buf # NO_BUFFER /\ r[i].buf = c.cur_buf => r[i].to <= c.start
    <3>1. \A i \in 1 .. Len(r) : r[i].to \in Nat
      BY <1>4, Constants DEF Jobs
    <3>2. c.start \in Nat /\ End \in Nat
      BY Constants DEF Contexts
    <3>3. QED BY <2>1, <3>1, <3>2 DEF Layout
  <2>3. IdsAre(GroupsOf(Written(c), m), f[Len(r)], hi)
    BY <1>3 DEF NumberedBy, Pending
  <2>4. QED BY <1>6, <1>8, <2>1, <2>2, <2>3, WrittenIs
<1>9. QED BY <1>5, <1>7, <1>8, FlushSends DEF Written

LEMMA QueueNumbered ==
  ASSUME NEW c \in Contexts, Offsets(c), NEW r \in JobLists, Layout(c, r), NEW m \in Memories,
         NEW lo \in Nat, NEW hi \in Nat, Numbered(c, r, m, lo, hi), NEW e \in Events
  PROVE  Numbered(Queued(c, e), r \o SentToQueue(c), Patched(SentToQueue(c), m), lo, hi)
<1>1. CASE QueueFull(c)
  <2>1. /\ SentToQueue(c) = Sent(c)
        /\ Numbered(Flushed(c), r \o Sent(c), Patched(Sent(c), m), lo, hi)
    BY <1>1, FlushNumbered DEF SentToQueue
  <2>2. /\ Queued(c, e).cur_buf = Flushed(c).cur_buf /\ Queued(c, e).start = Flushed(c).start
        /\ Queued(c, e).offset = Flushed(c).offset
    BY <1>1, QueueContext, FlushContext
  <2>3. QED BY <2>1, <2>2, NumberedSame
<1>2. CASE ~QueueFull(c)
  <2>1. SentToQueue(c) = << >> /\ r \o << >> = r /\ Patched(<< >>, m) = m
    BY <1>2, JobOf, PatchedLists DEF SentToQueue
  <2>2. /\ Queued(c, e).cur_buf = c.cur_buf /\ Queued(c, e).start = c.start
        /\ Queued(c, e).offset = c.offset
    BY <1>2, QueueContext
  <2>3. QED BY <2>1, <2>2, NumberedSame
<1>3. QED BY <1>1, <1>2

\* An event that is queued and flushed at once.
LEMMA SignalNumbered ==
  ASSUME NEW c \in Contexts, Offsets(c), NEW r \in JobLists, Layout(c, r), NEW m \in Memories,
         NEW lo \in Nat, NEW hi \in Nat, Numbered(c, r, m, lo, hi), NEW e \in Events
  PROVE  LET q == Queued(c, e)
             jobs == SentToQueue(c) \o Sent(q)
         IN  Numbered(Flushed(q), r \o jobs, Patched(jobs, m), lo, hi)
<1> DEFINE q == Queued(c, e)
           room == SentToQueue(c)
<1>1. q \in Contexts /\ Offsets(q)
  BY QueueContext
<1>2. Layout(q, r \o room) /\ r \o room \in JobLists
  BY QueueLayout
<1>3. Numbered(q, r \o room, Patched(room, m), lo, hi) /\ Patched(room, m) \in Memories
  BY QueueNumbered, PatchedLists
<1>4. room \in JobLists /\ Len(room) <= 1 /\ Sent(q) \in JobLists /\ Len(Sent(q)) <= 1
  BY <1>1, OneFlushSends
<1> HIDE DEF q, room
<1>5. Numbered(Flushed(q), (r \o room) \o Sent(q), Patched(Sent(q), Patched(room, m)), lo, hi)
  BY <1>1, <1>2, <1>3, FlushNumbered
<1>6. /\ r \o (room \o Sent(q)) = (r \o room) \o Sent(q)
      /\ Patched(room \o Sent(q), m) = Patched(Sent(q), Patched(room, m))
  BY SMTT(30), <1>4, TwoFlushesSend, PatchedLists
<1>7. QED BY <1>5, <1>6 DEF q, room

-----------------------------------------------------------------------------
(* The signal of etna_finish. *)

Unsignalled(r) == \A i \in 1 .. Len(r) : Hasnt(FinishSignal, r[i].events)

\* Outside of etna_finish its signal is nowhere; inside, it is with the last job, or set
\* and the GPU has executed all jobs.  A client that waits has committed what it wrote.
FinishInv ==
  /\ Hasnt(FinishSignal, ctx.queue)
  /\ pc # "finish" => ~signal[FinishSignal] /\ Unsignalled(ring)
  /\ pc = "finish" => /\ signal[FinishSignal] => ring = << >>
                      /\ \A i \in 1 .. Len(ring) - 1 : Hasnt(FinishSignal, ring[i].events)
  /\ pc \in {"switch", "finish"} => NothingWritten(ctx)

LEMMA FlushUnsignalled ==
  ASSUME NEW c \in Contexts, Offsets(c), NEW r \in JobLists, Unsignalled(r),
         Hasnt(FinishSignal, c.queue)
  PROVE  Unsignalled(r \o Sent(c)) /\ Hasnt(FinishSignal, Flushed(c).queue)
<1>1. Hasnt(FinishSignal, Flushed(c).queue)
  <2>1. Flushed(c).queue = << >> /\ DOMAIN << >> = {}
    BY FlushContext
  <2>2. QED BY <2>1 DEF Hasnt
<1>2. CASE Sent(c) = << >>
  BY <1>1, <1>2, JobOf
<1>3. ASSUME NEW j \in Jobs, Sent(c) = << j >>, j.events = c.queue
      PROVE  Unsignalled(r \o Sent(c))
  <2> DEFINE q == r \o << j >>
  <2>1. Len(q) = Len(r) + 1 /\ q[Len(r) + 1] = j /\ (\A i \in 1 .. Len(r) : q[i] = r[i])
        /\ Len(r) \in Nat
    BY OneMore, JobOf
  <2> HIDE DEF q
  <2>2. Unsignalled(q)
    BY <1>3, <2>1 DEF Unsignalled
  <2>3. QED BY <1>3, <2>2 DEF q
<1>4. QED BY <1>1, <1>2, <1>3, FlushSends DEF Job

LEMMA QueueUnsignalled ==
  ASSUME NEW c \in Contexts, Offsets(c), NEW r \in JobLists, Unsignalled(r),
         Hasnt(FinishSignal, c.queue), NEW e \in Events
  PROVE  /\ Unsignalled(r \o SentToQueue(c))
         /\ e # FinishSignal => Hasnt(FinishSignal, Queued(c, e).queue)
<1>1. Unsignalled(r \o SentToQueue(c))
  BY FlushUnsignalled, JobOf DEF SentToQueue
<1>2. ASSUME e # FinishSignal PROVE Hasnt(FinishSignal, Queued(c, e).queue)
  <2>1. Queued(c, e).queue = << e >> \/ Queued(c, e).queue = Append(c.queue, e)
    BY QueueContext
  <2>2. c.queue \in Seq(Events)
    BY DEF Contexts, EventLists
  <2>3. Hasnt(FinishSignal, << e >>) /\ Hasnt(FinishSignal, Append(c.queue, e))
    BY <1>2, <2>2 DEF Hasnt
  <2>4. QED BY <2>1, <2>3, Zenon
<1>3. QED BY <1>1, <1>2

\* A refused flush leaves an empty queue, and what was written.
LEMMA RefusedContext ==
  ASSUME NEW c \in Contexts
  PROVE  /\ FlushRefused(c).cur_buf = c.cur_buf /\ FlushRefused(c).start = c.start
         /\ FlushRefused(c).offset = c.offset /\ FlushRefused(c).queue = << >>
<1> DEFINE n == FlushCount(c)
<1>1. FlushRefused(c) = [c EXCEPT !.queue = << >>, !.flushes = n]
  BY DEF FlushRefused
<1> HIDE DEF n
<1>2. QED BY <1>1 DEF Contexts

LEMMA FinishNext ==
  ASSUME "wait" \notin Faults, Inv, FinishInv, [Next]_vars
  PROVE  FinishInv'
<1>1. /\ ctx \in Contexts /\ [ctx EXCEPT !.offset = Align(@)] = ctx /\ ring \in JobLists
      /\ signal \in SignalStates /\ FinishSignal \in Signals /\ Other \in Events /\ FinishSignal \in Events
      /\ Other # FinishSignal
  BY InvFacts, Constants DEF Signals, FinishSignal, Other
<1>2. pc \in {"idle", "write", "finish"} => Offsets(ctx)
  BY DEF Inv
<1>3. \A jobs : Send(jobs) => ring' = ring \o jobs
  BY DEF Send
<1>4. ASSUME ctx' = ctx, ring' = ring, signal' = signal,
             pc' = pc \/ (pc # "finish" /\ pc' \notin {"switch", "finish"})
      PROVE  FinishInv'
  BY <1>4 DEF FinishInv, NothingWritten, Unsignalled, Hasnt
<1>5. ASSUME NEW n \in Reserves, Reserve(n) \/ ReserveAborts(n) PROVE FinishInv'
  BY <1>1, <1>4, <1>5 DEF Reserve, ReserveAborts
<1>6. ASSUME NEW n \in Reserves, ReserveFirst(n) PROVE FinishInv'
  BY <1>6 DEF ReserveFirst, FinishInv, NothingWritten, Unsignalled, Hasnt
<1>7. ASSUME NEW c \in Contexts, Offsets(c), ctx' = Flushed(c), pc' \in {"idle", "switch"},
             pc = "idle", signal' = signal, Unsignalled(ring')
      PROVE  FinishInv'
  <2>1. NothingWritten(ctx') /\ Hasnt(FinishSignal, ctx'.queue)
    <3>1. NothingWritten(Flushed(c)) /\ Flushed(c).queue = << >>
      BY <1>7, FlushContext
    <3>2. QED BY <1>7, <3>1 DEF Hasnt
  <2>2. QED BY <1>7, <2>1 DEF FinishInv, NothingWritten, Unsignalled, Hasnt
<1>8. ASSUME NEW n \in Reserves, ReserveFull(n) PROVE FinishInv'
  <2> DEFINE q == Queued(ctx, ctx.cur_buf)
             room == SentToQueue(ctx)
  <2>1. /\ pc = "idle" /\ pc' = "switch" /\ ctx.cur_buf # NO_BUFFER /\ ctx' = Flushed(q)
        /\ Send(room \o Sent(q)) /\ signal' = signal
    BY <1>1, <1>8 DEF ReserveFull
  <2>2. ctx.cur_buf \in Events /\ ctx.cur_buf # FinishSignal
    BY <1>1, <2>1, Constants DEF Contexts
  <2>3. q \in Contexts /\ Offsets(q)
    BY <1>1, <1>2, <2>1, <2>2, QueueContext
  <2>4. Unsignalled(ring \o room) /\ Hasnt(FinishSignal, q.queue)
    BY <1>1, <1>2, <2>1, <2>2, QueueUnsignalled DEF FinishInv
  <2>5. /\ room \in JobLists /\ Len(room) <= 1 /\ Sent(q) \in JobLists /\ Len(Sent(q)) <= 1
        /\ ring \o room \in JobLists
    BY <1>1, <1>2, <2>1, <2>2, <2>3, OneFlushSends, QueueLayout DEF Inv
  <2>6. ring' = (ring \o room) \o Sent(q)
    <3>1. ring' = ring \o (room \o Sent(q))
      BY <1>3, <2>1
    <3>2. QED BY SMTT(30), <1>1, <2>5, <3>1, TwoFlushesSend
  <2>7. Unsignalled(ring')
    BY <2>3, <2>4, <2>5, <2>6, FlushUnsignalled
  <2> HIDE DEF q
  <2>8. QED BY <1>7, <2>1, <2>3, <2>7
<1>9. ASSUME NEW len \in 1 .. need, Write(len) PROVE FinishInv'
  <2>1. /\ pc = "write" /\ pc' = "idle" /\ ring' = ring /\ signal' = signal
        /\ ctx' = [ctx EXCEPT !.offset = ctx.offset + len]
    BY <1>9 DEF Write
  <2>2. ctx'.queue = ctx.queue
    BY <1>1, <2>1 DEF Contexts
  <2>3. QED BY <2>1, <2>2 DEF FinishInv, Unsignalled, Hasnt
<1>10. CASE WriteNothing
  BY <1>4, <1>10 DEF WriteNothing
<1>11. CASE Flush
  <2>1. pc = "idle" /\ pc' = "idle" /\ ctx' = Flushed(ctx) /\ ring' = ring \o Sent(ctx) /\ signal' = signal
    BY <1>3, <1>11 DEF Flush
  <2>2. QED BY <1>1, <1>2, <1>7, <2>1, FlushUnsignalled DEF FinishInv
<1>12. CASE QueueEvent
  <2>1. /\ pc = "idle" /\ pc' = "idle" /\ ctx' = Queued(ctx, Other)
        /\ ring' = ring \o SentToQueue(ctx) /\ signal' = signal
    BY <1>3, <1>12 DEF QueueEvent
  <2>2. Unsignalled(ring \o SentToQueue(ctx)) /\ Hasnt(FinishSignal, Queued(ctx, Other).queue)
    BY <1>1, <1>2, <2>1, QueueUnsignalled DEF FinishInv
  <2>3. QED BY <2>1, <2>2 DEF FinishInv, Unsignalled, Hasnt
<1>13. CASE FlushFails \/ QueueEventFails
  <2>1. /\ pc = "idle" /\ pc' = "idle" /\ ctx' = FlushRefused(ctx) /\ ring' = ring /\ signal' = signal
    BY <1>13 DEF FlushFails, QueueEventFails
  <2>2. ctx'.queue = << >>
    BY <1>1, <2>1, RefusedContext
  <2>3. QED BY <2>1, <2>2 DEF FinishInv, Unsignalled, Hasnt
<1>14. CASE FinishFails
  <2>1. /\ pc = "idle" /\ pc' = "idle" /\ ctx' = FlushRefused(Queued(ctx, FinishSignal))
        /\ ring' = ring \o SentToQueue(ctx) /\ signal' = signal
    BY <1>3, <1>14 DEF FinishFails
  <2>2. Unsignalled(ring \o SentToQueue(ctx)) /\ Queued(ctx, FinishSignal) \in Contexts
    BY <1>1, <1>2, <2>1, QueueUnsignalled, QueueContext DEF FinishInv
  <2>3. ctx'.queue = << >>
    BY <2>1, <2>2, RefusedContext
  <2>4. Unsignalled(ring')
    BY <2>1, <2>2
  <2>5. QED BY <2>1, <2>3, <2>4 DEF FinishInv, Hasnt
<1>15. CASE Finish
  <2> DEFINE q == Queued(ctx, FinishSignal)
             room == SentToQueue(ctx)
  <2>1. /\ pc = "idle" /\ pc' = "finish" /\ ctx' = Flushed(q)
        /\ Send(room \o Sent(q)) /\ signal' = signal
    BY <1>15 DEF Finish
  <2>2. q \in Contexts /\ Offsets(q)
    BY <1>1, <1>2, <2>1, QueueContext
  <2>3. Unsignalled(ring \o room) /\ ~signal[FinishSignal]
    BY <1>1, <1>2, <2>1, QueueUnsignalled DEF FinishInv
  <2>4. /\ room \in JobLists /\ Len(room) <= 1 /\ Sent(q) \in JobLists /\ Len(Sent(q)) <= 1
        /\ ring \o room \in JobLists
    BY <1>1, <1>2, <2>1, <2>2, OneFlushSends, QueueLayout DEF Inv
  <2>5. ring' = (ring \o room) \o Sent(q)
    <3>1. ring' = ring \o (room \o Sent(q))
      BY <1>3, <2>1
    <3>2. QED BY SMTT(30), <1>1, <2>4, <3>1, TwoFlushesSend
  <2>6. \A i \in 1 .. Len(ring') - 1 : Hasnt(FinishSignal, ring'[i].events)
    <3> DEFINE r == ring \o room
    <3>1. r \in JobLists /\ Len(r) \in Nat /\ Unsignalled(r) /\ r \o << >> = r
      BY <2>3, <2>4, JobOf
    <3> HIDE DEF r
    <3>2. CASE Sent(q) = << >>
      <4>1. ring' = r
        BY <2>5, <3>1, <3>2 DEF r
      <4>2. QED BY <3>1, <4>1 DEF Unsignalled
    <3>3. ASSUME NEW j \in Jobs, Sent(q) = << j >>
          PROVE  \A i \in 1 .. Len(ring') - 1 : Hasnt(FinishSignal, ring'[i].events)
      <4>1. ring' = r \o << j >>
        BY <2>5, <3>3 DEF r
      <4>2. Len(ring') = Len(r) + 1 /\ \A i \in 1 .. Len(r) : ring'[i] = r[i]
        BY <3>1, <4>1, OneMore
      <4>3. QED BY <3>1, <4>2 DEF Unsignalled
    <3>4. QED BY <2>2, <3>2, <3>3, FlushSends
  <2>7. NothingWritten(ctx') /\ Hasnt(FinishSignal, ctx'.queue)
    <3>1. NothingWritten(Flushed(q)) /\ Flushed(q).queue = << >>
      BY <2>2, FlushContext
    <3>2. QED BY <2>1, <3>1 DEF Hasnt
  <2> HIDE DEF q, room
  <2>8. QED BY <2>1, <2>3, <2>6, <2>7 DEF FinishInv, NothingWritten, Unsignalled, Hasnt
<1>16. CASE SwitchNextBuffer
  <2>1. /\ pc = "switch" /\ pc' = "write" /\ ring' = ring
        /\ ctx' = [ctx EXCEPT !.cur_buf = NextBuffer(ctx.cur_buf), !.start = 0, !.offset = Begin]
        /\ signal' = [signal EXCEPT ![NextBuffer(ctx.cur_buf)] = FALSE]
    BY <1>16 DEF SwitchNextBuffer
  <2>2. ctx'.queue = ctx.queue
    BY <1>1, <2>1 DEF Contexts
  <2>3. ~signal'[FinishSignal]
    BY <1>1, <2>1 DEF FinishInv, SignalStates
  <2>4. QED BY <2>1, <2>2, <2>3 DEF FinishInv, Unsignalled, Hasnt
<1>17. CASE FinishWait
  <2>1. /\ pc = "finish" /\ signal[FinishSignal] /\ pc' = "idle" /\ ctx' = ctx /\ ring' = ring
        /\ signal' = [signal EXCEPT ![FinishSignal] = FALSE]
    BY <1>17 DEF FinishWait
  <2>2. ~signal'[FinishSignal] /\ ring' = << >>
    BY <1>1, <2>1 DEF FinishInv, SignalStates
  <2>3. Unsignalled(ring')
    <3>1. 1 .. Len(ring') = {}
      BY <2>2
    <3>2. QED BY <3>1 DEF Unsignalled
  <2>4. QED BY <2>1, <2>2, <2>3 DEF FinishInv, Hasnt
<1>18. CASE GpuExecute
  <2>1. /\ ring # << >> /\ ring' = Tail(ring) /\ ctx' = ctx /\ pc' = pc
        /\ signal' = [s \in Signals |-> signal[s] \/ s \in Range(Head(ring).events)]
    BY <1>18 DEF GpuExecute
  <2>2. /\ Tail(ring) \in JobLists /\ Len(ring) \in Nat /\ Len(ring) > 0
        /\ Len(Tail(ring)) = Len(ring) - 1 /\ Head(ring) = ring[1]
        /\ \A i \in 1 .. Len(ring) - 1 : Tail(ring)[i] = ring[i + 1]
    BY <1>1, <2>1, OneLess
  <2>3. signal'[FinishSignal] <=> signal[FinishSignal] \/ ~Hasnt(FinishSignal, Head(ring).events)
    BY <1>1, <2>1, Zenon DEF Hasnt, Range
  <2>4. CASE pc # "finish"
    <3>1. Hasnt(FinishSignal, Head(ring).events) /\ ~signal'[FinishSignal]
      BY <2>2, <2>3, <2>4 DEF FinishInv, Unsignalled
    <3>2. Unsignalled(ring')
      BY <2>1, <2>2, <2>4 DEF FinishInv, Unsignalled
    <3>3. QED BY <2>1, <2>4, <3>1, <3>2 DEF FinishInv, NothingWritten, Hasnt
  <2>5. CASE pc = "finish"
    <3>1. ~signal[FinishSignal]
      BY <2>1, <2>5 DEF FinishInv
    <3>2. ASSUME signal'[FinishSignal] PROVE ring' = << >>
      <4>1. ~Hasnt(FinishSignal, ring[1].events)
        BY <2>2, <2>3, <3>1, <3>2
      <4>2. Len(ring) = 1
        <5> DEFINE n == Len(ring)
        <5>1. 1 \notin 1 .. n - 1
          BY <2>5, <4>1 DEF FinishInv
        <5>2. n \in Nat /\ n > 0
          BY <2>2
        <5> HIDE DEF n
        <5>3. n = 1
          BY <5>1, <5>2
        <5>4. QED BY <5>3 DEF n
      <4>3. Tail(ring) \in Seq(Jobs) /\ Len(Tail(ring)) = 0
        BY <2>2, <4>2 DEF JobLists
      <4>4. QED BY <2>1, <4>3, EmptySeq
    <3>3. \A i \in 1 .. Len(ring') - 1 : Hasnt(FinishSignal, ring'[i].events)
      <4>1. \A i \in 1 .. Len(ring') - 1 : ring'[i] = ring[i + 1] /\ i + 1 \in 1 .. Len(ring) - 1
        BY <2>1, <2>2
      <4>2. QED BY <2>5, <4>1 DEF FinishInv
    <3>4. QED BY <2>1, <2>5, <3>2, <3>3 DEF FinishInv, NothingWritten, Hasnt
  <2>6. QED BY <2>4, <2>5
<1>19. CASE UNCHANGED vars
  BY <1>4, <1>19 DEF vars
<1>20. ~(SwitchAborts \/ FinishWaitFails)
  BY DEF SwitchAborts, FinishWaitFails
<1>21. QED
  BY <1>5, <1>6, <1>8, <1>9, <1>10, <1>11, <1>12, <1>13, <1>14, <1>15, <1>16, <1>17, <1>18, <1>19,
     <1>20 DEF Next, Client, Wake, WaitFails

-----------------------------------------------------------------------------
(* What the client writes, and what the GPU takes. *)

\* A group gets the next number; it lies behind what was written, and in no commit.
LEMMA WriteNumbered ==
  ASSUME Inv, NEW len \in 1 .. need, Write(len), NEW f, NEW lo,
         NumberedBy(f, ctx, ring, mem, lo, emitted), Unsent(ctx, mem) = Pending(ctx, mem)
  PROVE  /\ NumberedBy(f, ctx', ring', mem', lo, emitted')
         /\ Unsent(ctx', mem') = Pending(ctx', mem')
<1> DEFINE b == ctx.cur_buf
           o == ctx.offset
           g == Group(o, len, emitted + 1)
           from == ctx.start + Begin
<1>1. /\ pc = "write" /\ ring' = ring /\ emitted' = emitted + 1
      /\ mem' = [mem EXCEPT ![b] = Without(@, o, o + len) \union {g}]
      /\ ctx' = [ctx EXCEPT !.offset = o + len]
  BY DEF Write
<1>2. /\ ctx \in Contexts /\ ring \in JobLists /\ need \in Reserves /\ b # NO_BUFFER
      /\ o + need + End <= Size /\ Offsets(ctx) /\ Layout(ctx, ring)
  BY <1>1, InvFacts DEF Inv, Fits
<1>3. need \in 1 .. Size - Begin - End
  BY <1>2, ReserveAssumption
<1>4. /\ o \in Nat /\ len \in Nat /\ len > 0 /\ ctx.start \in Nat /\ b \in Bufs
      /\ Begin \in Nat /\ End \in Nat /\ Size \in Nat /\ from \in Nat /\ emitted \in Nat
  BY <1>2, <1>3, Constants DEF Contexts, Inv, TypeOK
<1>5. ~Spent(ctx)
  <2>1. o # Size - End
    BY <1>2, <1>3, <1>4
  <2>2. QED BY <2>1 DEF Spent
<1>6. from <= o
  BY <1>2, <1>5 DEF Offsets
<1>7. /\ ctx'.cur_buf = b /\ ctx'.start = ctx.start /\ ctx'.offset = o + len
  BY <1>1, <1>2 DEF Contexts
<1>8. mem \in Memories
  BY DEF Inv, TypeOK, Memories
<1>9. /\ mem'[b] = Without(mem[b], o, o + len) \union {g}
      /\ \A x \in Bufs : x # b => mem'[x] = mem[x]
  BY <1>1, <1>4, <1>8 DEF Memories
<1>10. /\ Pending(ctx, mem) = {h \in mem[b] : h.at >= from /\ h.at + h.len <= o}
       /\ Pending(ctx', mem') = {h \in mem'[b] : h.at >= from /\ h.at + h.len <= o + len}
       /\ Unsent(ctx, mem) = {h \in mem[b] : h.at >= from /\ h.at < o}
       /\ Unsent(ctx', mem') = {h \in mem'[b] : h.at >= from /\ h.at < o + len}
  BY <1>2, <1>7 DEF Pending, GroupsOf, Written, Job, Unsent
<1>11. g.at = o /\ g.len = len /\ g.id = emitted + 1
  BY DEF Group
<1>12. \A h \in mem[b] : h.at \in Nat /\ h.len \in Nat /\ h.len > 0 /\ h.id \in Nat
  BY <1>4, <1>8 DEF Memories
<1> HIDE DEF b, o, g, from
<1>13. \A h \in mem[b] : Overlaps(h, o, o + len) <=> h.at < o + len /\ o < h.at + h.len
  BY DEF Overlaps
<1>14. Pending(ctx', mem') = Pending(ctx, mem) \union {g}
  <2>1. ASSUME NEW h \in Pending(ctx', mem'), h # g PROVE h \in Pending(ctx, mem)
    <3>1. /\ h \in mem[b] /\ ~(h.at < o + len /\ o < h.at + h.len)
          /\ h.at >= from /\ h.at + h.len <= o + len
      BY <1>9, <1>10, <1>13, <2>1 DEF Without
    <3>2. h.at + h.len <= o
      BY <1>4, <1>12, <3>1
    <3>3. QED BY <1>10, <3>1, <3>2
  <2>2. ASSUME NEW h \in Pending(ctx, mem) PROVE h \in Pending(ctx', mem')
    <3>1. h \in mem[b] /\ h.at >= from /\ h.at + h.len <= o
      BY <1>10
    <3>2. ~(h.at < o + len /\ o < h.at + h.len) /\ h.at + h.len <= o + len
      BY <1>4, <1>12, <3>1
    <3>3. QED BY <1>9, <1>10, <1>13, <3>1, <3>2 DEF Without
  <2>3. g \in Pending(ctx', mem')
    BY <1>4, <1>6, <1>9, <1>10, <1>11
  <2>4. QED BY <2>1, <2>2, <2>3
<1>15. Unsent(ctx', mem') = Pending(ctx, mem) \union {g}
  <2>1. ASSUME NEW h \in Unsent(ctx', mem'), h # g PROVE h \in Unsent(ctx, mem)
    <3>1. /\ h \in mem[b] /\ ~(h.at < o + len /\ o < h.at + h.len)
          /\ h.at >= from /\ h.at < o + len
      BY <1>9, <1>10, <1>13, <2>1 DEF Without
    <3>2. h.at < o
      BY <1>4, <1>12, <3>1
    <3>3. QED BY <1>10, <3>1, <3>2
  <2>2. ASSUME NEW h \in Pending(ctx, mem) PROVE h \in Unsent(ctx', mem')
    <3>1. h \in mem[b] /\ h.at >= from /\ h.at + h.len <= o
      BY <1>10
    <3>2. ~(h.at < o + len /\ o < h.at + h.len) /\ h.at < o + len
      BY <1>4, <1>12, <3>1
    <3>3. QED BY <1>9, <1>10, <1>13, <3>1, <3>2 DEF Without
  <2>3. g \in Unsent(ctx', mem')
    BY <1>4, <1>6, <1>9, <1>10, <1>11
  <2>4. QED BY <2>1, <2>2, <2>3
<1>16. /\ Len(ring) \in Nat /\ f \in [0 .. Len(ring) -> Nat] /\ f[Len(ring)] \in Nat
       /\ IdsAre(Pending(ctx, mem), f[Len(ring)], emitted)
  BY <1>2, JobOf DEF NumberedBy
<1>17. IdsAre(Pending(ctx, mem) \union {g}, f[Len(ring)], emitted + 1)
  <2> DEFINE n == f[Len(ring)]
             G == Pending(ctx, mem)
  <2>1. n \in Nat /\ IdsAre(G, n, emitted) /\ n <= emitted
    BY <1>16 DEF IdsAre
  <2>2. \A h \in G : /\ h.at \in Nat /\ h.id \in Nat /\ h.at < o
                     /\ n < h.id /\ h.id <= emitted
    <3>1. \A h \in G : h \in mem[b] /\ h.at + h.len <= o
      BY <1>10
    <3>2. QED BY <1>4, <1>12, <2>1, <3>1 DEF IdsAre
  <2> HIDE DEF n, G
  <2>3. \A h \in G \union {g} : n < h.id /\ h.id <= emitted + 1
    BY <1>4, <1>11, <2>1, <2>2
  <2>4. ASSUME NEW k \in n + 1 .. emitted + 1 PROVE \E h \in G \union {g} : h.id = k
    <3>1. CASE k = emitted + 1
      BY <1>11, <3>1
    <3>2. CASE k \in n + 1 .. emitted
      BY <2>1, <3>2 DEF IdsAre
    <3>3. QED BY <1>4, <2>1, <3>1, <3>2
  <2>5. \A x, y \in G : (x.at < y.at <=> x.id < y.id) /\ (x.id = y.id => x = y)
    BY <2>1 DEF IdsAre
  <2>6. \A x, y \in G \union {g} : (x.at < y.at <=> x.id < y.id) /\ (x.id = y.id => x = y)
    BY <1>4, <1>11, <2>2, <2>5
  <2>7. QED BY <1>4, <2>1, <2>3, <2>4, <2>6 DEF IdsAre, n, G
<1>18. ASSUME NEW i \in 1 .. Len(ring) PROVE GroupsOf(ring[i], mem') = GroupsOf(ring[i], mem)
  <2>1. ring[i] \in Jobs /\ ring[i].to \in Nat
    BY <1>2, JobOf DEF Jobs
  <2>2. CASE ring[i].buf = NO_BUFFER
    BY <2>2 DEF GroupsOf
  <2>3. CASE ring[i].buf # NO_BUFFER /\ ring[i].buf # b
    BY <1>9, <2>1, <2>3 DEF GroupsOf, Jobs
  <2>4. CASE ring[i].buf # NO_BUFFER /\ ring[i].buf = b
    <3>1. ring[i].to + End <= ctx.start
      BY <1>2, <1>5, <2>4 DEF Layout, b
    <3>2. ring[i].to <= o
      BY SMTT(30), <1>4, <1>6, <2>1, <3>1 DEF from
    <3>3. \A h \in mem[b] : h.at + h.len <= ring[i].to => ~Overlaps(h, o, o + len)
      BY <1>4, <1>12, <1>13, <2>1, <3>2
    <3>4. ~(g.at + g.len <= ring[i].to)
      BY <1>4, <1>11, <2>1, <3>2
    <3>5. \A h : h \in mem'[b] /\ h.at + h.len <= ring[i].to <=> h \in mem[b] /\ h.at + h.len <= ring[i].to
      BY <1>9, <3>3, <3>4 DEF Without
    <3>6. QED BY <2>4, <3>5 DEF GroupsOf
  <2>5. QED BY <2>2, <2>3, <2>4
<1>19. NumberedBy(f, ctx', ring, mem', lo, emitted + 1)
  BY <1>14, <1>17, <1>18 DEF NumberedBy
<1>20. QED BY <1>1, <1>14, <1>15, <1>19

\* The numbers of the first job are the next ones, and come off the front.
LEMMA GpuNumbered ==
  ASSUME Inv, ring # << >>, NEW f, NEW lo \in Nat, NumberedBy(f, ctx, ring, mem, lo, emitted)
  PROVE  /\ f[1] \in Nat /\ f[Len(ring)] \in Nat /\ lo <= f[1] /\ f[1] <= f[Len(ring)]
         /\ Fetched(Head(ring)) = [i \in 1 .. f[1] - lo |-> lo + i]
         /\ \E e : NumberedBy(e, ctx, Tail(ring), mem, f[1], emitted)
<1>1. /\ ring \in JobLists /\ mem \in Memories
  BY InvFacts DEF Inv, TypeOK, Memories
<1> DEFINE n == Len(ring)
           t == Tail(ring)
<1>2. /\ n \in Nat /\ n > 0 /\ Len(t) = n - 1 /\ Head(ring) = ring[1] /\ ring[1] \in Jobs
      /\ \A i \in 1 .. n - 1 : t[i] = ring[i + 1]
  BY <1>1, OneLess
<1>3. /\ f \in [0 .. n -> Nat] /\ f[0] = lo /\ (\A i, j \in 0 .. n : i <= j => f[i] <= f[j])
      /\ (\A i \in 1 .. n : IdsAre(GroupsOf(ring[i], mem), f[i - 1], f[i]))
      /\ IdsAre(Pending(ctx, mem), f[n], emitted)
  BY DEF NumberedBy
<1> HIDE DEF n, t
<1>4. f[1] \in Nat /\ f[n] \in Nat /\ lo <= f[1] /\ f[1] <= f[n]
  <2>1. 0 \in 0 .. n /\ 1 \in 0 .. n /\ n \in 0 .. n /\ 0 <= 1 /\ 1 <= n
    BY <1>2
  <2>2. QED BY <1>3, <2>1
<1>5. Fetched(Head(ring)) = [i \in 1 .. f[1] - lo |-> lo + i]
  <2>1. 1 \in 1 .. n /\ 1 - 1 = 0
    BY <1>2
  <2>2. IdsAre(GroupsOf(ring[1], mem), lo, f[1])
    BY <1>3, <2>1
  <2>3. \A g \in GroupsOf(ring[1], mem) : g.id \in Nat
    BY <1>1, <1>2, GroupFacts
  <2>4. QED BY <1>2, <1>4, <2>2, <2>3, FetchedInOrder
<1> DEFINE e == [i \in 0 .. n - 1 |-> f[i + 1]]
<1>6. e \in [0 .. n - 1 -> Nat] /\ e[0] = f[1] /\ e[n - 1] = f[n] /\ \A i \in 0 .. n - 1 : e[i] = f[i + 1]
  BY <1>2, <1>3
<1> HIDE DEF e
<1>7. \A i, j \in 0 .. n - 1 : i <= j => e[i] <= e[j]
  <2> SUFFICES ASSUME NEW i \in 0 .. n - 1, NEW j \in 0 .. n - 1, i <= j PROVE e[i] <= e[j]
    OBVIOUS
  <2>1. i + 1 \in 0 .. n /\ j + 1 \in 0 .. n /\ i + 1 <= j + 1
    BY <1>2
  <2>2. f[i + 1] <= f[j + 1]
    BY <1>3, <2>1
  <2>3. QED BY <1>6, <2>2
<1>8. ASSUME NEW i \in 1 .. n - 1 PROVE IdsAre(GroupsOf(t[i], mem), e[i - 1], e[i])
  <2>1. i + 1 \in 1 .. n /\ i - 1 \in 0 .. n - 1 /\ i \in 0 .. n - 1 /\ (i + 1) - 1 = i /\ (i - 1) + 1 = i
    BY <1>2
  <2>2. IdsAre(GroupsOf(ring[i + 1], mem), f[(i + 1) - 1], f[i + 1])
    BY <1>3, <2>1
  <2>3. e[i - 1] = f[i] /\ e[i] = f[i + 1] /\ t[i] = ring[i + 1]
    BY <1>2, <1>6, <2>1
  <2>4. QED BY <2>1, <2>2, <2>3
<1>9. NumberedBy(e, ctx, t, mem, f[1], emitted)
  BY <1>2, <1>3, <1>6, <1>7, <1>8 DEF NumberedBy
<1>10. QED BY <1>4, <1>5, <1>9 DEF n, t

-----------------------------------------------------------------------------
(* Every step is a step of the stream, or none. *)

StreamInv ==
  /\ executed \in Seq(Nat)
  /\ Numbered(ctx, ring, mem, Len(executed), emitted)
  /\ FinishInv

\* What was handed over goes to the last number of the jobs.
LEMMA SubmittedIs ==
  ASSUME NEW c \in Contexts, NEW r \in JobLists, NEW m \in Memories, NEW f, NEW lo, NEW hi \in Nat,
         NumberedBy(f, c, r, m, lo, hi), Unsent(c, m) = Pending(c, m)
  PROVE  hi - Cardinality(Unsent(c, m)) = f[Len(r)] /\ f[Len(r)] \in Nat
<1>1. Len(r) \in Nat /\ f \in [0 .. Len(r) -> Nat] /\ IdsAre(Pending(c, m), f[Len(r)], hi)
  BY JobOf DEF NumberedBy
<1>2. f[Len(r)] \in Nat
  BY <1>1
<1>3. \A g \in Pending(c, m) : g.id \in Nat
  BY WrittenIs, GroupFacts DEF Pending
<1>4. Cardinality(Pending(c, m)) = hi - f[Len(r)]
  BY <1>1, <1>2, <1>3, IdsCount
<1>5. QED BY <1>2, <1>4

LEMMA StreamInit == Init => StreamInv /\ Stream!Init
<1> SUFFICES ASSUME Init PROVE StreamInv /\ Stream!Init
  OBVIOUS
<1>1. /\ ctx.cur_buf = NO_BUFFER /\ ctx.queue = << >> /\ ring = << >> /\ Len(ring) = 0
      /\ pc = "idle" /\ emitted = 0 /\ executed = << >> /\ Len(executed) = 0
      /\ signal = [s \in Signals |-> s \in Bufs]
  BY DEF Init
<1>2. Unsent(ctx, mem) = {} /\ Pending(ctx, mem) = {} /\ Unsubmitted = {}
  BY <1>1 DEF Unsent, Pending, Written, Job, GroupsOf, Unsubmitted
<1>3. NumberedBy([i \in 0 .. 0 |-> 0], ctx, ring, mem, 0, 0)
  <2> DEFINE f == [i \in 0 .. 0 |-> 0]
  <2>1. f \in [0 .. 0 -> Nat] /\ f[0] = 0 /\ 1 .. 0 = {}
    OBVIOUS
  <2>2. \A i, j \in 0 .. 0 : f[i] <= f[j]
    OBVIOUS
  <2> HIDE DEF f
  <2>3. IdsAre(Pending(ctx, mem), f[0], 0)
    BY <1>2, <2>1, NoIds
  <2>4. QED BY <1>1, <2>1, <2>2, <2>3 DEF NumberedBy, f
<1>4. FinishInv
  <2>1. 1 .. Len(ring) = {} /\ DOMAIN ctx.queue = {}
    BY <1>1
  <2>2. FinishSignal \in Signals /\ FinishSignal \notin Bufs
    BY Constants DEF FinishSignal, Signals
  <2>3. ~signal[FinishSignal]
    BY <1>1, <2>2
  <2>4. QED BY <1>1, <2>1, <2>3 DEF FinishInv, Unsignalled, Hasnt
<1>5. StreamInv
  BY <1>1, <1>2, <1>3, <1>4 DEF StreamInv, Numbered
<1>6. emitted - Cardinality(Unsubmitted) = 0
  BY <1>1, <1>2, FS_EmptySet
<1>7. QED BY <1>1, <1>5, <1>6 DEF Stream!Init

LEMMA StreamStep ==
  ASSUME "wait" \notin Faults, Inv, Inv', StreamInv, [Next]_vars
  PROVE  /\ executed' \in Seq(Nat)
         /\ Numbered(ctx', ring', mem', Len(executed'), emitted')
         /\ [Stream!Next]_(Stream!svars)
<1> DEFINE Goal == /\ executed' \in Seq(Nat)
                   /\ Numbered(ctx', ring', mem', Len(executed'), emitted')
                   /\ [Stream!Next]_(Stream!svars)
<1>1. /\ ctx \in Contexts /\ [ctx EXCEPT !.offset = Align(@)] = ctx /\ ring \in JobLists
      /\ Layout(ctx, ring) /\ mem \in Memories /\ emitted \in Nat
      /\ executed \in Seq(Nat) /\ Len(executed) \in Nat
      /\ Numbered(ctx, ring, mem, Len(executed), emitted)
      /\ Unsubmitted = Unsent(ctx, mem) /\ Unsent(ctx, mem) = Pending(ctx, mem)
  <2>1. /\ ctx \in Contexts /\ [ctx EXCEPT !.offset = Align(@)] = ctx /\ ring \in JobLists
        /\ Layout(ctx, ring)
    BY InvFacts DEF Inv
  <2>2. mem \in Memories /\ emitted \in Nat
    BY SMTT(30) DEF Inv, TypeOK, Memories
  <2>3. executed \in Seq(Nat) /\ Numbered(ctx, ring, mem, Len(executed), emitted)
    BY DEF StreamInv
  <2>4. Len(executed) \in Nat
    BY <2>3, LenProperties
  <2>5. Unsubmitted = Unsent(ctx, mem)
    BY DEF Unsubmitted, Unsent
  <2>6. Unsent(ctx, mem) = Pending(ctx, mem)
    BY <2>3 DEF Numbered
  <2>7. QED BY <2>1, <2>2, <2>3, <2>4, <2>5, <2>6
<1>2. pc \in {"idle", "write", "finish"} => Offsets(ctx)
  BY DEF Inv
<1>3. \A jobs : Send(jobs) => ring' = ring \o jobs /\ mem' = Patched(jobs, mem)
  BY DEF Send, Patched
<1>4. Unsubmitted' = Unsent(ctx', mem') /\ ctx' \in Contexts /\ mem' \in Memories /\ ring' \in JobLists
  BY SMTT(30) DEF Unsubmitted, Unsent, Inv, TypeOK, Contexts, EventLists, Memories, JobLists
\* Nothing is written, sent or executed.
<1>5. ASSUME Unsubmitted' = Unsubmitted, UNCHANGED << emitted, executed >>,
             (pc' = "finish") <=> (pc = "finish")
      PROVE  [Stream!Next]_(Stream!svars)
  <2>1. (pc = "finish")' = (pc = "finish")
    BY <1>5
  <2>2. UNCHANGED Stream!svars
    BY <1>5, <2>1 DEF Stream!svars
  <2>3. QED BY <2>2
<1>6. ASSUME ctx' = ctx, ring' = ring, mem' = mem, UNCHANGED << emitted, executed >>,
             (pc' = "finish") <=> (pc = "finish")
      PROVE  Goal
  <2>1. Unsubmitted' = Unsubmitted
    BY <1>1, <1>4, <1>6
  <2>2. QED BY <1>1, <1>5, <1>6, <2>1
\* All that was written is sent.
<1>7. ASSUME Unsubmitted' = {}, UNCHANGED << emitted, executed >>, pc = "idle"
      PROVE  [Stream!Next]_(Stream!svars)
  <2>1. (emitted - Cardinality(Unsubmitted))' = emitted
    BY <1>1, <1>7, FS_EmptySet
  <2>2. CASE pc' = "finish"
    <3>1. Stream!StartFinish
      BY <1>7, <2>1, <2>2 DEF Stream!StartFinish
    <3>2. QED BY <3>1 DEF Stream!Next
  <2>3. CASE pc' # "finish"
    <3>1. (pc = "finish")' = (pc = "finish")
      BY <1>7, <2>3
    <3>2. Stream!Submit
      BY <1>7, <2>1, <3>1 DEF Stream!Submit
    <3>3. QED BY <3>2 DEF Stream!Next
  <2>4. QED BY <2>2, <2>3
<1>8. \A c \in Contexts : Offsets(c) => NothingWritten(Flushed(c))
  BY FlushContext
<1>9. NothingWritten(ctx') => Unsubmitted' = {}
  BY <1>4, NothingPending
<1>10. ASSUME NEW n \in Reserves, Reserve(n) \/ ReserveAborts(n) PROVE Goal
  BY <1>1, <1>6, <1>10 DEF Reserve, ReserveAborts
<1>11. ASSUME NEW n \in Reserves, ReserveFirst(n) PROVE Goal
  BY <1>6, <1>11 DEF ReserveFirst
<1>12. ASSUME NEW n \in Reserves, ReserveFull(n) PROVE Goal
  <2> DEFINE q == Queued(ctx, ctx.cur_buf)
  <2>1. /\ pc = "idle" /\ ctx.cur_buf # NO_BUFFER /\ ctx' = Flushed(q)
        /\ Send(SentToQueue(ctx) \o Sent(q)) /\ UNCHANGED << emitted, executed >>
    BY <1>1, <1>12 DEF ReserveFull
  <2>2. ctx.cur_buf \in Events /\ q \in Contexts /\ Offsets(q)
    BY <1>1, <1>2, <2>1, Constants, QueueContext DEF Contexts
  <2>3. LET jobs == SentToQueue(ctx) \o Sent(q) IN
        Numbered(Flushed(q), ring \o jobs, Patched(jobs, mem), Len(executed), emitted)
    BY <1>1, <1>2, <2>1, <2>2, SignalNumbered
  <2>4. Unsubmitted' = {}
    BY <1>8, <1>9, <2>1, <2>2
  <2> HIDE DEF q
  <2>5. Numbered(ctx', ring', mem', Len(executed'), emitted')
    BY <1>3, <2>1, <2>3
  <2>6. QED BY <1>1, <1>7, <2>1, <2>4, <2>5
<1>13. ASSUME NEW len \in 1 .. need, Write(len) PROVE Goal
  <2>1. /\ pc = "write" /\ pc' = "idle" /\ emitted' = emitted + 1 /\ UNCHANGED << ring, executed >>
    BY <1>13 DEF Write
  <2>2. PICK f : NumberedBy(f, ctx, ring, mem, Len(executed), emitted)
    BY <1>1 DEF Numbered
  <2>3. /\ NumberedBy(f, ctx', ring', mem', Len(executed), emitted')
        /\ Unsent(ctx', mem') = Pending(ctx', mem')
    BY <1>1, <1>13, <2>2, WriteNumbered
  <2>4. emitted - Cardinality(Unsent(ctx, mem)) = f[Len(ring)]
    BY <1>1, <2>2, SubmittedIs
  <2>5. emitted' - Cardinality(Unsent(ctx', mem')) = f[Len(ring')]
    BY <1>1, <1>4, <2>1, <2>3, SubmittedIs
  <2>6. (emitted - Cardinality(Unsubmitted))' = emitted - Cardinality(Unsubmitted)
    BY <1>1, <1>4, <2>1, <2>4, <2>5
  <2>7. (pc = "finish")' = (pc = "finish")
    BY <2>1
  <2>8. Stream!Emit
    BY <2>1, <2>6, <2>7 DEF Stream!Emit
  <2>9. QED BY <1>1, <2>1, <2>3, <2>8 DEF Stream!Next, Numbered
<1>14. CASE WriteNothing
  BY <1>6, <1>14 DEF WriteNothing
<1>15. CASE Flush
  <2>1. /\ pc = "idle" /\ ctx' = Flushed(ctx) /\ Send(Sent(ctx)) /\ UNCHANGED << emitted, executed >>
    BY <1>15 DEF Flush
  <2>2. Numbered(Flushed(ctx), ring \o Sent(ctx), Patched(Sent(ctx), mem), Len(executed), emitted)
    BY <1>1, <1>2, <2>1, FlushNumbered
  <2>3. Unsubmitted' = {}
    BY <1>1, <1>2, <1>8, <1>9, <2>1
  <2>4. Numbered(ctx', ring', mem', Len(executed'), emitted')
    BY <1>3, <2>1, <2>2
  <2>5. QED BY <1>1, <1>7, <2>1, <2>3, <2>4
\* An event is queued: a flush, where the queue is full.
<1>16. ASSUME NEW e \in Events, pc = "idle", pc' = "idle", Send(SentToQueue(ctx)),
              ctx'.cur_buf = Queued(ctx, e).cur_buf, ctx'.start = Queued(ctx, e).start,
              ctx'.offset = Queued(ctx, e).offset, UNCHANGED << emitted, executed >>
       PROVE  Goal
  <2>1. Numbered(Queued(ctx, e), ring \o SentToQueue(ctx), Patched(SentToQueue(ctx), mem),
                 Len(executed), emitted)
    BY <1>1, <1>2, <1>16, QueueNumbered
  <2>2. Numbered(ctx', ring', mem', Len(executed'), emitted')
    BY <1>3, <1>16, <2>1, NumberedSame
  <2>3. CASE QueueFull(ctx)
    <3>1. ctx'.cur_buf = Flushed(ctx).cur_buf /\ ctx'.start = Flushed(ctx).start
          /\ ctx'.offset = Flushed(ctx).offset /\ NothingWritten(Flushed(ctx))
      BY <1>1, <1>2, <1>16, <2>3, QueueContext, FlushContext
    <3>2. Unsubmitted' = {}
      BY <1>9, <3>1 DEF NothingWritten
    <3>3. QED BY <1>1, <1>7, <1>16, <2>2, <3>2
  <2>4. CASE ~QueueFull(ctx)
    <3>1. ctx'.cur_buf = ctx.cur_buf /\ ctx'.start = ctx.start /\ ctx'.offset = ctx.offset
      BY <1>1, <1>2, <1>16, <2>4, QueueContext
    <3>2. mem' = mem
      BY <1>1, <1>3, <1>16, <2>4, PatchedLists DEF SentToQueue
    <3>3. Unsubmitted' = Unsubmitted
      BY <3>1, <3>2 DEF Unsubmitted
    <3>4. QED BY <1>1, <1>5, <1>16, <2>2, <3>3
  <2>5. QED BY <2>3, <2>4
<1>17. CASE QueueEvent
  BY <1>16, <1>17, Constants DEF QueueEvent
<1>18. CASE FinishFails
  <2>1. Queued(ctx, FinishSignal) \in Contexts
    BY <1>1, <1>2, <1>18, QueueContext, Constants DEF FinishFails
  <2>2. QED BY <1>16, <1>18, <2>1, RefusedContext, Constants DEF FinishFails
<1>19. CASE FlushFails \/ QueueEventFails
  <2>1. /\ pc' = pc /\ mem' = mem /\ ring' = ring /\ UNCHANGED << emitted, executed >>
        /\ ctx' = FlushRefused(ctx)
    BY <1>19 DEF FlushFails, QueueEventFails
  <2>2. ctx'.cur_buf = ctx.cur_buf /\ ctx'.start = ctx.start /\ ctx'.offset = ctx.offset
    BY <1>1, <2>1, RefusedContext
  <2>3. Unsubmitted' = Unsubmitted
    BY <2>1, <2>2 DEF Unsubmitted
  <2>4. Numbered(ctx', ring', mem', Len(executed'), emitted')
    BY <1>1, <2>1, <2>2, NumberedSame
  <2>5. QED BY <1>1, <1>5, <2>1, <2>3, <2>4
<1>20. CASE Finish
  <2> DEFINE q == Queued(ctx, FinishSignal)
  <2>1. /\ pc = "idle" /\ ctx' = Flushed(q) /\ Send(SentToQueue(ctx) \o Sent(q))
        /\ UNCHANGED << emitted, executed >>
    BY <1>20 DEF Finish
  <2>2. FinishSignal \in Events /\ q \in Contexts /\ Offsets(q)
    BY <1>1, <1>2, <2>1, Constants, QueueContext
  <2>3. LET jobs == SentToQueue(ctx) \o Sent(q) IN
        Numbered(Flushed(q), ring \o jobs, Patched(jobs, mem), Len(executed), emitted)
    BY <1>1, <1>2, <2>1, <2>2, SignalNumbered
  <2>4. Unsubmitted' = {}
    BY <1>8, <1>9, <2>1, <2>2
  <2> HIDE DEF q
  <2>5. Numbered(ctx', ring', mem', Len(executed'), emitted')
    BY <1>3, <2>1, <2>3
  <2>6. QED BY <1>1, <1>7, <2>1, <2>4, <2>5
<1>21. CASE SwitchNextBuffer
  <2>1. /\ pc = "switch" /\ pc' = "write" /\ UNCHANGED << mem, ring, emitted, executed >>
        /\ ctx' = [ctx EXCEPT !.cur_buf = NextBuffer(ctx.cur_buf), !.start = 0, !.offset = Begin]
    BY <1>21 DEF SwitchNextBuffer
  <2>2. ctx'.start = 0 /\ ctx'.offset = Begin
    BY <1>1, <2>1 DEF Contexts
  <2>3. NothingWritten(ctx) /\ NothingWritten(ctx')
    BY <2>1, <2>2, Constants DEF StreamInv, FinishInv, NothingWritten
  <2>4. Unsent(ctx, mem) = {} /\ Unsent(ctx', mem') = {} /\ Pending(ctx, mem) = {} /\ Pending(ctx', mem') = {}
    BY <1>1, <1>4, <2>3, NothingPending
  <2>5. PICK f : NumberedBy(f, ctx, ring, mem, Len(executed), emitted)
    BY <1>1 DEF Numbered
  <2>6. NumberedBy(f, ctx', ring', mem', Len(executed'), emitted')
    BY <2>1, <2>4, <2>5 DEF NumberedBy
  <2>7. QED BY <1>1, <1>4, <1>5, <2>1, <2>4, <2>6 DEF Numbered
<1>22. CASE FinishWait
  <2>1. /\ pc = "finish" /\ pc' = "idle" /\ signal[FinishSignal]
        /\ UNCHANGED << ctx, mem, ring, emitted, executed >>
    BY <1>22 DEF FinishWait
  <2>2. ring = << >> /\ Len(ring) = 0 /\ NothingWritten(ctx)
    BY <2>1 DEF StreamInv, FinishInv
  <2>3. PICK f : NumberedBy(f, ctx, ring, mem, Len(executed), emitted)
    BY <1>1 DEF Numbered
  <2>4. Pending(ctx, mem) = {}
    BY <1>1, <2>2, NothingPending
  <2>5. IdsAre({}, Len(executed), emitted)
    BY <2>2, <2>3, <2>4 DEF NumberedBy
  <2>6. Len(executed) = emitted
    BY <1>1, <2>5, NoIds
  <2>7. (emitted - Cardinality(Unsubmitted))' = emitted - Cardinality(Unsubmitted)
    BY <1>1, <1>4, <2>1
  <2>8. Stream!EndFinish
    BY <2>1, <2>6, <2>7 DEF Stream!EndFinish
  <2>9. QED BY <1>1, <2>1, <2>8 DEF Stream!Next
<1>23. CASE GpuExecute
  <2>1. /\ ring # << >> /\ ring' = Tail(ring) /\ executed' = executed \o Fetched(Head(ring))
        /\ UNCHANGED << ctx, mem, pc, emitted >>
    BY <1>23 DEF GpuExecute
  <2> DEFINE lo == Len(executed)
  <2>2. PICK f : NumberedBy(f, ctx, ring, mem, lo, emitted)
    BY <1>1 DEF Numbered
  <2>3. /\ f[1] \in Nat /\ f[Len(ring)] \in Nat /\ lo <= f[1] /\ f[1] <= f[Len(ring)]
        /\ Fetched(Head(ring)) = [i \in 1 .. f[1] - lo |-> lo + i]
        /\ \E e : NumberedBy(e, ctx, Tail(ring), mem, f[1], emitted)
    BY <1>1, <2>1, <2>2, GpuNumbered
  <2>4. emitted - Cardinality(Unsubmitted) = f[Len(ring)]
    BY <1>1, <2>2, SubmittedIs
  <2> DEFINE k == f[1] - lo
             new == [i \in 1 .. k |-> lo + i]
  <2>5. k \in Nat /\ new \in Seq(Nat) /\ Len(new) = k /\ lo \in Nat
    <3>1. lo \in Nat /\ f[1] \in Nat /\ lo <= f[1]
      BY <1>1, <2>3
    <3> HIDE DEF lo
    <3>2. k \in Nat
      BY <3>1
    <3> HIDE DEF k
    <3>3. new \in [1 .. k -> Nat]
      BY <3>1, <3>2
    <3>4. QED BY <3>1, <3>2, <3>3
  <2>6. executed' \in Seq(Nat) /\ Len(executed') = f[1]
    <3>1. executed' = executed \o new
      BY <2>1, <2>3
    <3> HIDE DEF new, k
    <3>2. executed' \in Seq(Nat) /\ Len(executed') = lo + k
      BY <1>1, <2>5, <3>1, ConcatProperties
    <3> HIDE DEF lo
    <3>3. QED BY <2>3, <2>5, <3>2 DEF k
  <2>7. Numbered(ctx', ring', mem', Len(executed'), emitted')
    BY <1>1, <2>1, <2>3, <2>6 DEF Numbered
  <2>8. Unsubmitted' = Unsubmitted
    BY <1>1, <1>4, <2>1
  <2>9. CASE k = 0
    <3>1. executed' = executed
      <4>1. executed' = executed \o new
        BY <2>1, <2>3
      <4> HIDE DEF new
      <4>2. new = << >>
        BY <2>5, <2>9, EmptySeq
      <4>3. QED BY <1>1, <4>1, <4>2, ConcatEmptySeq
    <3>2. QED BY <1>5, <2>1, <2>6, <2>7, <2>8, <3>1
  <2>10. CASE k # 0
    <3>1. k \in 1 .. (emitted - Cardinality(Unsubmitted)) - Len(executed)
      BY <2>3, <2>4, <2>5, <2>10
    <3>2. executed' = executed \o [i \in 1 .. k |-> Len(executed) + i]
      BY <2>1, <2>3
    <3>3. (emitted - Cardinality(Unsubmitted))' = emitted - Cardinality(Unsubmitted)
      BY <2>1, <2>8
    <3>4. (pc = "finish")' = (pc = "finish")
      BY <2>1
    <3> HIDE DEF k
    <3>5. Stream!Execute
      BY <2>1, <3>1, <3>2, <3>3, <3>4 DEF Stream!Execute
    <3>6. QED BY <2>6, <2>7, <3>5 DEF Stream!Next
  <2>11. QED BY <2>9, <2>10
<1>24. CASE UNCHANGED vars
  BY <1>6, <1>24 DEF vars
<1>25. ~(SwitchAborts \/ FinishWaitFails)
  BY DEF SwitchAborts, FinishWaitFails
<1>26. QED
  BY <1>10, <1>11, <1>12, <1>13, <1>14, <1>15, <1>17, <1>18, <1>19, <1>20, <1>21, <1>22, <1>23, <1>24,
     <1>25 DEF Next, Client, Wake, WaitFails

\* Where no wait fails, whatever commits the kernel refuses, the client sees one stream of
\* commands: the GPU executes every group it wrote once, in the order written, and etna_finish
\* returns when the GPU has executed all of them.
THEOREM ImplementsStream ==
  ASSUME "wait" \notin Faults
  PROVE  Spec => StreamPreserved
<1>1. Init => StreamInv /\ Stream!Init
  BY StreamInit
<1>2. Inv /\ Inv' /\ StreamInv /\ [Next]_vars => StreamInv' /\ [Stream!Next]_(Stream!svars)
  <2> SUFFICES ASSUME Inv, Inv', StreamInv, [Next]_vars
               PROVE  StreamInv' /\ [Stream!Next]_(Stream!svars)
    OBVIOUS
  <2>1. FinishInv'
    BY FinishNext DEF StreamInv
  <2>2. QED BY <2>1, StreamStep DEF StreamInv
<1>3. QED BY <1>1, <1>2, Inductive, PTL DEF Spec, StreamPreserved, Stream!Spec

=============================================================================
