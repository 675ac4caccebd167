----------------------------- MODULE CmdBufProofs -----------------------------
(***************************************************************************)
(* Proofs about CmdBuf, for every number and size of buffers, clearances,  *)
(* capacity of the queue and limit of silent flushes, and whichever kernel *)
(* calls fail.                                                             *)
(*                                                                         *)
(* A flush is a function of the context it is called on, and may run       *)
(* several times in one operation.  So the parts of the invariants are     *)
(* predicates: of a context and a list of jobs (Layout), of a list of      *)
(* jobs, the signals and the buffer the client owns (Owners), of a context *)
(* and the count of silent commits (Silence), of a context, jobs and       *)
(* memory (Contents), each with a lemma for what one flush does to it.     *)
(***************************************************************************)
EXTENDS CmdBuf, SequenceTheorems, FiniteSetTheorems, TLAPS

-----------------------------------------------------------------------------
(* Contexts. *)

EventLists == Seq(Events)
Contexts == [cur_buf : Bufs \union {NO_BUFFER}, offset : 0 .. Size, start : 0 .. Size,
             flushes : Nat, queue : EventLists]

\* Nothing more fits into the current buffer.
Spent(c) == c.start = Size - End /\ c.offset = Size - End

\* Offsets are even; there is room for the clearances around what is written.
Offsets(c) ==
  /\ (c.offset % 2) = 0
  /\ c.cur_buf # NO_BUFFER => Spent(c) \/ (c.start + Begin <= c.offset /\ c.offset + End <= Size)

LEMMA Constants ==
  /\ NumBufs \in Nat /\ NumBufs > 0 /\ Size \in Nat /\ Begin \in Nat /\ End \in Nat
  /\ Begin > 0 /\ End > 0 /\ Begin + End < Size
  /\ NO_BUFFER \notin Bufs /\ Bufs \subseteq Events /\ FinishSignal \in Events /\ Other \in Events
  /\ FinishSignal \notin Bufs /\ Other \notin Bufs /\ Other \notin Signals
  BY LayoutAssumption DEF NO_BUFFER, Bufs, Events, FinishSignal, Other, Signals

LEMMA EvenConstants == Size % 2 = 0 /\ Begin % 2 = 0 /\ End % 2 = 0
  BY LayoutAssumption

\* Even numbers.
LEMMA Even ==
  ASSUME NEW a \in Nat, NEW b \in Nat, a % 2 = 0, b % 2 = 0
  PROVE  (a + b) % 2 = 0 /\ (a >= b => (a - b) % 2 = 0)
  OBVIOUS

\* An odd offset is followed by an even one.
LEMMA AlignEven ==
  ASSUME NEW o \in Nat, o % 2 = 0
  PROVE  Align(o) = o
  BY DEF Align

\* What a flush does to a context.
LEMMA FlushContext ==
  ASSUME NEW c \in Contexts, Offsets(c)
  PROVE  /\ Flushed(c) \in Contexts /\ Offsets(Flushed(c))
         /\ Flushed(c).cur_buf = c.cur_buf /\ Flushed(c).queue = << >>
         /\ NothingWritten(c) => Flushed(c).start = c.start /\ Flushed(c).offset = c.offset
         /\ ~NothingWritten(c) => Spent(Flushed(c)) \/ Flushed(c).start = c.offset + End
         /\ NothingWritten(Flushed(c))
<1>1. FlushCount(c) \in Nat /\ << >> \in EventLists
  BY DEF FlushCount, Contexts, EventLists
<1> DEFINE e == [c EXCEPT !.queue = << >>, !.flushes = FlushCount(c)]
<1>2. /\ e \in Contexts /\ e.cur_buf = c.cur_buf /\ e.queue = << >>
      /\ e.start = c.start /\ e.offset = c.offset
  BY <1>1 DEF Contexts
<1>3. CASE NothingWritten(c)
  <2>1. Flushed(c) = e
    BY <1>3 DEF Flushed
  <2>2. Offsets(e) /\ NothingWritten(e)
    BY <1>2, <1>3 DEF Offsets, Spent, NothingWritten
  <2>3. QED BY <1>2, <1>3, <2>1, <2>2
<1>4. CASE ~NothingWritten(c) /\ BufferSpent(c)
  <2>1. Flushed(c) = [e EXCEPT !.start = Size - End, !.offset = Size - End]
    BY <1>4 DEF Flushed
  <2>2. Size - End \in 0 .. Size /\ (Size - End) % 2 = 0
    BY Constants, EvenConstants, Even
  <2> HIDE DEF e
  <2>3. /\ Flushed(c) \in Contexts /\ Flushed(c).cur_buf = e.cur_buf
        /\ Flushed(c).queue = e.queue
        /\ Flushed(c).start = Size - End /\ Flushed(c).offset = Size - End
    BY <1>2, <2>1, <2>2 DEF Contexts
  <2>4. QED BY <1>2, <1>4, <2>2, <2>3, Constants DEF Offsets, Spent, NothingWritten
<1>5. CASE ~NothingWritten(c) /\ ~BufferSpent(c)
  <2>1. Flushed(c) = [e EXCEPT !.start = NextStart(c), !.offset = NextStart(c) + Begin]
    BY <1>5 DEF Flushed
  <2>2. /\ NextStart(c) = c.offset + End /\ NextStart(c) + Begin + End < Size
        /\ c.offset \in 0 .. Size
    BY <1>5, Constants DEF BufferSpent, NextStart, Contexts
  <2>3. NextStart(c) \in 0 .. Size /\ NextStart(c) + Begin \in 0 .. Size
    BY <2>2, Constants
  <2>4. (NextStart(c) + Begin) % 2 = 0
    <3>1. (c.offset + End) % 2 = 0
      BY <2>2, Constants, EvenConstants, Even DEF Offsets
    <3>2. QED BY <2>2, <2>3, <3>1, Constants, EvenConstants, Even
  <2> HIDE DEF e
  <2>5. /\ Flushed(c) \in Contexts /\ Flushed(c).cur_buf = e.cur_buf
        /\ Flushed(c).queue = e.queue
        /\ Flushed(c).start = NextStart(c) /\ Flushed(c).offset = NextStart(c) + Begin
    BY <1>2, <2>1, <2>3 DEF Contexts
  <2>6. Offsets(Flushed(c))
    BY <2>2, <2>3, <2>4, <2>5, Constants DEF Offsets
  <2>7. NothingWritten(Flushed(c))
    BY <2>2, <2>3, <2>5, Constants DEF NothingWritten
  <2>8. QED BY <1>2, <1>5, <2>2, <2>5, <2>6, <2>7
<1>6. QED BY <1>3, <1>4, <1>5

\* What a flush sends: one job at most, with the events that were queued.
LEMMA FlushSends ==
  ASSUME NEW c \in Contexts, Offsets(c)
  PROVE  \/ Sent(c) = << >> /\ c.queue = << >> /\ NothingWritten(c)
         \/ /\ NothingWritten(c) /\ c.queue # << >>
            /\ Sent(c) = << Job(NO_BUFFER, 0, 0, c.queue) >>
            /\ Job(NO_BUFFER, 0, 0, c.queue) \in Jobs
         \/ /\ ~NothingWritten(c)
            /\ Sent(c) = << Job(c.cur_buf, c.start, c.offset, c.queue) >>
            /\ Job(c.cur_buf, c.start, c.offset, c.queue) \in Jobs
  BY Constants DEF Sent, Job, Jobs, Contexts, EventLists

\* What queueing an event does to a context.
LEMMA QueueContext ==
  ASSUME NEW c \in Contexts, Offsets(c), NEW e \in Events
  PROVE  /\ Queued(c, e) \in Contexts /\ Offsets(Queued(c, e))
         /\ Queued(c, e).cur_buf = c.cur_buf
         /\ QueueFull(c) => Queued(c, e).start = Flushed(c).start
                            /\ Queued(c, e).offset = Flushed(c).offset
                            /\ Queued(c, e).queue = << e >>
         /\ ~QueueFull(c) => Queued(c, e).start = c.start
                             /\ Queued(c, e).offset = c.offset
                             /\ Queued(c, e).queue = Append(c.queue, e)
<1> DEFINE room == IF QueueFull(c) THEN Flushed(c) ELSE c
<1>1. room \in Contexts /\ Offsets(room) /\ room.cur_buf = c.cur_buf
  BY FlushContext
<1>2. Queued(c, e) = [room EXCEPT !.queue = Append(room.queue, e)]
  BY DEF Queued
<1>3. room.queue \in EventLists /\ Append(room.queue, e) \in EventLists
  BY <1>1 DEF Contexts, EventLists
<1>4. QueueFull(c) => Append(room.queue, e) = << e >>
  <2>1. Append(<< >>, e) = << e >>
    OBVIOUS
  <2>2. QueueFull(c) => room.queue = << >>
    BY FlushContext
  <2>3. QED BY <2>1, <2>2, Zenon
<1> HIDE DEF room
<1>5. /\ Queued(c, e) \in Contexts
      /\ Queued(c, e).cur_buf = room.cur_buf /\ Queued(c, e).start = room.start
      /\ Queued(c, e).offset = room.offset /\ Queued(c, e).queue = Append(room.queue, e)
  BY <1>1, <1>2, <1>3 DEF Contexts
<1>6. Offsets(Queued(c, e))
  BY <1>1, <1>5 DEF Offsets, Spent
<1>7. QED BY <1>1, <1>4, <1>5, <1>6 DEF room

-----------------------------------------------------------------------------
(* Lists of jobs. *)

JobLists == Seq(Jobs)

\* A list with one job more, and with one less.
LEMMA OneMore ==
  ASSUME NEW r \in JobLists, NEW j \in Jobs
  PROVE  /\ r \o << j >> \in JobLists
         /\ Len(r \o << j >>) = Len(r) + 1
         /\ (r \o << j >>)[Len(r) + 1] = j
         /\ \A i \in 1 .. Len(r) : (r \o << j >>)[i] = r[i]
  BY DEF JobLists

LEMMA OneLess ==
  ASSUME NEW r \in JobLists, r # << >>
  PROVE  /\ Tail(r) \in JobLists
         /\ Len(r) \in Nat /\ Len(r) > 0
         /\ Len(Tail(r)) = Len(r) - 1
         /\ \A i \in 1 .. Len(r) - 1 : Tail(r)[i] = r[i + 1]
         /\ Head(r) = r[1] /\ Head(r) \in Jobs
  BY DEF JobLists

LEMMA JobOf ==
  ASSUME NEW r \in JobLists
  PROVE  /\ Len(r) \in Nat /\ DOMAIN r = 1 .. Len(r)
         /\ \A i \in 1 .. Len(r) : r[i] \in Jobs
         /\ r \o << >> = r
  BY DEF JobLists

-----------------------------------------------------------------------------
(* The layout of the buffers. *)

\* Commits end before the end of the buffer, come one after the other with the
\* areas the kernel writes, and end before what the client writes.
Layout(c, r) ==
  \A i \in 1 .. Len(r) : r[i].buf # NO_BUFFER =>
    /\ r[i].from + Begin < r[i].to
    /\ r[i].to + End <= Size
    /\ r[i].buf = c.cur_buf => Spent(c) \/ r[i].to + End <= c.start
    /\ \A j \in 1 .. Len(r) : i < j /\ r[j].buf = r[i].buf => r[i].to + End <= r[j].from

\* Only buffer and offsets of the context matter.
LEMMA LayoutSame ==
  ASSUME NEW c \in Contexts, NEW d \in Contexts, NEW r \in JobLists, Layout(c, r),
         d.cur_buf = c.cur_buf, d.start = c.start, d.offset = c.offset
  PROVE  Layout(d, r)
  BY DEF Layout, Spent

\* One flush keeps the layout.
LEMMA FlushLayout ==
  ASSUME NEW c \in Contexts, Offsets(c), NEW r \in JobLists, Layout(c, r)
  PROVE  Layout(Flushed(c), r \o Sent(c)) /\ r \o Sent(c) \in JobLists
<1>1. /\ Flushed(c) \in Contexts /\ Flushed(c).cur_buf = c.cur_buf
      /\ NothingWritten(c) => Flushed(c).start = c.start /\ Flushed(c).offset = c.offset
  BY FlushContext
<1>2. CASE Sent(c) = << >> /\ NothingWritten(c)
  BY <1>1, <1>2, JobOf, LayoutSame
<1>3. CASE /\ NothingWritten(c)
           /\ Sent(c) = << Job(NO_BUFFER, 0, 0, c.queue) >>
           /\ Job(NO_BUFFER, 0, 0, c.queue) \in Jobs
  <2> DEFINE q == r \o << Job(NO_BUFFER, 0, 0, c.queue) >>
  <2>1. /\ q \in JobLists /\ Len(q) = Len(r) + 1 /\ q[Len(r) + 1].buf = NO_BUFFER
        /\ \A i \in 1 .. Len(r) : q[i] = r[i]
    BY <1>3, OneMore DEF Job
  <2>2. Len(r) \in Nat
    BY JobOf
  <2> HIDE DEF q
  <2>3. Layout(c, q)
    BY <2>1, <2>2 DEF Layout
  <2>4. Layout(Flushed(c), q)
    BY <1>1, <1>3, <2>1, <2>3, LayoutSame
  <2>5. QED BY <1>3, <2>1, <2>4 DEF q
<1>4. CASE /\ ~NothingWritten(c)
           /\ Sent(c) = << Job(c.cur_buf, c.start, c.offset, c.queue) >>
           /\ Job(c.cur_buf, c.start, c.offset, c.queue) \in Jobs
  <2> DEFINE j == Job(c.cur_buf, c.start, c.offset, c.queue)
             q == r \o << j >>
             f == Flushed(c)
  <2>1. /\ j.buf = c.cur_buf /\ j.from = c.start /\ j.to = c.offset
        /\ c.cur_buf # NO_BUFFER /\ c.start + Begin < c.offset
        /\ c.start \in Nat /\ c.offset \in Nat
    BY <1>4, Constants DEF Job, NothingWritten, Contexts
  <2>2. ~Spent(c) /\ c.offset + End <= Size
    BY <2>1, Constants DEF Spent, Offsets
  <2>3. /\ q \in JobLists /\ Len(q) = Len(r) + 1 /\ q[Len(r) + 1] = j
        /\ \A i \in 1 .. Len(r) : q[i] = r[i]
    BY <1>4, OneMore
  <2>4. Len(r) \in Nat /\ f.cur_buf = c.cur_buf /\ (Spent(f) \/ f.start = c.offset + End)
        /\ f.start \in Nat /\ \A i \in 1 .. Len(r) : r[i] \in Jobs
    BY <1>4, JobOf, FlushContext DEF Contexts
  <2> HIDE DEF q, j, f
  <2>5. ASSUME NEW i \in 1 .. Len(r), r[i].buf # NO_BUFFER
        PROVE  /\ q[i].from + Begin < q[i].to
               /\ q[i].to + End <= Size
               /\ q[i].buf = f.cur_buf => Spent(f) \/ q[i].to + End <= f.start
               /\ \A k \in 1 .. Len(q) :
                    i < k /\ q[k].buf = q[i].buf => q[i].to + End <= q[k].from
    <3>1. /\ q[i] = r[i] /\ r[i].to \in Nat
          /\ r[i].from + Begin < r[i].to /\ r[i].to + End <= Size
          /\ r[i].buf = c.cur_buf => r[i].to + End <= c.start
      BY <2>2, <2>3, <2>4, <2>5 DEF Layout, Jobs
    <3>2. q[i].buf = f.cur_buf => Spent(f) \/ q[i].to + End <= f.start
      BY <2>1, <2>4, <3>1, Constants
    <3>3. ASSUME NEW k \in 1 .. Len(q), i < k, q[k].buf = q[i].buf
          PROVE  q[i].to + End <= q[k].from
      <4>1. CASE k \in 1 .. Len(r)
        BY <2>3, <2>5, <3>1, <3>3, <4>1 DEF Layout
      <4>2. CASE k = Len(r) + 1
        BY <2>1, <2>3, <3>1, <3>3, <4>2
      <4>3. QED BY <2>3, <2>4, <4>1, <4>2
    <3>4. QED BY <3>1, <3>2, <3>3
  <2>6. /\ q[Len(r) + 1].from + Begin < q[Len(r) + 1].to
        /\ q[Len(r) + 1].to + End <= Size
        /\ Spent(f) \/ q[Len(r) + 1].to + End <= f.start
    BY <2>1, <2>2, <2>3, <2>4, Constants
  <2>7. Layout(f, q)
    <3> SUFFICES ASSUME NEW i \in 1 .. Len(q), q[i].buf # NO_BUFFER
                 PROVE  /\ q[i].from + Begin < q[i].to
                        /\ q[i].to + End <= Size
                        /\ q[i].buf = f.cur_buf => Spent(f) \/ q[i].to + End <= f.start
                        /\ \A k \in 1 .. Len(q) :
                             i < k /\ q[k].buf = q[i].buf => q[i].to + End <= q[k].from
      BY DEF Layout
    <3>1. CASE i \in 1 .. Len(r)
      BY <2>3, <2>5, <3>1
    <3>2. CASE i = Len(r) + 1
      <4>1. ~ \E k \in 1 .. Len(q) : i < k
        BY <2>3, <2>4, <3>2
      <4>2. QED BY <2>6, <3>2, <4>1
    <3>3. QED BY <2>3, <2>4, <3>1, <3>2
  <2>8. QED BY <1>4, <2>3, <2>7 DEF f, q, j
<1>5. QED BY <1>2, <1>3, <1>4, FlushSends

\* So does queueing an event.
LEMMA QueueLayout ==
  ASSUME NEW c \in Contexts, Offsets(c), NEW r \in JobLists, Layout(c, r), NEW e \in Events
  PROVE  Layout(Queued(c, e), r \o SentToQueue(c)) /\ r \o SentToQueue(c) \in JobLists
<1>1. Queued(c, e) \in Contexts /\ Queued(c, e).cur_buf = c.cur_buf
  BY QueueContext
<1>2. CASE QueueFull(c)
  <2>1. SentToQueue(c) = Sent(c)
    BY <1>2 DEF SentToQueue
  <2>2. Layout(Flushed(c), r \o Sent(c)) /\ r \o Sent(c) \in JobLists
    BY FlushLayout
  <2>3. Flushed(c) \in Contexts /\ Flushed(c).cur_buf = c.cur_buf
    BY FlushContext
  <2>4. Queued(c, e).start = Flushed(c).start /\ Queued(c, e).offset = Flushed(c).offset
    BY <1>2, QueueContext
  <2>5. QED BY <1>1, <2>1, <2>2, <2>3, <2>4, LayoutSame
<1>3. CASE ~QueueFull(c)
  <2>1. r \o SentToQueue(c) = r
    BY <1>3, JobOf DEF SentToQueue
  <2>2. Queued(c, e).start = c.start /\ Queued(c, e).offset = c.offset
    BY <1>3, QueueContext
  <2>3. QED BY <1>1, <2>1, <2>2, LayoutSame
<1>4. QED BY <1>2, <1>3

-----------------------------------------------------------------------------
(* Who has the buffers. *)

Hasnt(b, list) == \A k \in DOMAIN list : list[k] # b
HasOnce(b, list) ==
  \E k \in DOMAIN list : list[k] = b /\ \A l \in DOMAIN list : list[l] = b => l = k
Plain(list) == \A b \in Bufs : Hasnt(b, list)

\* Signal b comes with job i, and with no other; no commit of the buffer is
\* behind it.
ComesWith(b, r, i) ==
  /\ HasOnce(b, r[i].events)
  /\ \A j \in 1 .. Len(r) : j # i => Hasnt(b, r[j].events)
  /\ \A j \in 1 .. Len(r) : j > i => r[j].buf # b

Owned(b, r, s) == ~s[b] /\ \A i \in 1 .. Len(r) : Hasnt(b, r[i].events)
Free(b, r, s) == s[b] /\ \A i \in 1 .. Len(r) : Hasnt(b, r[i].events) /\ r[i].buf # b
Coming(b, r, s) == ~s[b] /\ \E i \in 1 .. Len(r) : ComesWith(b, r, i)

Owners(r, s, own) ==
  \A b \in Bufs : IF b = own THEN Owned(b, r, s) ELSE Free(b, r, s) \/ Coming(b, r, s)

SignalStates == [Signals -> BOOLEAN]

\* A job without buffer signals, of the buffer the client owns, changes nothing.
LEMMA AddPlain ==
  ASSUME NEW r \in JobLists, NEW s \in SignalStates, NEW own, Owners(r, s, own),
         NEW j \in Jobs, Plain(j.events), j.buf \in {own, NO_BUFFER}
  PROVE  Owners(r \o << j >>, s, own)
<1> DEFINE q == r \o << j >>
<1>1. /\ q \in JobLists /\ Len(q) = Len(r) + 1 /\ q[Len(r) + 1] = j
      /\ \A i \in 1 .. Len(r) : q[i] = r[i]
  BY OneMore
<1>2. Len(r) \in Nat
  BY JobOf
<1> HIDE DEF q
<1>3. ASSUME NEW b \in Bufs, b = own PROVE Owned(b, q, s)
  BY <1>1, <1>2, <1>3 DEF Owners, Owned, Plain
<1>4. ASSUME NEW b \in Bufs, b # own PROVE Free(b, q, s) \/ Coming(b, q, s)
  <2>1. Hasnt(b, j.events) /\ j.buf # b
    BY <1>4, Constants DEF Plain
  <2>2. CASE Free(b, r, s)
    BY <1>1, <1>2, <2>1, <2>2 DEF Free
  <2>3. CASE Coming(b, r, s)
    <3>1. PICK i \in 1 .. Len(r) : ComesWith(b, r, i)
      BY <2>3 DEF Coming
    <3>2. ComesWith(b, q, i)
      BY <1>1, <1>2, <2>1, <3>1 DEF ComesWith
    <3>3. QED BY <1>1, <1>2, <2>3, <3>2 DEF Coming
  <2>4. QED BY <1>4, <2>2, <2>3 DEF Owners
<1>5. QED BY <1>3, <1>4 DEF Owners, q

\* The job that brings the signal of the buffer the client owned.
LEMMA AddLast ==
  ASSUME NEW r \in JobLists, NEW s \in SignalStates, NEW own \in Bufs, Owners(r, s, own),
         NEW j \in Jobs, HasOnce(own, j.events),
         \A b \in Bufs : b # own => Hasnt(b, j.events), j.buf \in {own, NO_BUFFER}
  PROVE  Owners(r \o << j >>, s, NO_BUFFER)
<1> DEFINE q == r \o << j >>
<1>1. /\ q \in JobLists /\ Len(q) = Len(r) + 1 /\ q[Len(r) + 1] = j
      /\ \A i \in 1 .. Len(r) : q[i] = r[i]
  BY OneMore
<1>2. Len(r) \in Nat
  BY JobOf
<1> HIDE DEF q
<1>3. Coming(own, q, s)
  <2>1. Owned(own, r, s)
    BY DEF Owners
  <2>2. ComesWith(own, q, Len(r) + 1)
    BY <1>1, <1>2, <2>1 DEF ComesWith, Owned
  <2>3. QED BY <1>1, <1>2, <2>1, <2>2 DEF Coming, Owned
<1>4. ASSUME NEW b \in Bufs, b # own PROVE Free(b, q, s) \/ Coming(b, q, s)
  <2>1. Hasnt(b, j.events) /\ j.buf # b
    BY <1>4, Constants
  <2>2. CASE Free(b, r, s)
    BY <1>1, <1>2, <2>1, <2>2 DEF Free
  <2>3. CASE Coming(b, r, s)
    <3>1. PICK i \in 1 .. Len(r) : ComesWith(b, r, i)
      BY <2>3 DEF Coming
    <3>2. ComesWith(b, q, i)
      BY <1>1, <1>2, <2>1, <3>1 DEF ComesWith
    <3>3. QED BY <1>1, <1>2, <2>3, <3>2 DEF Coming
  <2>4. QED BY <1>4, <2>2, <2>3 DEF Owners
<1>5. QED BY <1>3, <1>4, Constants DEF Owners, q

\* The GPU executes the first job, and its signals are set.
LEMMA TakeFirst ==
  ASSUME NEW r \in JobLists, r # << >>, NEW s \in SignalStates, NEW own, Owners(r, s, own),
         NEW t \in SignalStates,
         \A b \in Bufs : t[b] <=> s[b] \/ ~Hasnt(b, Head(r).events)
  PROVE  Owners(Tail(r), t, own)
<1> DEFINE q == Tail(r)
<1>1. /\ q \in JobLists /\ Len(r) \in Nat /\ Len(r) > 0 /\ Len(q) = Len(r) - 1
      /\ \A i \in 1 .. Len(q) : q[i] = r[i + 1]
      /\ Head(r) = r[1]
  BY OneLess
<1>2. \A i \in 1 .. Len(q) : i + 1 \in 1 .. Len(r)
  BY <1>1
<1> HIDE DEF q
<1>3. ASSUME NEW b \in Bufs, b = own PROVE Owned(b, q, t)
  BY <1>1, <1>2, <1>3 DEF Owners, Owned
<1>4. ASSUME NEW b \in Bufs, b # own PROVE Free(b, q, t) \/ Coming(b, q, t)
  <2>1. CASE Free(b, r, s)
    BY <1>1, <1>2, <2>1 DEF Free
  <2>2. CASE Coming(b, r, s)
    <3>1. PICK i \in 1 .. Len(r) : ComesWith(b, r, i)
      BY <2>2 DEF Coming
    <3>2. CASE i = 1
      <4>1. t[b]
        BY <1>1, <3>1, <3>2 DEF ComesWith, HasOnce, Hasnt
      <4>2. \A k \in 1 .. Len(q) : Hasnt(b, q[k].events) /\ q[k].buf # b
        BY <1>1, <1>2, <3>1, <3>2 DEF ComesWith
      <4>3. QED BY <4>1, <4>2 DEF Free
    <3>3. CASE i > 1
      <4>1. ~t[b]
        BY <1>1, <2>2, <3>1, <3>3 DEF ComesWith, Coming
      <4>2. i - 1 \in 1 .. Len(q) /\ q[i - 1] = r[i]
        BY <1>1, <3>3
      <4>3. ComesWith(b, q, i - 1)
        <5>1. HasOnce(b, q[i - 1].events)
          BY <3>1, <4>2 DEF ComesWith
        <5>2. ASSUME NEW j \in 1 .. Len(q)
              PROVE  /\ j # i - 1 => Hasnt(b, q[j].events)
                     /\ j > i - 1 => q[j].buf # b
          <6>1. q[j] = r[j + 1] /\ j + 1 \in 1 .. Len(r)
            BY <1>1, <1>2
          <6>2. (j # i - 1 => j + 1 # i) /\ (j > i - 1 => j + 1 > i)
            BY <1>1, <3>1
          <6>3. QED BY <3>1, <6>1, <6>2 DEF ComesWith
        <5>3. QED BY <5>1, <5>2 DEF ComesWith
      <4>4. QED BY <4>1, <4>2, <4>3 DEF Coming
    <3>4. QED BY <1>1, <3>2, <3>3
  <2>3. QED BY <1>4, <2>1, <2>2 DEF Owners
<1>5. QED BY <1>3, <1>4 DEF Owners, q

\* A flush by the client that owns its buffer and has queued no buffer signal.
LEMMA FlushOwners ==
  ASSUME NEW c \in Contexts, Offsets(c), Plain(c.queue), NEW r \in JobLists,
         NEW s \in SignalStates, Owners(r, s, c.cur_buf)
  PROVE  Owners(r \o Sent(c), s, c.cur_buf)
<1>1. CASE Sent(c) = << >>
  BY <1>1, JobOf
<1>2. CASE \E j \in Jobs : /\ Sent(c) = << j >> /\ j.events = c.queue
                           /\ j.buf \in {c.cur_buf, NO_BUFFER}
  BY <1>2, AddPlain
<1>3. QED BY <1>1, <1>2, FlushSends DEF Job

LEMMA QueueOwners ==
  ASSUME NEW c \in Contexts, Offsets(c), Plain(c.queue), NEW r \in JobLists,
         NEW s \in SignalStates, Owners(r, s, c.cur_buf)
  PROVE  Owners(r \o SentToQueue(c), s, c.cur_buf)
  BY FlushOwners, JobOf DEF SentToQueue

-----------------------------------------------------------------------------
(* The invariant. *)

Owner == IF pc = "switch" THEN NO_BUFFER ELSE ctx.cur_buf

Inv ==
  /\ TypeOK
  /\ Offsets(ctx)
  /\ Layout(ctx, ring)
  /\ Plain(ctx.queue)
  /\ pc # "aborted" => Owners(ring, signal, Owner)
  /\ pc \in {"switch", "write"} => need \in Reserves
  /\ pc = "write" => ctx.cur_buf # NO_BUFFER /\ Fits(ctx.offset, need)

LEMMA InitInv == Init => Inv
<1> SUFFICES ASSUME Init PROVE Inv
  OBVIOUS
<1> USE DEF Init
<1>1. /\ ctx.cur_buf = NO_BUFFER /\ ctx.offset = 0 /\ ctx.start = 0 /\ ctx.flushes = 0
      /\ ctx.queue = << >> /\ ring = << >> /\ Len(ring) = 0 /\ pc = "idle"
  OBVIOUS
<1>2. TypeOK
  BY Constants DEF TypeOK, Signals, Bufs
<1>3. Offsets(ctx)
  BY <1>1 DEF Offsets
<1>4. Owners(ring, signal, Owner)
  <2>1. Owner = NO_BUFFER
    BY <1>1 DEF Owner
  <2>2. ASSUME NEW b \in Bufs PROVE signal[b]
    <3>1. b \in Signals /\ b \in Bufs
      BY Constants DEF Bufs, Signals
    <3>2. QED BY <3>1
  <2>3. 1 .. Len(ring) = {}
    BY <1>1
  <2>4. QED BY <2>1, <2>2, <2>3, Constants DEF Owners, Free
<1>5. Layout(ctx, ring) /\ Plain(ctx.queue)
  <2>1. 1 .. Len(ring) = {} /\ DOMAIN ctx.queue = {}
    BY <1>1
  <2>2. QED BY <2>1 DEF Layout, Plain, Hasnt
<1>6. QED BY <1>1, <1>2, <1>3, <1>4, <1>5 DEF Inv

-----------------------------------------------------------------------------
(* What sending jobs does to the memory and to the count of silent commits. *)

LEMMA MaxOfTwo ==
  ASSUME NEW S \in SUBSET {1, 2}, S # {}
  PROVE  Max(S) \in S /\ \A x \in S : x <= Max(S)
<1>1. \E x \in S : \A y \in S : y <= x
  <2>1. CASE 2 \in S BY <2>1
  <2>2. CASE 2 \notin S
    <3>1. S = {1}
      BY <2>2
    <3>2. QED BY <3>1
  <2>3. QED BY <2>1, <2>2
<1>2. QED BY <1>1 DEF Max

LEMMA SendTypes ==
  ASSUME TypeOK, NEW jobs \in JobLists, Len(jobs) <= 2, Send(jobs), emitted' = emitted
  PROVE  /\ mem' \in [Bufs -> SUBSET [at : 0 .. Size, len : 1 .. Size, id : 1 .. emitted']]
         /\ silent' \in Nat
<1>1. mem' \in [Bufs -> SUBSET [at : 0 .. Size, len : 1 .. Size, id : 1 .. emitted']]
  BY DEF Send, TypeOK
<1>2. Len(jobs) \in Nat /\ DOMAIN jobs = 1 .. Len(jobs)
  BY JobOf
<1>3. CASE Signalling(jobs) = {}
  BY <1>2, <1>3 DEF Send, TypeOK
<1>4. CASE Signalling(jobs) # {}
  <2>1. Signalling(jobs) \subseteq 1 .. Len(jobs) /\ 1 .. Len(jobs) \subseteq {1, 2}
    BY <1>2 DEF Signalling
  <2>2. Max(Signalling(jobs)) \in 1 .. Len(jobs)
    BY <1>4, <2>1, MaxOfTwo
  <2>3. silent' = Len(jobs) - Max(Signalling(jobs))
    BY <1>4 DEF Send
  <2>4. PICK m \in 1 .. Len(jobs) : m = Max(Signalling(jobs))
    BY <2>2
  <2>5. silent' = Len(jobs) - m
    BY <2>3, <2>4
  <2>6. Len(jobs) - m \in Nat
    BY <1>2
  <2>7. QED BY <1>1, <2>5, <2>6
<1>5. QED BY <1>1, <1>3, <1>4

LEMMA OneFlushSends ==
  ASSUME NEW c \in Contexts, Offsets(c)
  PROVE  /\ Sent(c) \in JobLists /\ Len(Sent(c)) <= 1
         /\ SentToQueue(c) \in JobLists /\ Len(SentToQueue(c)) <= 1
<1>1. << >> \in JobLists /\ Len(<< >>) = 0
  BY DEF JobLists
<1>2. \A j \in Jobs : << j >> \in JobLists /\ Len(<< j >>) = 1
  BY DEF JobLists
<1>3. Sent(c) = << >> \/ \E j \in Jobs : Sent(c) = << j >>
  BY FlushSends
<1>4. Sent(c) \in JobLists /\ Len(Sent(c)) <= 1
  BY <1>1, <1>2, <1>3
<1>5. QED BY <1>1, <1>4 DEF SentToQueue

LEMMA TwoFlushesSend ==
  ASSUME NEW x \in JobLists, NEW y \in JobLists, Len(x) <= 1, Len(y) <= 1,
         NEW r \in JobLists
  PROVE  x \o y \in JobLists /\ Len(x \o y) <= 2 /\ r \o (x \o y) = (r \o x) \o y
<1>1. x \o y \in Seq(Jobs) /\ Len(x \o y) = Len(x) + Len(y)
  BY ConcatProperties DEF JobLists
<1>2. r \o (x \o y) = (r \o x) \o y
  BY ConcatAssociative DEF JobLists
<1>3. Len(x) \in Nat /\ Len(y) \in Nat
  BY JobOf
<1>4. QED BY <1>1, <1>2, <1>3 DEF JobLists

-----------------------------------------------------------------------------
(* One flush, and one event, of a client that owns its buffer. *)

Core(c, r, s) ==
  /\ c \in Contexts /\ Offsets(c) /\ Plain(c.queue)
  /\ r \in JobLists /\ Layout(c, r) /\ Owners(r, s, c.cur_buf)

LEMMA CoreFlush ==
  ASSUME NEW c, NEW r, NEW s \in SignalStates, Core(c, r, s)
  PROVE  Core(Flushed(c), r \o Sent(c), s)
<1>1. Flushed(c) \in Contexts /\ Offsets(Flushed(c)) /\ Flushed(c).cur_buf = c.cur_buf
      /\ Flushed(c).queue = << >>
  BY FlushContext DEF Core
<1>2. Plain(Flushed(c).queue)
  BY <1>1 DEF Plain, Hasnt
<1>3. r \o Sent(c) \in JobLists /\ Layout(Flushed(c), r \o Sent(c))
  BY FlushLayout DEF Core
<1>4. Owners(r \o Sent(c), s, c.cur_buf)
  BY FlushOwners DEF Core
<1>5. QED BY <1>1, <1>2, <1>3, <1>4 DEF Core

LEMMA CoreQueue ==
  ASSUME NEW c, NEW r, NEW s \in SignalStates, Core(c, r, s), NEW e \in {FinishSignal, Other}
  PROVE  Core(Queued(c, e), r \o SentToQueue(c), s)
<1>1. e \in Events /\ e \notin Bufs
  BY Constants
<1>2. /\ Queued(c, e) \in Contexts /\ Offsets(Queued(c, e))
      /\ Queued(c, e).cur_buf = c.cur_buf
      /\ Queued(c, e).queue = << e >> \/ Queued(c, e).queue = Append(c.queue, e)
  BY <1>1, QueueContext DEF Core
<1>3. Plain(Queued(c, e).queue)
  <2>1. ASSUME NEW b \in Bufs PROVE Hasnt(b, << e >>) /\ Hasnt(b, Append(c.queue, e))
    <3>1. c.queue \in Seq(Events) /\ Hasnt(b, c.queue)
      BY DEF Core, Contexts, EventLists, Plain
    <3>2. QED BY <1>1, <3>1 DEF Hasnt
  <2>2. QED BY <1>2, <2>1, Zenon DEF Plain
<1>4. r \o SentToQueue(c) \in JobLists /\ Layout(Queued(c, e), r \o SentToQueue(c))
  BY <1>1, QueueLayout DEF Core
<1>5. Owners(r \o SentToQueue(c), s, c.cur_buf)
  BY QueueOwners DEF Core
<1>6. QED BY <1>2, <1>3, <1>4, <1>5 DEF Core

LEMMA CoreRefused ==
  ASSUME NEW c, NEW r, NEW s \in SignalStates, Core(c, r, s)
  PROVE  Core(FlushRefused(c), r, s)
<1>1. c \in Contexts /\ Offsets(c) /\ FlushCount(c) \in Nat
  BY DEF Core, FlushCount, Contexts
<1>2. /\ FlushRefused(c) \in Contexts /\ FlushRefused(c).cur_buf = c.cur_buf
      /\ FlushRefused(c).start = c.start /\ FlushRefused(c).offset = c.offset
      /\ FlushRefused(c).queue = << >>
  <2>1. << >> \in EventLists
    BY DEF EventLists
  <2> DEFINE n == FlushCount(c)
  <2>2. n \in Nat /\ FlushRefused(c) = [c EXCEPT !.queue = << >>, !.flushes = n]
    BY <1>1 DEF FlushRefused
  <2> HIDE DEF n
  <2>3. QED BY <1>1, <2>1, <2>2 DEF Contexts
<1>3. Offsets(FlushRefused(c)) /\ Plain(FlushRefused(c).queue)
  BY <1>1, <1>2 DEF Offsets, Spent, Plain, Hasnt
<1>4. Layout(FlushRefused(c), r)
  BY <1>1, <1>2, LayoutSame DEF Core
<1>5. QED BY <1>2, <1>3, <1>4 DEF Core

-----------------------------------------------------------------------------
(* Every step keeps the invariant. *)

LEMMA InvFacts ==
  ASSUME Inv
  PROVE  /\ ctx \in Contexts /\ ring \in JobLists /\ signal \in SignalStates
         /\ Align(ctx.offset) = ctx.offset /\ [ctx EXCEPT !.offset = Align(@)] = ctx
         /\ pc \in {"idle", "write", "finish"} => Core(ctx, ring, signal) /\ Owner = ctx.cur_buf
<1>1. ctx \in Contexts /\ ring \in JobLists /\ signal \in SignalStates
  BY DEF Inv, TypeOK, Contexts, EventLists, JobLists, SignalStates
<1>2. Align(ctx.offset) = ctx.offset
  BY <1>1, AlignEven DEF Inv, Offsets, Contexts
<1>3. [ctx EXCEPT !.offset = Align(@)] = ctx
  BY <1>1, <1>2 DEF Contexts
<1>4. QED BY <1>1, <1>2, <1>3 DEF Inv, Core, Owner

\* A step of the idle client that sends some jobs, and is not inside a reserve
\* afterwards.
LEMMA SendInv ==
  ASSUME Inv, NEW jobs \in JobLists, Len(jobs) <= 2, Send(jobs),
         Core(ctx', ring', signal), signal' = signal, emitted' = emitted, need' = need,
         events' \in Nat, pc' \in {"idle", "finish"}
  PROVE  Inv'
<1>1. TypeOK'
  BY SendTypes DEF Inv, TypeOK, Core, Contexts, EventLists, JobLists
<1>2. Owner' = ctx'.cur_buf
  BY DEF Owner
<1>3. QED BY <1>1, <1>2 DEF Inv, Core

\* The client stops, or goes on, without touching anything.
LEMMA QuietInv ==
  ASSUME Inv, UNCHANGED << ctx, mem, signal, ring, emitted, events, silent, need >>,
         \/ pc = "write" /\ pc' = "idle"
         \/ pc = "finish" /\ pc' = "idle"
         \/ pc' = "aborted"
         \/ pc' = pc
  PROVE  Inv'
<1>1. TypeOK'
  BY DEF Inv, TypeOK
<1>2. pc' # "aborted" => Owner' = Owner /\ pc # "aborted"
  BY DEF Owner
<1>3. QED BY <1>1, <1>2 DEF Inv, Offsets, Layout, Spent, Plain, Fits

LEMMA InvFlush == Inv /\ (Flush \/ FlushFails) => Inv'
<1> SUFFICES ASSUME Inv, Flush \/ FlushFails PROVE Inv'
  OBVIOUS
<1>1. pc = "idle" /\ Core(ctx, ring, signal)
  BY InvFacts DEF Flush, FlushFails
<1>2. CASE Flush
  <2>1. Core(Flushed(ctx), ring \o Sent(ctx), signal)
    BY <1>1, InvFacts, CoreFlush
  <2>2. Sent(ctx) \in JobLists /\ Len(Sent(ctx)) <= 1 /\ Len(Sent(ctx)) \in Nat
    BY <1>1, OneFlushSends, JobOf DEF Core
  <2>3. events \in Nat
    BY DEF Inv, TypeOK
  <2>4. Send(Sent(ctx)) /\ Core(ctx', ring', signal)
    BY <1>2, <2>1 DEF Flush, Send
  <2>5. /\ pc' = "idle" /\ events' \in Nat /\ signal' = signal /\ emitted' = emitted
        /\ need' = need
    BY <1>1, <1>2, <2>3 DEF Flush
  <2>6. QED BY <2>2, <2>4, <2>5, SendInv
<1>3. CASE FlushFails
  <2>1. Core(FlushRefused(ctx), ring, signal)
    BY <1>1, InvFacts, CoreRefused
  <2>2. TypeOK'
    BY <1>3, <2>1 DEF FlushFails, Core, Inv, TypeOK, Contexts, EventLists
  <2>3. pc' = "idle" /\ Owner' = ctx'.cur_buf
    BY <1>3 DEF FlushFails, Owner
  <2>4. QED BY <1>3, <2>1, <2>2, <2>3 DEF FlushFails, Inv, Core
<1>4. QED BY <1>2, <1>3

LEMMA InvEvent == Inv /\ (QueueEvent \/ QueueEventFails) => Inv'
<1> SUFFICES ASSUME Inv, QueueEvent \/ QueueEventFails PROVE Inv'
  OBVIOUS
<1>1. pc = "idle" /\ Core(ctx, ring, signal) /\ signal \in SignalStates
  BY InvFacts DEF QueueEvent, QueueEventFails
<1>2. events' \in Nat
  BY DEF QueueEvent, QueueEventFails, Inv, TypeOK
<1>3. CASE QueueEvent
  <2>1. Core(Queued(ctx, Other), ring \o SentToQueue(ctx), signal)
    BY <1>1, CoreQueue
  <2>2. /\ SentToQueue(ctx) \in JobLists /\ Len(SentToQueue(ctx)) <= 1
        /\ Len(SentToQueue(ctx)) \in Nat
    BY <1>1, OneFlushSends, JobOf DEF Core
  <2>3. QED BY <1>1, <1>2, <1>3, <2>1, <2>2, SendInv DEF QueueEvent, Send
<1>4. CASE QueueEventFails
  <2>1. Core(FlushRefused(ctx), ring, signal)
    BY <1>1, CoreRefused
  <2>2. TypeOK'
    BY <1>2, <1>4, <2>1 DEF QueueEventFails, Core, Inv, TypeOK, Contexts, EventLists
  <2>3. pc' = "idle" /\ Owner' = ctx'.cur_buf
    BY <1>4 DEF QueueEventFails, Owner
  <2>4. QED BY <1>4, <2>1, <2>2, <2>3 DEF QueueEventFails, Inv, Core
<1>5. QED BY <1>3, <1>4

LEMMA InvFinish == Inv /\ (Finish \/ FinishFails) => Inv'
<1> SUFFICES ASSUME Inv, Finish \/ FinishFails PROVE Inv'
  OBVIOUS
<1>1. pc = "idle" /\ Core(ctx, ring, signal) /\ signal \in SignalStates
  BY InvFacts DEF Finish, FinishFails
<1>2. events' \in Nat
  BY DEF Finish, FinishFails, Inv, TypeOK
<1> DEFINE q == Queued(ctx, FinishSignal)
           room == SentToQueue(ctx)
<1>3. Core(q, ring \o room, signal)
  BY <1>1, CoreQueue
<1>4. /\ room \in JobLists /\ Len(room) <= 1 /\ Len(room) \in Nat /\ ring \in JobLists
      /\ Sent(q) \in JobLists /\ Len(Sent(q)) <= 1
  BY <1>1, <1>3, OneFlushSends, JobOf DEF Core
<1>5. CASE Finish
  <2>1. Core(Flushed(q), (ring \o room) \o Sent(q), signal)
    BY <1>1, <1>3, CoreFlush
  <2>2. /\ room \o Sent(q) \in JobLists /\ Len(room \o Sent(q)) <= 2
        /\ ring \o (room \o Sent(q)) = (ring \o room) \o Sent(q)
    <3>1. room \o Sent(q) \in JobLists /\ Len(room \o Sent(q)) <= 2
      BY <1>4, TwoFlushesSend, Zenon
    <3>2. ring \o (room \o Sent(q)) = (ring \o room) \o Sent(q)
      BY <1>4, ConcatAssociative DEF JobLists
    <3>3. QED BY <3>1, <3>2
  <2>3. QED BY <1>1, <1>2, <1>5, <2>1, <2>2, SendInv DEF Finish, Send
<1>6. CASE FinishFails
  <2>1. Core(FlushRefused(q), ring \o room, signal)
    BY <1>1, <1>3, CoreRefused
  <2>2. QED BY <1>1, <1>2, <1>4, <1>6, <2>1, SendInv DEF FinishFails, Send
<1>7. QED BY <1>5, <1>6

\* A full buffer: its signal is queued, and comes with the last job sent.
LEMMA InvReserveFull == \A n \in Reserves : Inv /\ ReserveFull(n) => Inv'
<1> SUFFICES ASSUME NEW n \in Reserves, Inv, ReserveFull(n) PROVE Inv'
  OBVIOUS
<1>1. /\ pc = "idle" /\ Core(ctx, ring, signal) /\ signal \in SignalStates
      /\ [ctx EXCEPT !.offset = Align(@)] = ctx
      /\ ctx \in Contexts /\ Offsets(ctx) /\ ring \in JobLists
      /\ Layout(ctx, ring) /\ Owners(ring, signal, ctx.cur_buf) /\ Plain(ctx.queue)
  BY InvFacts DEF ReserveFull, Core
<1> DEFINE b == ctx.cur_buf
           q == Queued(ctx, b)
           room == SentToQueue(ctx)
<1>2. /\ b # NO_BUFFER /\ ctx' = Flushed(q) /\ Send(room \o Sent(q))
      /\ need' = n /\ pc' = "switch" /\ UNCHANGED << signal, emitted, executed, events >>
  BY <1>1 DEF ReserveFull
<1>3. b \in Bufs /\ b \in Events
  BY <1>1, <1>2, Constants DEF Contexts
<1>4. /\ q \in Contexts /\ Offsets(q) /\ q.cur_buf = b
      /\ q.queue = << b >> \/ q.queue = Append(ctx.queue, b)
  BY <1>1, <1>3, QueueContext
<1>5. Layout(q, ring \o room) /\ ring \o room \in JobLists
  BY <1>1, <1>3, QueueLayout
<1>6. Owners(ring \o room, signal, b)
  BY <1>1, QueueOwners
<1>7. /\ room \in JobLists /\ Len(room) <= 1 /\ Sent(q) \in JobLists /\ Len(Sent(q)) <= 1
  BY <1>1, <1>4, OneFlushSends
<1>8. HasOnce(b, q.queue) /\ \A x \in Bufs : x # b => Hasnt(x, q.queue)
  <2>1. ctx.queue \in Seq(Events) /\ \A x \in Bufs : Hasnt(x, ctx.queue)
    BY <1>1 DEF Contexts, EventLists, Plain
  <2>2. CASE q.queue = << b >>
    BY <2>2 DEF HasOnce, Hasnt
  <2>3. CASE q.queue = Append(ctx.queue, b)
    <3>1. /\ Len(ctx.queue) \in Nat /\ DOMAIN ctx.queue = 1 .. Len(ctx.queue)
          /\ DOMAIN q.queue = 1 .. Len(ctx.queue) + 1
          /\ q.queue[Len(ctx.queue) + 1] = b
          /\ \A k \in 1 .. Len(ctx.queue) : q.queue[k] = ctx.queue[k]
      BY <1>3, <2>1, <2>3
    <3>2. \A k \in 1 .. Len(ctx.queue) : ctx.queue[k] \notin Bufs
      BY <2>1, <3>1 DEF Hasnt
    <3> HIDE DEF q, b
    <3>3. \A k \in DOMAIN q.queue : q.queue[k] \in Bufs => k = Len(ctx.queue) + 1
      BY <3>1, <3>2
    <3>4. Len(ctx.queue) + 1 \in DOMAIN q.queue
      BY <3>1
    <3>5. HasOnce(b, q.queue)
      BY <1>3, <3>1, <3>3, <3>4 DEF HasOnce
    <3>6. ASSUME NEW x \in Bufs, x # b PROVE Hasnt(x, q.queue)
      BY <3>1, <3>3, <3>6 DEF Hasnt
    <3>7. QED BY <3>5, <3>6
  <2>4. QED BY <1>4, <2>2, <2>3
<1>9. q.queue # << >>
  BY <1>8 DEF HasOnce
<1>10. PICK j \in Jobs : Sent(q) = << j >> /\ j.events = q.queue /\ j.buf \in {b, NO_BUFFER}
  BY <1>4, <1>9, FlushSends DEF Job
<1>11. /\ ctx' \in Contexts /\ Offsets(ctx') /\ ctx'.queue = << >>
       /\ Layout(ctx', (ring \o room) \o Sent(q)) /\ (ring \o room) \o Sent(q) \in JobLists
  BY <1>2, <1>4, <1>5, FlushContext, FlushLayout
<1>12. /\ room \o Sent(q) \in JobLists /\ Len(room \o Sent(q)) <= 2
       /\ ring' = (ring \o room) \o Sent(q)
  BY <1>1, <1>2, <1>7, TwoFlushesSend DEF Send
<1>13. Owners(ring', signal', NO_BUFFER)
  BY <1>1, <1>2, <1>3, <1>5, <1>6, <1>8, <1>10, <1>12, AddLast
<1>14. TypeOK'
  BY <1>2, <1>11, <1>12, SendTypes DEF Inv, TypeOK, Contexts, EventLists, JobLists
<1>15. Plain(ctx'.queue)
  BY <1>11 DEF Plain, Hasnt
<1> HIDE DEF q, b, room
<1>16. QED BY <1>2, <1>11, <1>12, <1>13, <1>14, <1>15 DEF Inv, Owner


\* A reserve of a client whose buffer has room, or that has no buffer yet.
LEMMA InvReserve == \A n \in Reserves : Inv /\ (Reserve(n) \/ ReserveFirst(n)) => Inv'
<1> SUFFICES ASSUME NEW n \in Reserves, Inv, Reserve(n) \/ ReserveFirst(n) PROVE Inv'
  OBVIOUS
<1>1. /\ pc = "idle" /\ ctx' = ctx /\ need' = n
      /\ UNCHANGED << mem, signal, ring, emitted, events, silent >>
      /\ \/ pc' = "write" /\ ctx.cur_buf # NO_BUFFER /\ Fits(ctx.offset, n)
         \/ pc' = "switch" /\ ctx.cur_buf = NO_BUFFER
  BY InvFacts DEF Reserve, ReserveFirst
<1>2. TypeOK'
  BY <1>1 DEF Inv, TypeOK
<1>3. Owner' = Owner
  BY <1>1 DEF Owner
<1>4. QED BY <1>1, <1>2, <1>3 DEF Inv, Offsets, Layout, Spent, Plain, Fits

\* The next buffer is free: no commit of it is left, nor its signal anywhere.
LEMMA InvSwitch == Inv /\ SwitchNextBuffer => Inv'
<1> SUFFICES ASSUME Inv, SwitchNextBuffer PROVE Inv'
  OBVIOUS
<1> DEFINE b == NextBuffer(ctx.cur_buf)
<1>1. /\ pc = "switch" /\ signal[b] /\ signal' = [signal EXCEPT ![b] = FALSE]
      /\ ctx' = [ctx EXCEPT !.cur_buf = b, !.start = 0, !.offset = Begin] /\ pc' = "write"
      /\ UNCHANGED << mem, ring, need, emitted, events, silent >>
  BY DEF SwitchNextBuffer
<1>2. ctx \in Contexts /\ ring \in JobLists /\ signal \in SignalStates /\ need \in Reserves
  BY <1>1, InvFacts DEF Inv
<1>3. b \in Bufs /\ b \in Signals /\ b # NO_BUFFER
  <2>1. NumBufs \in Nat /\ NumBufs > 0 /\ ctx.cur_buf + 1 \in Nat
    BY <1>2, Constants DEF Contexts, Bufs, NO_BUFFER
  <2>2. NextBuffer(ctx.cur_buf) \in 0 .. NumBufs - 1
    BY <2>1 DEF NextBuffer
  <2>3. QED BY <2>2, Constants DEF Bufs, Signals
<1> HIDE DEF b
<1>4. Owners(ring, signal, NO_BUFFER)
  BY <1>1 DEF Inv, Owner
<1>5. Free(b, ring, signal)
  BY <1>1, <1>3, <1>4 DEF Owners, Coming
<1>6. /\ ctx' \in Contexts /\ ctx'.cur_buf = b /\ ctx'.start = 0 /\ ctx'.offset = Begin
      /\ ctx'.queue = ctx.queue
  <2>1. 0 \in 0 .. Size /\ Begin \in 0 .. Size
    BY Constants
  <2>2. QED BY <1>1, <1>2, <1>3, <2>1 DEF Contexts
<1>7. signal' \in SignalStates /\ ~signal'[b] /\ \A x \in Bufs : x # b => signal'[x] = signal[x]
  BY <1>1, <1>2, <1>3, Constants DEF SignalStates, Bufs, Signals
<1>8. TypeOK'
  BY <1>1, <1>6, <1>7 DEF Inv, TypeOK, Contexts, EventLists, SignalStates
<1>9. Offsets(ctx') /\ Fits(ctx'.offset, need)
  <2>1. need \in 1 .. Size - Begin - End
    BY <1>2, ReserveAssumption
  <2>2. QED BY <1>6, <2>1, Constants, EvenConstants DEF Offsets, Fits
<1>10. Layout(ctx', ring)
  BY <1>2, <1>5, <1>6 DEF Inv, Layout, Free
<1>11. Owners(ring, signal', b)
  <2>1. Owned(b, ring, signal')
    BY <1>5, <1>7 DEF Free, Owned
  <2>2. ASSUME NEW x \in Bufs, x # b PROVE Free(x, ring, signal') \/ Coming(x, ring, signal')
    <3>1. Free(x, ring, signal) \/ Coming(x, ring, signal)
      BY <1>3, <1>4, <2>2, Constants DEF Owners
    <3>2. QED BY <1>7, <2>2, <3>1 DEF Free, Coming
  <2>3. QED BY <2>1, <2>2 DEF Owners
<1>12. QED BY <1>1, <1>2, <1>3, <1>6, <1>8, <1>9, <1>10, <1>11 DEF Inv, Owner

\* What the client writes fits into what it reserved.
LEMMA InvWrite == \A len \in 1 .. need : Inv /\ Write(len) => Inv'
<1> SUFFICES ASSUME NEW len \in 1 .. need, Inv, Write(len) PROVE Inv'
  OBVIOUS
<1> DEFINE b == ctx.cur_buf
           o == ctx.offset
           g == Group(o, len, emitted + 1)
<1>1. /\ pc = "write" /\ (len % 2) = 0 /\ pc' = "idle" /\ emitted' = emitted + 1
      /\ mem' = [mem EXCEPT ![b] = Without(@, o, o + len) \union {g}]
      /\ ctx' = [ctx EXCEPT !.offset = o + len]
      /\ UNCHANGED << signal, ring, need, events, silent >>
  BY DEF Write
<1>2. /\ ctx \in Contexts /\ ring \in JobLists /\ need \in Reserves /\ b # NO_BUFFER
      /\ o + need + End <= Size /\ Offsets(ctx) /\ Layout(ctx, ring) /\ Plain(ctx.queue)
      /\ Owners(ring, signal, b)
  BY <1>1, InvFacts DEF Inv, Owner, Fits
<1>3. /\ o \in Nat /\ need \in Nat /\ len \in Nat /\ len > 0 /\ len <= need /\ Size \in Nat
      /\ ctx.start \in Nat /\ b \in Bufs /\ emitted \in Nat /\ End \in Nat
  BY <1>2, Constants, ReserveAssumption DEF Contexts, Inv, TypeOK
<1> HIDE DEF b, o
<1>4. o + len \in 0 .. Size /\ o + len + End <= Size /\ o \in 0 .. Size /\ len \in 1 .. Size
  BY <1>2, <1>3
<1>5. ~Spent(ctx)
  <2>1. o # Size - End
    BY <1>2, <1>3
  <2>2. QED BY <2>1 DEF Spent, o
<1>6. ctx' \in Contexts /\ ctx'.cur_buf = b /\ ctx'.start = ctx.start
      /\ ctx'.offset = o + len /\ ctx'.queue = ctx.queue
  BY <1>1, <1>2, <1>4 DEF Contexts, b
<1>7. Offsets(ctx')
  <2>1. o % 2 = 0 /\ ctx.start + Begin <= o
    BY <1>2, <1>5 DEF Offsets, b, o
  <2>2. (o + len) % 2 = 0
    BY <1>1, <1>3, <2>1, Even
  <2>3. ctx.start + Begin <= o + len
    BY <1>3, <2>1, Constants
  <2>4. QED BY <1>4, <1>6, <2>2, <2>3 DEF Offsets
<1>8. Layout(ctx', ring)
  BY <1>2, <1>5, <1>6 DEF Layout, b
<1>9. mem' \in [Bufs -> SUBSET [at : 0 .. Size, len : 1 .. Size, id : 1 .. emitted']]
  <2> DEFINE G == [at : 0 .. Size, len : 1 .. Size, id : 1 .. emitted]
             H == [at : 0 .. Size, len : 1 .. Size, id : 1 .. emitted + 1]
  <2>1. g \in H
    BY <1>3, <1>4 DEF Group
  <2>2. G \subseteq H
    BY <1>3
  <2>3. mem \in [Bufs -> SUBSET G]
    BY DEF Inv, TypeOK
  <2> HIDE DEF g, G, H
  <2>4. Without(mem[b], o, o + len) \union {g} \in SUBSET H
    BY <1>3, <2>1, <2>2, <2>3 DEF Without
  <2>5. mem' \in [Bufs -> SUBSET H]
    BY <1>1, <1>3, <2>2, <2>3, <2>4
  <2>6. QED BY <1>1, <2>5 DEF H
<1>10. TypeOK'
  <2>1. ctx' \in Contexts /\ emitted' \in Nat /\ pc' \in {"idle", "switch", "write", "finish", "aborted"}
    BY <1>1, <1>3, <1>6
  <2>2. signal' = signal /\ ring' = ring /\ need' = need /\ events' = events /\ silent' = silent
    BY <1>1
  <2>3. /\ signal \in [Signals -> BOOLEAN] /\ ring \in Seq(Jobs) /\ need \in Reserves \union {0}
        /\ events \in Nat /\ silent \in Nat
    BY DEF Inv, TypeOK
  <2>4. QED BY <1>9, <2>1, <2>2, <2>3, Zenon DEF TypeOK, Contexts, EventLists
<1>11. Owner' = b
  BY <1>1, <1>6 DEF Owner
<1>12. QED BY <1>1, <1>2, <1>6, <1>7, <1>8, <1>10, <1>11 DEF Inv

\* The wait of etna_finish takes no signal of a buffer.
LEMMA InvFinishWait == Inv /\ FinishWait => Inv'
<1> SUFFICES ASSUME Inv, FinishWait PROVE Inv'
  OBVIOUS
<1>1. /\ pc = "finish" /\ pc' = "idle" /\ signal' = [signal EXCEPT ![FinishSignal] = FALSE]
      /\ UNCHANGED << ctx, mem, ring, need, emitted, events, silent >>
  BY DEF FinishWait
<1>2. signal' \in SignalStates /\ \A x \in Bufs : signal'[x] = signal[x]
  <2>1. signal \in SignalStates /\ FinishSignal \notin Bufs /\ Bufs \subseteq Signals
    BY InvFacts, Constants DEF Bufs, Signals
  <2>2. QED BY <1>1, <2>1 DEF SignalStates
<1>3. TypeOK'
  BY <1>1, <1>2 DEF Inv, TypeOK, SignalStates
<1>4. Owner' = Owner /\ Owners(ring, signal, Owner)
  BY <1>1 DEF Owner, Inv
<1>5. Owners(ring, signal', Owner)
  BY <1>2, <1>4 DEF Owners, Owned, Free, Coming
<1>6. QED BY <1>1, <1>3, <1>4, <1>5 DEF Inv, Offsets, Layout, Spent, Plain

\* The GPU takes the first job, and the kernel sets its signals.
LEMMA InvGpu == Inv /\ GpuExecute => Inv'
<1> SUFFICES ASSUME Inv, GpuExecute PROVE Inv'
  OBVIOUS
<1>1. /\ ring # << >> /\ ring' = Tail(ring)
      /\ signal' = [s \in Signals |-> signal[s] \/ s \in Range(Head(ring).events)]
      /\ UNCHANGED << ctx, mem, pc, need, emitted, events, silent >>
  BY DEF GpuExecute
<1>2. ctx \in Contexts /\ ring \in JobLists /\ signal \in SignalStates
  BY InvFacts
<1>3. signal' \in SignalStates
  BY <1>1, <1>2 DEF SignalStates
<1>4. \A b \in Bufs : signal'[b] <=> signal[b] \/ ~Hasnt(b, Head(ring).events)
  <2>1. Bufs \subseteq Signals
    BY Constants DEF Bufs, Signals
  <2>2. QED BY <1>1, <2>1, Zenon DEF Hasnt, Range
<1>5. /\ Tail(ring) \in JobLists /\ Len(ring) \in Nat /\ Len(Tail(ring)) = Len(ring) - 1
      /\ \A i \in 1 .. Len(Tail(ring)) : Tail(ring)[i] = ring[i + 1]
  BY <1>1, <1>2, OneLess
<1>6. TypeOK'
  BY <1>1, <1>3, <1>5 DEF Inv, TypeOK, JobLists, SignalStates
<1>7. Layout(ctx, Tail(ring))
  <2> DEFINE q == Tail(ring)
  <2>1. /\ Layout(ctx, ring)
        /\ \A i \in 1 .. Len(q) : q[i] = ring[i + 1] /\ i + 1 \in 1 .. Len(ring)
        /\ \A i, j \in 1 .. Len(q) : i < j => i + 1 < j + 1
    BY <1>5 DEF Inv
  <2> HIDE DEF q
  <2>2. QED BY <2>1 DEF Layout, q
<1>8. pc # "aborted" => Owners(Tail(ring), signal', Owner)
  BY <1>1, <1>2, <1>3, <1>4, TakeFirst DEF Inv
<1>9. Owner' = Owner
  BY <1>1 DEF Owner
<1>10. QED BY <1>1, <1>6, <1>7, <1>8, <1>9 DEF Inv, Offsets, Spent, Plain, Layout

LEMMA InvNext == Inv /\ [Next]_vars => Inv'
<1> SUFFICES ASSUME Inv, [Next]_vars PROVE Inv'
  OBVIOUS
<1>1. ASSUME NEW n \in Reserves, Reserve(n) \/ ReserveFirst(n) PROVE Inv'
  BY <1>1, InvReserve
<1>2. ASSUME NEW n \in Reserves, ReserveFull(n) PROVE Inv'
  BY <1>2, InvReserveFull
<1>3. ASSUME NEW n \in Reserves, ReserveAborts(n) PROVE Inv'
  BY <1>3, QuietInv DEF ReserveAborts
<1>4. ASSUME NEW len \in 1 .. need, Write(len) PROVE Inv'
  BY <1>4, InvWrite
<1>5. CASE WriteNothing
  BY <1>5, QuietInv DEF WriteNothing
<1>6. CASE Flush \/ FlushFails
  BY <1>6, InvFlush
<1>7. CASE QueueEvent \/ QueueEventFails
  BY <1>7, InvEvent
<1>8. CASE Finish \/ FinishFails
  BY <1>8, InvFinish
<1>9. CASE SwitchNextBuffer
  BY <1>9, InvSwitch
<1>10. CASE FinishWait
  BY <1>10, InvFinishWait
<1>11. CASE SwitchAborts \/ FinishWaitFails
  BY <1>11, QuietInv DEF SwitchAborts, FinishWaitFails
<1>12. CASE GpuExecute
  BY <1>12, InvGpu
<1>13. CASE UNCHANGED vars
  BY <1>13, QuietInv DEF vars
<1>14. QED
  BY <1>1, <1>2, <1>3, <1>4, <1>5, <1>6, <1>7, <1>8, <1>9, <1>10, <1>11, <1>12, <1>13
     DEF Next, Client, Wake, WaitFails

LEMMA Inductive == Spec => []Inv
  BY InitInv, InvNext, PTL DEF Spec

-----------------------------------------------------------------------------
(* Nobody waits for a signal that does not come. *)

FinishAnswered == pc = "finish" => SignalComes(FinishSignal)

\* A signal with the kernel stays with it until it is set.
LEMMA StillComes ==
  ASSUME Inv, GpuExecute, NEW s \in Signals, SignalComes(s)
  PROVE  SignalComes(s)'
<1>1. /\ ring # << >> /\ ring' = Tail(ring) /\ ring \in JobLists /\ signal \in SignalStates
      /\ signal' = [x \in Signals |-> signal[x] \/ x \in Range(Head(ring).events)]
  BY InvFacts DEF GpuExecute
<1>2. /\ Len(ring) \in Nat /\ Len(ring) > 0 /\ ring' \in JobLists /\ Len(ring') = Len(ring) - 1
      /\ \A i \in 1 .. Len(ring) - 1 : ring'[i] = ring[i + 1]
      /\ Head(ring) = ring[1] /\ DOMAIN ring = 1 .. Len(ring) /\ DOMAIN ring' = 1 .. Len(ring')
  BY <1>1, OneLess, JobOf
<1>3. CASE signal[s]
  BY <1>1, <1>3 DEF SignalComes
<1>4. ASSUME NEW i \in DOMAIN ring, s \in Range(ring[i].events) PROVE SignalComes(s)'
  <2>1. CASE i = 1
    <3>1. signal'[s]
      BY <1>1, <1>2, <1>4, <2>1
    <3>2. QED BY <3>1 DEF SignalComes
  <2>2. CASE i # 1
    <3>1. i - 1 \in DOMAIN ring' /\ ring'[i - 1] = ring[i]
      BY <1>2, <2>2
    <3>2. QED BY <1>4, <3>1 DEF SignalComes
  <2>3. QED BY <2>1, <2>2
<1>5. QED BY <1>3, <1>4 DEF SignalComes

\* etna_finish sends its signal, however full the queue was.
LEMMA FinishSends == Inv /\ Finish => SignalComes(FinishSignal)'
<1> SUFFICES ASSUME Inv, Finish PROVE SignalComes(FinishSignal)'
  OBVIOUS
<1> DEFINE q == Queued(ctx, FinishSignal)
           room == SentToQueue(ctx)
<1>1. /\ Core(ctx, ring, signal) /\ signal \in SignalStates /\ ring \in JobLists
      /\ ctx \in Contexts /\ Offsets(ctx)
  BY InvFacts DEF Finish, Core
<1>2. /\ q \in Contexts /\ Offsets(q)
      /\ q.queue = << FinishSignal >> \/ q.queue = Append(ctx.queue, FinishSignal)
  BY <1>1, QueueContext, Constants
<1>3. FinishSignal \in Range(q.queue)
  <2>1. CASE q.queue = << FinishSignal >>
    BY <2>1 DEF Range
  <2>2. CASE q.queue = Append(ctx.queue, FinishSignal)
    <3>1. ctx.queue \in Seq(Events) /\ FinishSignal \in Events
      BY <1>1, Constants DEF Contexts, EventLists
    <3>2. /\ Len(ctx.queue) + 1 \in DOMAIN q.queue
          /\ q.queue[Len(ctx.queue) + 1] = FinishSignal
      BY <2>2, <3>1
    <3>3. QED BY <3>2 DEF Range
  <2>3. QED BY <1>2, <2>1, <2>2
<1>4. PICK j \in Jobs : Sent(q) = << j >> /\ j.events = q.queue
  <2>1. q.queue # << >>
    BY <1>3 DEF Range
  <2>2. QED BY <1>2, <2>1, FlushSends DEF Job
<1>5. /\ room \in JobLists /\ Len(room) <= 1 /\ Sent(q) \in JobLists /\ Len(Sent(q)) <= 1
  BY <1>1, <1>2, OneFlushSends
<1>6. ring \o (room \o Sent(q)) = (ring \o room) \o Sent(q)
  BY <1>1, <1>5, TwoFlushesSend
<1>7. ring' = (ring \o room) \o Sent(q)
  BY <1>6 DEF Finish, Send
<1> HIDE DEF q, room
<1> DEFINE r == ring \o room
           l == Len(r)
<1>8. /\ ring' \in JobLists /\ Len(ring') = l + 1 /\ l \in Nat /\ ring'[l + 1] = j
  <2>1. r \in JobLists
    BY <1>1, <1>5 DEF JobLists
  <2>2. ring' = r \o << j >>
    BY <1>4, <1>7
  <2> HIDE DEF r
  <2>3. QED BY <2>1, <2>2, OneMore, JobOf
<1> HIDE DEF l, r
<1>9. l + 1 \in DOMAIN ring'
  BY <1>8, JobOf
<1>10. QED BY <1>3, <1>4, <1>8, <1>9 DEF SignalComes

LEMMA FinishAnsweredNext == Inv /\ FinishAnswered /\ [Next]_vars => FinishAnswered'
<1> SUFFICES ASSUME Inv, FinishAnswered, [Next]_vars, pc' = "finish"
             PROVE  SignalComes(FinishSignal)'
  BY DEF FinishAnswered
<1>1. CASE Finish
  BY <1>1, FinishSends
<1>2. ASSUME pc = "finish", UNCHANGED << ring, signal >> PROVE SignalComes(FinishSignal)'
  BY <1>2 DEF FinishAnswered, SignalComes
<1>3. CASE GpuExecute
  BY <1>3, StillComes, Constants DEF FinishAnswered, GpuExecute, Signals, FinishSignal
<1>4. CASE UNCHANGED vars
  BY <1>2, <1>4 DEF vars
<1>5. ASSUME Client, ~Finish PROVE FALSE
  BY <1>5 DEF Client, Reserve, ReserveFirst, ReserveFull, ReserveAborts, Write, WriteNothing, Flush,
              FlushFails, QueueEvent, QueueEventFails, FinishFails
<1>6. CASE Wake \/ WaitFails
  BY <1>6 DEF Wake, WaitFails, SwitchNextBuffer, FinishWait, SwitchAborts, FinishWaitFails
<1>7. QED BY <1>1, <1>3, <1>4, <1>5, <1>6 DEF Next

-----------------------------------------------------------------------------
(* Commits without events. *)

\* The kernel's count of silent commits after it got a list of jobs.
SilentAfter(jobs, s) ==
  IF Signalling(jobs) = {} THEN s + Len(jobs) ELSE Len(jobs) - Max(Signalling(jobs))

\* The context counts what the kernel counts; beyond the limit its buffer is spent,
\* and a client that has no buffer has committed nothing.
Silence(c, s) ==
  /\ s = c.flushes
  /\ c.flushes <= MaxUnsignaled \/ (c.flushes = MaxUnsignaled + 1 /\ Spent(c))
  /\ c.cur_buf = NO_BUFFER => c.flushes = 0

SilenceInv ==
  /\ Silence(ctx, silent)
  /\ pc = "switch" => ctx.flushes = 0

\* No job, one job without events, and a list whose last job has events.
LEMMA SilentCounts ==
  ASSUME NEW s \in Nat
  PROVE  /\ SilentAfter(<< >>, s) = s
         /\ \A j \in Jobs : j.events = << >> => SilentAfter(<< j >>, s) = s + 1
         /\ \A j \in Jobs, r \in JobLists :
              j.events # << >> => SilentAfter(r \o << j >>, s) = 0
         /\ \A j \in Jobs : j.events # << >> => SilentAfter(<< j >>, s) = 0
<1>1. SilentAfter(<< >>, s) = s
  <2>1. Signalling(<< >>) = {} /\ Len(<< >>) = 0
    BY DEF Signalling
  <2>2. QED BY <2>1 DEF SilentAfter
<1>2. ASSUME NEW j \in Jobs, j.events = << >> PROVE SilentAfter(<< j >>, s) = s + 1
  <2>1. Signalling(<< j >>) = {} /\ Len(<< j >>) = 1
    BY <1>2 DEF Signalling
  <2>2. QED BY <2>1 DEF SilentAfter
<1>3. ASSUME NEW j \in Jobs, NEW r \in JobLists, j.events # << >>
      PROVE  SilentAfter(r \o << j >>, s) = 0
  <2> DEFINE q == r \o << j >>
  <2>1. /\ Len(r) \in Nat /\ Len(q) = Len(r) + 1 /\ DOMAIN q = 1 .. Len(q) /\ q[Len(q)] = j
    BY OneMore, JobOf
  <2> HIDE DEF q
  <2>2. Len(q) \in Signalling(q) /\ \A i \in Signalling(q) : i \in Nat /\ i <= Len(q)
    BY <1>3, <2>1 DEF Signalling
  <2>3. Max(Signalling(q)) = Len(q)
    <3>1. \A x : x \in Signalling(q) /\ (\A y \in Signalling(q) : x >= y) => x = Len(q)
      BY <2>1, <2>2
    <3>2. \A y \in Signalling(q) : Len(q) >= y
      BY <2>1, <2>2
    <3>3. QED BY <2>2, <3>1, <3>2 DEF Max
  <2>4. QED BY <2>1, <2>2, <2>3 DEF SilentAfter, q
<1>4. ASSUME NEW j \in Jobs, j.events # << >> PROVE SilentAfter(<< j >>, s) = 0
  <2>1. << >> \in JobLists /\ << >> \o << j >> = << j >>
    BY DEF JobLists
  <2>2. QED BY <1>3, <1>4, <2>1, Zenon
<1>5. QED BY <1>1, <1>2, <1>3, <1>4

\* A flush counts what it sends, and spends the buffer at the limit.
LEMMA FlushSilence ==
  ASSUME NEW c \in Contexts, Offsets(c), NEW s \in Nat, Silence(c, s)
  PROVE  /\ Silence(Flushed(c), SilentAfter(Sent(c), s))
         /\ c.queue # << >> => Flushed(c).flushes = 0
<1>1. MaxUnsignaled \in Nat /\ c.flushes \in Nat /\ FlushCount(c) \in Nat
  BY LimitAssumption DEF FlushCount, Contexts
<1>2. Flushed(c).flushes = FlushCount(c)
  <2> DEFINE n == FlushCount(c)
             e == [c EXCEPT !.queue = << >>, !.flushes = n]
             st == NextStart(c)
  <2>1. e.flushes = n
    BY DEF Contexts
  <2>2. /\ Flushed(c) = e \/ Flushed(c) = [e EXCEPT !.start = Size - End, !.offset = Size - End]
           \/ Flushed(c) = [e EXCEPT !.start = st, !.offset = st + Begin]
    BY DEF Flushed
  <2>3. \A x, y : [e EXCEPT !.start = x, !.offset = y].flushes = e.flushes
    BY DEF Contexts
  <2>4. \A x, y : [e EXCEPT !.start = x, !.offset = y].flushes = n
    BY <2>1, <2>3
  <2> HIDE DEF e, n, st
  <2>5. CASE Flushed(c) = e
    BY <2>1, <2>5 DEF n
  <2>6. CASE Flushed(c) = [e EXCEPT !.start = Size - End, !.offset = Size - End]
    BY <2>4, <2>6 DEF n
  <2>7. CASE Flushed(c) = [e EXCEPT !.start = st, !.offset = st + Begin]
    BY <2>4, <2>7 DEF n
  <2>8. QED BY <2>2, <2>5, <2>6, <2>7
<1>3. Flushed(c).cur_buf = c.cur_buf
      /\ (NothingWritten(c) => Flushed(c).start = c.start /\ Flushed(c).offset = c.offset)
  BY FlushContext
<1>4. c.queue # << >> => FlushCount(c) = 0
  BY DEF FlushCount
<1>5. SilentAfter(Sent(c), s) = FlushCount(c)
  <2>1. CASE Sent(c) = << >> /\ c.queue = << >> /\ NothingWritten(c)
    BY <2>1, SilentCounts DEF FlushCount, Silence
  <2>2. CASE c.queue # << >> /\ \E j \in Jobs : j.events = c.queue /\ Sent(c) = << j >>
    BY <1>4, <2>2, SilentCounts
  <2>3. CASE /\ c.queue = << >> /\ ~NothingWritten(c)
             /\ \E j \in Jobs : j.events = c.queue /\ Sent(c) = << j >>
    BY <2>3, SilentCounts DEF FlushCount, Silence
  <2>4. QED BY <2>1, <2>2, <2>3, FlushSends DEF Job
<1>6. CASE c.queue # << >>
  BY <1>1, <1>2, <1>3, <1>4, <1>5, <1>6 DEF Silence
<1>7. CASE c.queue = << >> /\ NothingWritten(c)
  <2>1. FlushCount(c) = c.flushes
    BY <1>7 DEF FlushCount
  <2>2. QED BY <1>2, <1>3, <1>5, <1>7, <2>1 DEF Silence, Spent
<1>8. CASE c.queue = << >> /\ ~NothingWritten(c)
  <2>1. FlushCount(c) = c.flushes + 1 /\ c.cur_buf # NO_BUFFER
    BY <1>8 DEF FlushCount, NothingWritten
  <2>2. ~Spent(c)
    BY <1>8, Constants DEF NothingWritten, Spent
  <2>3. c.flushes <= MaxUnsignaled
    BY <2>2 DEF Silence
  <2>4. FlushCount(c) > MaxUnsignaled => Spent(Flushed(c))
    <3>1. SUFFICES ASSUME FlushCount(c) > MaxUnsignaled PROVE Spent(Flushed(c))
      OBVIOUS
    <3> DEFINE e == [c EXCEPT !.queue = << >>, !.flushes = FlushCount(c)]
    <3>2. Flushed(c) = [e EXCEPT !.start = Size - End, !.offset = Size - End]
      BY <1>8, <3>1 DEF Flushed, BufferSpent
    <3>3. \A x, y : [e EXCEPT !.start = x, !.offset = y].start = x
                    /\ [e EXCEPT !.start = x, !.offset = y].offset = y
      BY DEF Contexts
    <3> HIDE DEF e
    <3>4. QED BY <3>2, <3>3, Zenon DEF Spent
  <2>5. QED BY <1>1, <1>2, <1>3, <1>5, <1>8, <2>1, <2>3, <2>4 DEF Silence
<1>9. QED BY <1>2, <1>4, <1>6, <1>7, <1>8

\* So does queueing an event.
LEMMA QueueSilence ==
  ASSUME NEW c \in Contexts, Offsets(c), NEW s \in Nat, Silence(c, s), NEW e \in Events
  PROVE  Silence(Queued(c, e), SilentAfter(SentToQueue(c), s))
<1> DEFINE room == IF QueueFull(c) THEN Flushed(c) ELSE c
<1>1. room \in Contexts /\ Queued(c, e) = [room EXCEPT !.queue = Append(room.queue, e)]
  BY FlushContext DEF Queued
<1>2. Silence(room, SilentAfter(SentToQueue(c), s))
  BY FlushSilence, SilentCounts DEF SentToQueue
<1> HIDE DEF room
<1>3. /\ Queued(c, e).cur_buf = room.cur_buf /\ Queued(c, e).start = room.start
      /\ Queued(c, e).offset = room.offset /\ Queued(c, e).flushes = room.flushes
  BY <1>1 DEF Contexts
<1>4. QED BY <1>2, <1>3 DEF Silence, Spent

\* An event that is queued and flushed at once: the count starts again.
LEMMA SignalSilence ==
  ASSUME NEW c \in Contexts, Offsets(c), NEW s \in Nat, Silence(c, s), NEW e \in Events
  PROVE  LET q == Queued(c, e) IN
         /\ SilentAfter(SentToQueue(c) \o Sent(q), s) = 0
         /\ Flushed(q).flushes = 0
         /\ Silence(Flushed(q), 0)
<1> DEFINE q == Queued(c, e)
           room == SentToQueue(c)
<1>1. q \in Contexts /\ Offsets(q)
      /\ (q.queue = << e >> \/ q.queue = Append(c.queue, e))
  BY QueueContext
<1>2. c.queue \in Seq(Events)
  BY DEF Contexts, EventLists
<1>3. q.queue # << >>
  <2>1. << e >> # << >> /\ Append(c.queue, e) # << >>
    BY <1>2
  <2>2. QED BY <1>1, <2>1, Zenon
<1>4. SilentAfter(room, s) \in Nat
  <2>1. Silence(q, SilentAfter(room, s)) /\ q.flushes \in Nat
    BY <1>1, QueueSilence DEF Contexts
  <2>2. QED BY <2>1 DEF Silence
<1>5. Silence(q, SilentAfter(room, s))
  BY QueueSilence
<1>6. PICK j \in Jobs : Sent(q) = << j >> /\ j.events = q.queue
  BY <1>1, <1>3, FlushSends DEF Job
<1>7. room \in JobLists
  BY OneFlushSends
<1> HIDE DEF q, room
<1>8. SilentAfter(room \o Sent(q), s) = 0
  BY <1>3, <1>6, <1>7, SilentCounts
<1>9. Flushed(q).flushes = 0 /\ Silence(Flushed(q), SilentAfter(Sent(q), SilentAfter(room, s)))
  BY <1>1, <1>3, <1>4, <1>5, FlushSilence
<1>10. Silence(Flushed(q), 0)
  BY <1>9 DEF Silence
<1>11. QED BY <1>8, <1>9, <1>10 DEF q, room

LEMMA SilenceNext ==
  ASSUME "commit" \notin Faults, Inv, SilenceInv, [Next]_vars
  PROVE  SilenceInv'
<1>1. /\ ctx \in Contexts /\ [ctx EXCEPT !.offset = Align(@)] = ctx /\ silent \in Nat
      /\ Silence(ctx, silent)
  BY InvFacts DEF SilenceInv, Inv, TypeOK
<1>2. pc \in {"idle", "write", "finish"} => Offsets(ctx)
  BY DEF Inv
<1>3. \A jobs : Send(jobs) => silent' = SilentAfter(jobs, silent)
  BY DEF Send, SilentAfter
<1>4. ASSUME ctx' = ctx, silent' = silent, pc' # "switch" \/ pc' = pc PROVE SilenceInv'
  BY <1>4 DEF SilenceInv, Silence, Spent
<1>5. ASSUME NEW n \in Reserves, Reserve(n) PROVE SilenceInv'
  BY <1>1, <1>4, <1>5 DEF Reserve
<1>6. ASSUME NEW n \in Reserves, ReserveFirst(n) PROVE SilenceInv'
  BY <1>6 DEF ReserveFirst, SilenceInv, Silence, Spent
<1>7. ASSUME NEW n \in Reserves, ReserveFull(n) PROVE SilenceInv'
  <2> DEFINE q == Queued(ctx, ctx.cur_buf)
  <2>1. /\ pc = "idle" /\ ctx.cur_buf # NO_BUFFER /\ ctx' = Flushed(q)
        /\ Send(SentToQueue(ctx) \o Sent(q))
    BY <1>1, <1>7 DEF ReserveFull
  <2>2. ctx.cur_buf \in Events
    BY <1>1, <2>1, Constants DEF Contexts
  <2>3. /\ SilentAfter(SentToQueue(ctx) \o Sent(q), silent) = 0
        /\ Flushed(q).flushes = 0 /\ Silence(Flushed(q), 0)
    BY <1>1, <1>2, <2>1, <2>2, SignalSilence
  <2> HIDE DEF q
  <2>4. QED BY <1>3, <2>1, <2>3 DEF SilenceInv, Silence, Spent
<1>8. ASSUME NEW n \in Reserves, ReserveAborts(n) PROVE SilenceInv'
  BY <1>4, <1>8 DEF ReserveAborts
<1>9. ASSUME NEW len \in 1 .. need, Write(len) PROVE SilenceInv'
  <2>1. /\ pc = "write" /\ pc' = "idle" /\ silent' = silent
        /\ ctx' = [ctx EXCEPT !.offset = ctx.offset + len]
    BY <1>9 DEF Write
  <2>2. ctx'.flushes = ctx.flushes /\ ctx'.cur_buf = ctx.cur_buf
    BY <1>1, <2>1 DEF Contexts
  <2>3. ~Spent(ctx)
    <3>1. ctx.offset + need + End <= Size /\ need \in 1 .. Size - Begin - End
      BY <2>1, ReserveAssumption DEF Inv, Fits
    <3>2. QED BY <1>1, <3>1, Constants DEF Spent, Contexts
  <2>4. QED BY <1>1, <2>1, <2>2, <2>3 DEF SilenceInv, Silence
<1>10. CASE WriteNothing
  BY <1>4, <1>10 DEF WriteNothing
<1>11. CASE Flush
  <2>1. Silence(Flushed(ctx), SilentAfter(Sent(ctx), silent))
    BY <1>1, <1>2, <1>11, FlushSilence DEF Flush
  <2>2. pc' = "idle" /\ ctx' = Flushed(ctx) /\ silent' = SilentAfter(Sent(ctx), silent)
    BY <1>3, <1>11 DEF Flush
  <2>3. QED BY <2>1, <2>2 DEF SilenceInv, Silence, Spent
<1>12. CASE QueueEvent
  <2>1. Silence(Queued(ctx, Other), SilentAfter(SentToQueue(ctx), silent))
    BY <1>1, <1>2, <1>12, QueueSilence, Constants DEF QueueEvent
  <2>2. /\ pc' = "idle" /\ ctx' = Queued(ctx, Other)
        /\ silent' = SilentAfter(SentToQueue(ctx), silent)
    BY <1>3, <1>12 DEF QueueEvent
  <2>3. QED BY <2>1, <2>2 DEF SilenceInv, Silence, Spent
<1>13. CASE Finish
  <2> DEFINE q == Queued(ctx, FinishSignal)
  <2>1. /\ pc = "idle" /\ pc' = "finish" /\ ctx' = Flushed(q)
        /\ Send(SentToQueue(ctx) \o Sent(q))
    BY <1>13 DEF Finish
  <2>2. /\ SilentAfter(SentToQueue(ctx) \o Sent(q), silent) = 0
        /\ Silence(Flushed(q), 0)
    BY <1>1, <1>2, <2>1, SignalSilence, Constants
  <2> HIDE DEF q
  <2>3. QED BY <1>3, <2>1, <2>2 DEF SilenceInv, Silence, Spent
<1>14. CASE FlushFails \/ QueueEventFails \/ FinishFails
  BY <1>14 DEF FlushFails, QueueEventFails, FinishFails
<1>15. CASE SwitchNextBuffer
  <2>1. /\ pc = "switch" /\ pc' = "write" /\ silent' = silent
        /\ ctx' = [ctx EXCEPT !.cur_buf = NextBuffer(ctx.cur_buf), !.start = 0, !.offset = Begin]
    BY <1>15 DEF SwitchNextBuffer
  <2>2. ctx'.flushes = ctx.flushes
    BY <1>1, <2>1 DEF Contexts
  <2>3. QED BY <2>1, <2>2, LimitAssumption DEF SilenceInv, Silence
<1>16. CASE FinishWait \/ SwitchAborts \/ FinishWaitFails \/ GpuExecute \/ UNCHANGED vars
  BY <1>4, <1>16 DEF FinishWait, SwitchAborts, FinishWaitFails, GpuExecute, vars
<1>17. QED
  BY <1>5, <1>6, <1>7, <1>8, <1>9, <1>10, <1>11, <1>12, <1>13, <1>14, <1>15, <1>16
     DEF Next, Client, Wake, WaitFails

-----------------------------------------------------------------------------
(* What the GPU fetches. *)

Memories == [Bufs -> SUBSET [at : Nat, len : Nat \ {0}, id : Nat]]

\* Every word is of a group of commands that lies inside.
Inside(g, from, to) == from <= g.at /\ g.at + g.len <= to
Filled(m, b, from, to) ==
  \A w \in from .. to - 1 : \E g \in m[b] : Inside(g, from, to) /\ Overlaps(g, w, w + 1)

\* What was written since the last commit, and what each commit holds.
Contents(c, r, m) ==
  /\ c.cur_buf # NO_BUFFER => Filled(m, c.cur_buf, c.start + Begin, c.offset)
  /\ \A i \in 1 .. Len(r) : r[i].buf # NO_BUFFER =>
       Filled(m, r[i].buf, r[i].from + Begin, r[i].to)

\* The memory after the kernel got a list of jobs.
Patched(jobs, m) ==
  [b \in Bufs |-> {g \in m[b] : \A i \in DOMAIN jobs : jobs[i].buf = b => ~Patches(jobs[i], g)}]

LEMMA PatchedLists ==
  ASSUME NEW m \in Memories
  PROVE  /\ Patched(<< >>, m) = m
         /\ \A x, y \in JobLists : Patched(x \o y, m) = Patched(y, Patched(x, m))
         /\ \A jobs : Patched(jobs, m) \in Memories
<1>1. Patched(<< >>, m) = m
  <2>1. \A b \in Bufs : Patched(<< >>, m)[b] = m[b]
    BY DEF Patched
  <2>2. QED BY <2>1 DEF Patched, Memories
<1>2. ASSUME NEW x \in JobLists, NEW y \in JobLists
      PROVE  Patched(x \o y, m) = Patched(y, Patched(x, m))
  <2>1. /\ Len(x) \in Nat /\ Len(y) \in Nat /\ DOMAIN x = 1 .. Len(x) /\ DOMAIN y = 1 .. Len(y)
        /\ DOMAIN (x \o y) = 1 .. Len(x) + Len(y)
        /\ \A i \in 1 .. Len(x) : (x \o y)[i] = x[i]
        /\ \A i \in 1 .. Len(y) : (x \o y)[Len(x) + i] = y[i]
    BY DEF JobLists
  <2> DEFINE q == x \o y
  <2> HIDE DEF q
  <2>2. ASSUME NEW b \in Bufs, NEW g
        PROVE  (\A i \in DOMAIN q : q[i].buf = b => ~Patches(q[i], g))
                 <=> /\ \A i \in DOMAIN x : x[i].buf = b => ~Patches(x[i], g)
                     /\ \A i \in DOMAIN y : y[i].buf = b => ~Patches(y[i], g)
    <3> DEFINE P(j) == j.buf = b => ~Patches(j, g)
    <3>1. \A i \in DOMAIN x : i \in DOMAIN q /\ q[i] = x[i]
      BY <2>1 DEF q
    <3>2. \A i \in DOMAIN y : Len(x) + i \in DOMAIN q /\ q[Len(x) + i] = y[i]
      BY <2>1 DEF q
    <3>3. \A i \in DOMAIN q : (i \in DOMAIN x) \/ (i - Len(x) \in DOMAIN y /\ Len(x) + (i - Len(x)) = i)
      BY <2>1 DEF q
    <3> HIDE DEF P
    <3>4. (\A i \in DOMAIN q : P(q[i])) <=> (\A i \in DOMAIN x : P(x[i])) /\ (\A i \in DOMAIN y : P(y[i]))
      <4>1. ASSUME \A i \in DOMAIN q : P(q[i])
            PROVE  (\A i \in DOMAIN x : P(x[i])) /\ (\A i \in DOMAIN y : P(y[i]))
        BY <3>1, <3>2, <4>1
      <4>2. ASSUME \A i \in DOMAIN x : P(x[i]), \A i \in DOMAIN y : P(y[i]), NEW i \in DOMAIN q
            PROVE  P(q[i])
        <5>1. CASE i \in DOMAIN x
          BY <3>1, <4>2, <5>1
        <5>2. CASE i - Len(x) \in DOMAIN y /\ Len(x) + (i - Len(x)) = i
          <6> DEFINE k == i - Len(x)
          <6>1. k \in DOMAIN y /\ Len(x) + k = i
            BY <5>2
          <6> HIDE DEF k
          <6>2. QED BY <3>2, <4>2, <6>1
        <5>3. QED BY <3>3, <5>1, <5>2
      <4>3. QED BY <4>1, <4>2
    <3>5. QED BY <3>4 DEF P
  <2>3. ASSUME NEW b \in Bufs PROVE Patched(q, m)[b] = Patched(y, Patched(x, m))[b]
    BY <2>2 DEF Patched
  <2>4. QED BY <2>3 DEF Patched, q
<1>3. ASSUME NEW jobs PROVE Patched(jobs, m) \in Memories
  BY DEF Patched, Memories
<1>4. QED BY <1>1, <1>2, <1>3

\* What one job patches.
LEMMA PatchedOne ==
  ASSUME NEW m \in Memories, NEW j \in Jobs
  PROVE  \A b \in Bufs : Patched(<< j >>, m)[b] = {g \in m[b] : j.buf = b => ~Patches(j, g)}
  BY DEF Patched

\* Groups before a job, and groups inside its commands, stay.
LEMMA FilledStays ==
  ASSUME NEW m \in Memories, NEW j \in Jobs, NEW b \in Bufs, NEW from \in Nat, NEW to \in Nat,
         Filled(m, b, from, to), j.from <= j.to,
         j.buf = b => to <= j.from \/ (j.from + Begin <= from /\ to <= j.to)
  PROVE  Filled(Patched(<< j >>, m), b, from, to)
<1> SUFFICES ASSUME NEW w \in from .. to - 1
             PROVE  \E g \in Patched(<< j >>, m)[b] : Inside(g, from, to) /\ Overlaps(g, w, w + 1)
  BY DEF Filled
<1>1. PICK g \in m[b] : Inside(g, from, to) /\ Overlaps(g, w, w + 1)
  BY DEF Filled
<1>2. g.at \in Nat /\ g.len \in Nat /\ g.len > 0
  BY DEF Memories
<1>3. j.from \in Nat /\ j.to \in Nat /\ Begin \in Nat /\ End \in Nat
  BY Constants DEF Jobs
<1>4. ASSUME j.buf = b PROVE ~Patches(j, g)
  <2>1. CASE to <= j.from
    BY <1>1, <1>2, <1>3, <2>1 DEF Patches, Overlaps, Inside
  <2>2. CASE j.from + Begin <= from /\ to <= j.to
    BY <1>1, <1>2, <1>3, <2>2 DEF Patches, Overlaps, Inside
  <2>3. QED BY <1>3, <1>4, <2>1, <2>2
<1>5. g \in Patched(<< j >>, m)[b]
  BY <1>4, PatchedOne
<1>6. QED BY <1>1, <1>5

\* A flush commits what was written.
LEMMA FlushContents ==
  ASSUME NEW c \in Contexts, Offsets(c), NEW r \in JobLists, Layout(c, r),
         NEW m \in Memories, Contents(c, r, m)
  PROVE  Contents(Flushed(c), r \o Sent(c), Patched(Sent(c), m))
<1> DEFINE f == Flushed(c)
<1>1. /\ f \in Contexts /\ f.cur_buf = c.cur_buf /\ NothingWritten(f)
      /\ NothingWritten(c) => f.start = c.start /\ f.offset = c.offset
  BY FlushContext
<1>2. Len(r) \in Nat /\ \A i \in 1 .. Len(r) : r[i] \in Jobs
  BY JobOf
<1>3. ASSUME f.cur_buf # NO_BUFFER, NEW mm PROVE Filled(mm, f.cur_buf, f.start + Begin, f.offset)
  <2>1. f.offset <= f.start + Begin /\ f.offset \in Nat /\ f.start + Begin \in Nat
    BY <1>1, <1>3, Constants DEF NothingWritten, Contexts
  <2> HIDE DEF f
  <2>2. f.start + Begin .. f.offset - 1 = {}
    BY <2>1
  <2>3. QED BY <2>2 DEF Filled
<1>4. CASE Sent(c) = << >>
  BY <1>3, <1>4, JobOf, PatchedLists DEF Contents
<1>5. ASSUME NEW j \in Jobs, Sent(c) = << j >>, j.from <= j.to,
             \A i \in 1 .. Len(r) : r[i].buf # NO_BUFFER /\ r[i].buf = j.buf => r[i].to <= j.from,
             j.buf # NO_BUFFER => Filled(m, j.buf, j.from + Begin, j.to)
      PROVE  Contents(Flushed(c), r \o Sent(c), Patched(Sent(c), m))
  <2> DEFINE q == r \o << j >>
             p == Patched(<< j >>, m)
  <2>1. /\ q \in JobLists /\ Len(q) = Len(r) + 1 /\ q[Len(r) + 1] = j
        /\ \A i \in 1 .. Len(r) : q[i] = r[i]
    BY OneMore
  <2> HIDE DEF q, p, f
  <2>2. ASSUME NEW i \in 1 .. Len(r), r[i].buf # NO_BUFFER
        PROVE  Filled(p, r[i].buf, r[i].from + Begin, r[i].to)
    <3>1. r[i].buf \in Bufs /\ r[i].from + Begin \in Nat /\ r[i].to \in Nat
      BY <1>2, <2>2, Constants DEF Jobs
    <3>2. Filled(m, r[i].buf, r[i].from + Begin, r[i].to)
      BY <2>2 DEF Contents
    <3>3. j.buf = r[i].buf => r[i].to <= j.from
      BY <1>5, <2>2
    <3>4. QED BY <1>5, <3>1, <3>2, <3>3, FilledStays DEF p
  <2>3. ASSUME j.buf # NO_BUFFER PROVE Filled(p, j.buf, j.from + Begin, j.to)
    <3>1. j.buf \in Bufs /\ j.from \in Nat /\ j.from + Begin \in Nat /\ j.to \in Nat
      BY <2>3, Constants DEF Jobs
    <3>2. j.from + Begin <= j.from + Begin /\ j.to <= j.to
      BY <3>1
    <3>3. QED BY <1>5, <2>3, <3>1, <3>2, FilledStays DEF p
  <2>4. \A i \in 1 .. Len(q) : i \in 1 .. Len(r) \/ i = Len(r) + 1
    BY <1>2, <2>1
  <2>5. \A i \in 1 .. Len(q) : q[i].buf # NO_BUFFER => Filled(p, q[i].buf, q[i].from + Begin, q[i].to)
    BY <2>1, <2>2, <2>3, <2>4
  <2>6. Contents(f, q, p)
    BY <1>3, <2>5 DEF Contents
  <2>7. QED BY <1>5, <2>6 DEF f, q, p
<1>6. CASE Sent(c) = << Job(NO_BUFFER, 0, 0, c.queue) >> /\ Job(NO_BUFFER, 0, 0, c.queue) \in Jobs
  BY <1>5, <1>6 DEF Job
<1>7. CASE /\ ~NothingWritten(c)
           /\ Sent(c) = << Job(c.cur_buf, c.start, c.offset, c.queue) >>
           /\ Job(c.cur_buf, c.start, c.offset, c.queue) \in Jobs
  <2> DEFINE j == Job(c.cur_buf, c.start, c.offset, c.queue)
  <2>1. j.buf = c.cur_buf /\ j.from = c.start /\ j.to = c.offset /\ j \in Jobs /\ Sent(c) = << j >>
    BY <1>7 DEF Job
  <2> HIDE DEF j
  <2>2. ~Spent(c) /\ c.cur_buf # NO_BUFFER
    BY <1>7, Constants DEF NothingWritten, Spent, Contexts
  <2>3. \A i \in 1 .. Len(r) : r[i].buf # NO_BUFFER /\ r[i].buf = c.cur_buf => r[i].to <= c.start
    <3>1. \A i \in 1 .. Len(r) : r[i].to \in Nat
      BY <1>2, Constants DEF Jobs
    <3>2. c.start \in Nat /\ End \in Nat
      BY Constants DEF Contexts
    <3>3. QED BY <2>2, <3>1, <3>2 DEF Layout
  <2>4. Filled(m, c.cur_buf, c.start + Begin, c.offset)
    BY <2>2 DEF Contents
  <2>5. j.from <= j.to
    BY <1>7, <2>1, Constants DEF NothingWritten, Contexts
  <2>6. QED BY <1>5, <2>1, <2>3, <2>4, <2>5
<1>8. QED BY <1>4, <1>6, <1>7, FlushSends

\* Only the buffer and the offsets of the context matter.
LEMMA QueueContents ==
  ASSUME NEW c \in Contexts, Offsets(c), NEW r \in JobLists, Layout(c, r),
         NEW m \in Memories, Contents(c, r, m), NEW e \in Events
  PROVE  Contents(Queued(c, e), r \o SentToQueue(c), Patched(SentToQueue(c), m))
<1>1. CASE QueueFull(c)
  <2>1. SentToQueue(c) = Sent(c) /\ Contents(Flushed(c), r \o Sent(c), Patched(Sent(c), m))
    BY <1>1, FlushContents DEF SentToQueue
  <2>2. /\ Queued(c, e).cur_buf = Flushed(c).cur_buf /\ Queued(c, e).start = Flushed(c).start
        /\ Queued(c, e).offset = Flushed(c).offset
    BY <1>1, QueueContext, FlushContext
  <2>3. QED BY <2>1, <2>2 DEF Contents
<1>2. CASE ~QueueFull(c)
  <2>1. SentToQueue(c) = << >> /\ r \o << >> = r /\ Patched(<< >>, m) = m
    BY <1>2, JobOf, PatchedLists DEF SentToQueue
  <2>2. /\ Queued(c, e).cur_buf = c.cur_buf /\ Queued(c, e).start = c.start
        /\ Queued(c, e).offset = c.offset
    BY <1>2, QueueContext
  <2>3. QED BY <2>1, <2>2 DEF Contents
<1>3. QED BY <1>1, <1>2

\* An event that is queued and flushed at once.
LEMMA SignalContents ==
  ASSUME NEW c \in Contexts, Offsets(c), NEW r \in JobLists, Layout(c, r),
         NEW m \in Memories, Contents(c, r, m), NEW e \in Events
  PROVE  LET q == Queued(c, e)
             jobs == SentToQueue(c) \o Sent(q)
         IN  Contents(Flushed(q), r \o jobs, Patched(jobs, m))
<1> DEFINE q == Queued(c, e)
           room == SentToQueue(c)
<1>1. q \in Contexts /\ Offsets(q)
  BY QueueContext
<1>2. Layout(q, r \o room) /\ r \o room \in JobLists
  BY QueueLayout
<1>3. Contents(q, r \o room, Patched(room, m)) /\ Patched(room, m) \in Memories
  BY QueueContents, PatchedLists
<1>4. room \in JobLists /\ Len(room) <= 1 /\ Sent(q) \in JobLists /\ Len(Sent(q)) <= 1
  BY <1>1, OneFlushSends
<1> HIDE DEF q, room
<1>5. Contents(Flushed(q), (r \o room) \o Sent(q), Patched(Sent(q), Patched(room, m)))
  BY <1>1, <1>2, <1>3, FlushContents
<1>6. /\ r \o (room \o Sent(q)) = (r \o room) \o Sent(q)
      /\ Patched(room \o Sent(q), m) = Patched(Sent(q), Patched(room, m))
  BY <1>4, TwoFlushesSend, PatchedLists
<1>7. QED BY <1>5, <1>6 DEF q, room

\* What the client writes lies behind what it wrote before, and touches no commit.
LEMMA WriteContents ==
  ASSUME Inv, Contents(ctx, ring, mem), NEW len \in 1 .. need, Write(len)
  PROVE  Contents(ctx', ring', mem')
<1> DEFINE b == ctx.cur_buf
           o == ctx.offset
           g == Group(o, len, emitted + 1)
<1>1. /\ pc = "write" /\ ring' = ring
      /\ mem' = [mem EXCEPT ![b] = Without(@, o, o + len) \union {g}]
      /\ ctx' = [ctx EXCEPT !.offset = o + len]
  BY DEF Write
<1>2. /\ ctx \in Contexts /\ ring \in JobLists /\ need \in Reserves /\ b # NO_BUFFER
      /\ o + need + End <= Size /\ Offsets(ctx) /\ Layout(ctx, ring)
  BY <1>1, InvFacts DEF Inv, Fits
<1>3. need \in 1 .. Size - Begin - End
  BY <1>2, ReserveAssumption
<1>4. /\ o \in Nat /\ len \in Nat /\ len > 0 /\ ctx.start \in Nat /\ b \in Bufs
      /\ Begin \in Nat /\ End \in Nat /\ Size \in Nat
  BY <1>2, <1>3, Constants DEF Contexts
<1>5. ~Spent(ctx)
  <2>1. o # Size - End
    BY <1>2, <1>3, <1>4
  <2>2. QED BY <2>1 DEF Spent
<1>6. ctx.start + Begin <= o
  BY <1>2, <1>5 DEF Offsets
<1>7. /\ ctx'.cur_buf = b /\ ctx'.start = ctx.start /\ ctx'.offset = o + len
  BY <1>1, <1>2 DEF Contexts
<1>8. mem \in Memories
  BY DEF Inv, TypeOK, Memories
<1>9. /\ mem'[b] = Without(mem[b], o, o + len) \union {g}
      /\ \A x \in Bufs : x # b => mem'[x] = mem[x]
  BY <1>1, <1>4, <1>8 DEF Memories
<1> HIDE DEF b, o
<1>10. ASSUME NEW h \in mem[b], NEW to \in Nat, to <= o, h.at + h.len <= to PROVE h \in mem'[b]
  <2>1. h.at \in Nat /\ h.len \in Nat
    BY <1>4, <1>8 DEF Memories
  <2>2. ~Overlaps(h, o, o + len)
    BY <1>4, <1>10, <2>1 DEF Overlaps
  <2>3. QED BY <1>9, <2>2 DEF Without
<1>11. ASSUME NEW i \in 1 .. Len(ring), ring[i].buf # NO_BUFFER
       PROVE  Filled(mem', ring[i].buf, ring[i].from + Begin, ring[i].to)
  <2>1. Filled(mem, ring[i].buf, ring[i].from + Begin, ring[i].to) /\ ring[i] \in Jobs
    BY <1>2, <1>11, JobOf DEF Contents
  <2>2. ring[i].to \in Nat /\ ring[i].buf \in Bufs
    BY <1>11, <2>1, Constants DEF Jobs
  <2>3. CASE ring[i].buf = b
    <3>1. ring[i].to + End <= ctx.start
      BY <1>2, <1>5, <1>11, <2>3 DEF Layout, b
    <3>2. ring[i].to <= o
      BY <1>4, <1>6, <2>2, <3>1
    <3>3. QED BY <1>10, <2>1, <2>2, <2>3, <3>2 DEF Filled, Inside
  <2>4. CASE ring[i].buf # b
    BY <1>9, <2>1, <2>2, <2>4 DEF Filled
  <2>5. QED BY <2>3, <2>4
<1>12. Filled(mem', b, ctx.start + Begin, o + len)
  <2> DEFINE from == ctx.start + Begin
  <2>1. from \in Nat /\ from <= o
    BY <1>4, <1>6
  <2>2. Filled(mem, b, from, o)
    BY <1>2 DEF Contents, b, o
  <2> HIDE DEF from, g
  <2> DEFINE to == o + len
  <2> SUFFICES ASSUME NEW w \in from .. to - 1
               PROVE  \E h \in mem'[b] : Inside(h, from, to) /\ Overlaps(h, w, w + 1)
    BY DEF Filled, from
  <2>3. CASE w < o
    <3>1. w \in from .. o - 1
      BY <1>4, <2>1, <2>3
    <3>2. PICK h \in mem[b] : Inside(h, from, o) /\ Overlaps(h, w, w + 1)
      BY <2>2, <3>1 DEF Filled
    <3>3. h \in mem'[b]
      BY <1>4, <1>10, <3>2 DEF Inside
    <3>4. h.at \in Nat /\ h.len \in Nat
      BY <1>4, <1>8 DEF Memories
    <3>5. Inside(h, from, o + len)
      BY <1>4, <3>2, <3>4 DEF Inside
    <3>6. QED BY <3>2, <3>3, <3>5
  <2>4. CASE w >= o
    <3>1. g.at = o /\ g.len = len /\ g \in mem'[b]
      BY <1>9 DEF g, Group
    <3>2. Inside(g, from, o + len) /\ Overlaps(g, w, w + 1)
      BY <1>4, <2>1, <2>4, <3>1 DEF Inside, Overlaps
    <3>3. QED BY <3>1, <3>2
  <2>5. QED BY <1>4, <2>1, <2>3, <2>4
<1>13. QED BY <1>1, <1>7, <1>11, <1>12 DEF Contents

LEMMA ContentsNext ==
  ASSUME Inv, Contents(ctx, ring, mem), [Next]_vars
  PROVE  Contents(ctx', ring', mem')
<1>1. /\ ctx \in Contexts /\ [ctx EXCEPT !.offset = Align(@)] = ctx
      /\ ring \in JobLists /\ Layout(ctx, ring) /\ mem \in Memories
  BY InvFacts DEF Inv, TypeOK, Memories
<1>2. pc \in {"idle", "write", "finish"} => Offsets(ctx)
  BY DEF Inv
<1>3. \A jobs : Send(jobs) => ring' = ring \o jobs /\ mem' = Patched(jobs, mem)
  BY DEF Send, Patched
<1>4. ASSUME ctx' = ctx, ring' = ring, mem' = mem PROVE Contents(ctx', ring', mem')
  BY <1>4
<1>5. ASSUME NEW n \in Reserves, Reserve(n) \/ ReserveFirst(n) \/ ReserveAborts(n)
      PROVE  Contents(ctx', ring', mem')
  BY <1>1, <1>4, <1>5 DEF Reserve, ReserveFirst, ReserveAborts
<1>6. ASSUME NEW n \in Reserves, ReserveFull(n) PROVE Contents(ctx', ring', mem')
  <2> DEFINE q == Queued(ctx, ctx.cur_buf)
  <2>1. /\ pc = "idle" /\ ctx.cur_buf # NO_BUFFER /\ ctx' = Flushed(q)
        /\ Send(SentToQueue(ctx) \o Sent(q))
    BY <1>1, <1>6 DEF ReserveFull
  <2>2. ctx.cur_buf \in Events
    BY <1>1, <2>1, Constants DEF Contexts
  <2>3. LET jobs == SentToQueue(ctx) \o Sent(q) IN
        Contents(Flushed(q), ring \o jobs, Patched(jobs, mem))
    BY <1>1, <1>2, <2>1, <2>2, SignalContents
  <2> HIDE DEF q
  <2>4. QED BY <1>3, <2>1, <2>3
<1>7. ASSUME NEW len \in 1 .. need, Write(len) PROVE Contents(ctx', ring', mem')
  BY <1>7, WriteContents
<1>8. CASE Flush
  <2>1. pc = "idle" /\ ctx' = Flushed(ctx) /\ Send(Sent(ctx))
    BY <1>8 DEF Flush
  <2>2. Contents(Flushed(ctx), ring \o Sent(ctx), Patched(Sent(ctx), mem))
    BY <1>1, <1>2, <2>1, FlushContents
  <2>3. QED BY <1>3, <2>1, <2>2
<1>9. CASE QueueEvent
  <2>1. pc = "idle" /\ ctx' = Queued(ctx, Other) /\ Send(SentToQueue(ctx))
    BY <1>9 DEF QueueEvent
  <2>2. Contents(Queued(ctx, Other), ring \o SentToQueue(ctx), Patched(SentToQueue(ctx), mem))
    BY <1>1, <1>2, <2>1, QueueContents, Constants
  <2>3. QED BY <1>3, <2>1, <2>2
<1>10. CASE Finish
  <2> DEFINE q == Queued(ctx, FinishSignal)
  <2>1. pc = "idle" /\ ctx' = Flushed(q) /\ Send(SentToQueue(ctx) \o Sent(q))
    BY <1>10 DEF Finish
  <2>2. LET jobs == SentToQueue(ctx) \o Sent(q) IN
        Contents(Flushed(q), ring \o jobs, Patched(jobs, mem))
    BY <1>1, <1>2, <2>1, SignalContents, Constants
  <2> HIDE DEF q
  <2>3. QED BY <1>3, <2>1, <2>2
<1>11. ASSUME NEW c \in Contexts, NEW r, NEW m, Contents(c, r, m)
       PROVE  Contents(FlushRefused(c), r, m)
  <2> DEFINE n == FlushCount(c)
  <2>1. FlushRefused(c) = [c EXCEPT !.queue = << >>, !.flushes = n]
    BY DEF FlushRefused
  <2> HIDE DEF n
  <2>2. /\ FlushRefused(c).cur_buf = c.cur_buf /\ FlushRefused(c).start = c.start
        /\ FlushRefused(c).offset = c.offset
    BY <2>1 DEF Contexts
  <2>3. QED BY <1>11, <2>2 DEF Contents
<1>12. CASE FlushFails \/ QueueEventFails
  BY <1>1, <1>11, <1>12 DEF FlushFails, QueueEventFails
<1>13. CASE FinishFails
  <2>1. /\ pc = "idle" /\ ctx' = FlushRefused(Queued(ctx, FinishSignal))
        /\ Send(SentToQueue(ctx))
    BY <1>13 DEF FinishFails
  <2>2. /\ Queued(ctx, FinishSignal) \in Contexts
        /\ Contents(Queued(ctx, FinishSignal), ring \o SentToQueue(ctx),
                    Patched(SentToQueue(ctx), mem))
    BY <1>1, <1>2, <2>1, QueueContext, QueueContents, Constants
  <2>3. QED BY <1>3, <1>11, <2>1, <2>2
<1>14. CASE SwitchNextBuffer
  <2>1. /\ ctx' = [ctx EXCEPT !.cur_buf = NextBuffer(ctx.cur_buf), !.start = 0, !.offset = Begin]
        /\ ring' = ring /\ mem' = mem
    BY <1>14 DEF SwitchNextBuffer
  <2>2. ctx'.start = 0 /\ ctx'.offset = Begin
    BY <1>1, <2>1 DEF Contexts
  <2>3. ctx'.start + Begin .. ctx'.offset - 1 = {}
    BY <2>2, Constants
  <2>4. QED BY <2>1, <2>3 DEF Contents, Filled
<1>15. CASE GpuExecute
  <2>1. ring # << >> /\ ring' = Tail(ring) /\ ctx' = ctx /\ mem' = mem
    BY <1>15 DEF GpuExecute
  <2>2. /\ Len(ring) \in Nat /\ Len(Tail(ring)) = Len(ring) - 1
        /\ \A i \in 1 .. Len(ring) - 1 : Tail(ring)[i] = ring[i + 1]
    BY <1>1, <2>1, OneLess
  <2>3. \A i \in 1 .. Len(ring') : ring'[i] = ring[i + 1] /\ i + 1 \in 1 .. Len(ring)
    BY <2>1, <2>2
  <2>4. QED BY <2>1, <2>3 DEF Contents
<1>16. CASE WriteNothing \/ FinishWait \/ SwitchAborts \/ FinishWaitFails \/ UNCHANGED vars
  BY <1>4, <1>16 DEF WriteNothing, FinishWait, SwitchAborts, FinishWaitFails, vars
<1>17. QED
  BY <1>5, <1>6, <1>7, <1>8, <1>9, <1>10, <1>12, <1>13, <1>14, <1>15, <1>16
     DEF Next, Client, Wake, WaitFails

-----------------------------------------------------------------------------
(* Theorems. *)

\* Every variable has its type, and every offset stays inside its buffer.
THEOREM TypeCorrect == Spec => []TypeOK
<1>1. Inv => TypeOK
  BY DEF Inv
<1>2. QED BY <1>1, Inductive, PTL

\* Commits of a buffer that wait for the GPU overlap neither each other nor the
\* end of the buffer, link areas included.
THEOREM LayoutKept == Spec => []CommitsDisjoint
<1>1. Inv => CommitsDisjoint
  <2> SUFFICES ASSUME Inv, NEW b \in Bufs, NEW i \in CommitsOf(b), NEW j \in CommitsOf(b)
               PROVE  /\ ring[i].to + End <= Size
                      /\ i < j => ring[i].to + End <= ring[j].from
    BY DEF CommitsDisjoint
  <2>1. /\ Layout(ctx, ring) /\ i \in 1 .. Len(ring) /\ j \in 1 .. Len(ring)
        /\ ring[i].buf = b /\ ring[j].buf = b /\ b # NO_BUFFER
    BY InvFacts, JobOf, Constants DEF CommitsOf, Inv
  <2>2. QED BY <2>1 DEF Layout
<1>2. QED BY <1>1, Inductive, PTL

\* The space the client reserved lies in no commit the GPU has not executed.
THEOREM WritesSafe == Spec => []WriteRegionFree
<1>1. Inv => WriteRegionFree
  <2> SUFFICES ASSUME Inv, pc = "write", NEW i \in CommitsOf(ctx.cur_buf)
               PROVE  ring[i].to + End <= ctx.offset
    BY DEF WriteRegionFree
  <2>1. /\ Layout(ctx, ring) /\ Offsets(ctx) /\ i \in 1 .. Len(ring) /\ ring[i] \in Jobs
        /\ ring[i].buf = ctx.cur_buf /\ ctx.cur_buf # NO_BUFFER /\ ctx \in Contexts
        /\ ctx.offset + need + End <= Size /\ need \in Reserves
    BY InvFacts, JobOf DEF CommitsOf, Inv, Fits
  <2>2. /\ ctx.offset \in Nat /\ ctx.start \in Nat /\ need \in Nat /\ need > 0
        /\ ring[i].to \in Nat
    <3>1. ctx.offset \in 0 .. Size /\ ctx.start \in 0 .. Size /\ ring[i].to \in 0 .. Size
      BY <2>1 DEF Contexts, Jobs
    <3>2. need \in 1 .. Size - Begin - End
      BY <2>1, ReserveAssumption
    <3>3. QED BY <3>1, <3>2
  <2>3. ~Spent(ctx)
    BY <2>1, <2>2, Constants DEF Spent
  <2>4. ring[i].to + End <= ctx.start /\ ctx.start + Begin <= ctx.offset
    BY <2>1, <2>3 DEF Layout, Offsets
  <2>5. QED BY <2>2, <2>4, Constants
<1>2. QED BY <1>1, Inductive, PTL

\* The overflow check of _etna_reserve_internal never fires.
THEOREM OverflowNever == Spec => []NoOverflow
<1>1. Inv => NoOverflow
  <2> SUFFICES ASSUME Inv, ctx.cur_buf # NO_BUFFER PROVE ctx.offset + End <= Size
    BY InvFacts, Constants DEF NoOverflow, Overflow, Contexts
  <2>1. QED BY InvFacts, Constants DEF Inv, Offsets, Spent, Contexts
<1>2. QED BY <1>1, Inductive, PTL

\* Each buffer is free, or its signal is with the queue or the kernel once, or
\* the client owns it.
THEOREM NoBufferLost == Spec => []BufferConserved
<1>1. Inv => BufferConserved
  <2> SUFFICES ASSUME Inv, pc # "aborted", NEW b \in Bufs
               PROVE  Cardinality(Places(b)) = IF b = ctx.cur_buf /\ pc # "switch" THEN 0 ELSE 1
    BY DEF BufferConserved
  <2>1. /\ Owners(ring, signal, Owner) /\ b # NO_BUFFER /\ DOMAIN ring = 1 .. Len(ring)
        /\ At(b, ctx.queue) = {}
    BY InvFacts, JobOf, Constants DEF Inv, Plain, Hasnt, At
  <2>2. CASE b = Owner
    <3>1. Owned(b, ring, signal)
      BY <2>1, <2>2 DEF Owners
    <3>2. Places(b) = {}
      BY <2>1, <3>1 DEF Places, Owned, At, Hasnt
    <3>3. b = ctx.cur_buf /\ pc # "switch"
      BY <2>1, <2>2 DEF Owner
    <3>4. QED BY <3>2, <3>3, FS_EmptySet
  <2>3. CASE b # Owner
    <3>1. Free(b, ring, signal) \/ Coming(b, ring, signal)
      BY <2>1, <2>3 DEF Owners
    <3>2. ~(b = ctx.cur_buf /\ pc # "switch")
      BY <2>3 DEF Owner
    <3>3. ASSUME Free(b, ring, signal) PROVE \E p : Places(b) = {p}
      <4>1. Places(b) = {<< 0, 0 >>}
        BY <2>1, <3>3 DEF Places, Free, At, Hasnt
      <4>2. QED BY <4>1
    <3>4. ASSUME Coming(b, ring, signal) PROVE \E p : Places(b) = {p}
      <4>1. PICK i \in 1 .. Len(ring) : ComesWith(b, ring, i)
        BY <3>4 DEF Coming
      <4>2. PICK k : At(b, ring[i].events) = {k}
        BY <4>1 DEF ComesWith, HasOnce, At
      <4>3. \A j \in DOMAIN ring : j # i => At(b, ring[j].events) = {}
        BY <2>1, <4>1 DEF ComesWith, Hasnt, At
      <4>4. ~signal[b]
        BY <3>4 DEF Coming
      <4> DEFINE here(j) == {<< j, l >> : l \in At(b, ring[j].events)}
      <4>5. here(i) = {<< i, k >>} /\ \A j \in DOMAIN ring : j # i => here(j) = {}
        BY <4>2, <4>3
      <4>6. {p \in {<< 0, 0 >>} : signal[b]} = {} /\ {<< 0, l >> : l \in At(b, ctx.queue)} = {}
        BY <2>1, <4>4
      <4>7. Places(b) = UNION {here(j) : j \in DOMAIN ring}
        BY <4>6 DEF Places
      <4> HIDE DEF here
      <4>8. UNION {here(j) : j \in DOMAIN ring} = here(i)
        BY <2>1, <4>5
      <4>9. QED BY <4>5, <4>7, <4>8
    <3>5. QED BY <3>1, <3>2, <3>3, <3>4, FS_Singleton
  <2>4. QED BY <2>2, <2>3
<1>2. QED BY <1>1, Inductive, PTL

\* The signal a client waits for, of its next buffer or of etna_finish, is set or
\* with the kernel: no flush loses it, whatever was refused before.
THEOREM WaitsEnd == Spec => []WaitsAnswered
<1>1. Init => FinishAnswered
  BY DEF Init, FinishAnswered
<1>2. Inv /\ FinishAnswered => WaitsAnswered
  <2> SUFFICES ASSUME Inv, pc = "switch" PROVE SignalComes(NextBuffer(ctx.cur_buf))
    BY DEF FinishAnswered, WaitsAnswered
  <2> DEFINE b == NextBuffer(ctx.cur_buf)
  <2>1. /\ Owners(ring, signal, NO_BUFFER) /\ ctx.cur_buf \in Bufs \union {NO_BUFFER}
        /\ DOMAIN ring = 1 .. Len(ring)
    BY InvFacts, JobOf DEF Inv, Owner, Contexts
  <2>2. b \in Bufs /\ b # NO_BUFFER
    BY <2>1, LayoutAssumption DEF NextBuffer, Bufs, NO_BUFFER
  <2> HIDE DEF b
  <2>3. signal[b] \/ \E i \in 1 .. Len(ring) : HasOnce(b, ring[i].events)
    BY <2>1, <2>2 DEF Owners, Free, Coming, ComesWith
  <2>4. SignalComes(b)
    BY <2>1, <2>3 DEF SignalComes, HasOnce, Range
  <2>5. QED BY <2>4 DEF b
<1>3. Spec => []FinishAnswered
  BY <1>1, FinishAnsweredNext, Inductive, PTL DEF Spec
<1>4. QED BY <1>2, <1>3, Inductive, PTL

\* No signal is lost, neither a buffer's nor the one etna_finish waits for.
THEOREM NoSignalLost == Spec => []SignalsConserved
<1>1. BufferConserved /\ WaitsAnswered => SignalsConserved
  BY DEF SignalsConserved
<1>2. QED BY <1>1, NoBufferLost, WaitsEnd, PTL

\* No more than MaxUnsignaled + 1 commits reach the kernel without an event, where
\* the kernel refuses none: a refused flush loses its events, and the count of
\* silent flushes starts again all the same.
THEOREM NeverLongSilent ==
  ASSUME "commit" \notin Faults
  PROVE  Spec => []SilenceBounded
<1>1. Init => SilenceInv
  BY LimitAssumption DEF Init, SilenceInv, Silence
<1>2. Inv /\ SilenceInv /\ [Next]_vars => SilenceInv'
  BY SilenceNext
<1>3. Spec => []SilenceInv
  BY <1>1, <1>2, Inductive, PTL DEF Spec
<1>4. Inv /\ SilenceInv => SilenceBounded
  BY LimitAssumption DEF Inv, TypeOK, SilenceInv, Silence, SilenceBounded
<1>5. QED BY <1>3, <1>4, Inductive, PTL

\* The GPU fetches no word of a commit that the client did not write, whatever the
\* kernel writes around other commits of the same buffer.
THEOREM FetchesClean == Spec => []FetchesWritten
<1> DEFINE ContentsInv == Contents(ctx, ring, mem)
<1>1. Init => ContentsInv
  BY DEF Init, Contents, NO_BUFFER
<1>2. Inv /\ ContentsInv /\ [Next]_vars => ContentsInv'
  BY ContentsNext
<1>3. Inv /\ ContentsInv => FetchesWritten
  <2> SUFFICES ASSUME Inv, ContentsInv, NEW b \in Bufs, NEW i \in CommitsOf(b),
                      NEW w \in ring[i].from + Begin .. ring[i].to - 1
               PROVE  \E g \in mem[b] : Overlaps(g, w, w + 1)
    BY DEF FetchesWritten
  <2>1. i \in 1 .. Len(ring) /\ ring[i].buf = b /\ b # NO_BUFFER
    BY InvFacts, JobOf, Constants DEF CommitsOf
  <2>2. Filled(mem, b, ring[i].from + Begin, ring[i].to)
    BY <2>1 DEF Contents
  <2>3. QED BY <2>2 DEF Filled
<1> HIDE DEF ContentsInv
<1>4. Spec => []ContentsInv
  BY <1>1, <1>2, Inductive, PTL DEF Spec
<1>5. QED BY <1>3, <1>4, Inductive, PTL

=============================================================================
