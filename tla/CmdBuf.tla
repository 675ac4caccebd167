-------------------------------- MODULE CmdBuf --------------------------------
(***************************************************************************)
(* Command buffers and event queue of one etna context:                    *)
(* src/attic/etnaviv/etna.c, etna.h and etna_queue.c.                      *)
(*                                                                         *)
(* The client writes commands into a ring of NumBufs buffers.  A flush     *)
(* commits the part written since the last flush, together with the queued *)
(* events, to the kernel, which appends it to the GPU's ring.  When a      *)
(* buffer is full its signal is queued behind its last commit, and the     *)
(* next buffer is used once its own signal is set.                         *)
(*                                                                         *)
(* Offsets count 32-bit words, as ctx->offset does; the byte offsets of    *)
(* the kernel structure are these times four.  Memory holds groups of      *)
(* commands (what a caller emits after one etna_reserve), by number.       *)
(***************************************************************************)
EXTENDS Integers, Sequences, FiniteSets, SequencesExt, FiniteSetsExt

CONSTANTS
  NumBufs,      \* NUM_COMMAND_BUFFERS (5)
  Size,         \* COMMAND_BUFFER_SIZE in words (8192)
  Begin,        \* BEGIN_COMMIT_CLEARANCE in words (8)
  End,          \* END_COMMIT_CLEARANCE in words (6)
  MaxUnsignaled,\* ETNA_MAX_UNSIGNALED_FLUSHES (40)
  QueueCap,     \* ETNA_QUEUE_CAPACITY (64)
  Reserves,     \* numbers of words callers reserve
  MaxEmitted,   \* bound: groups of commands the client writes
  MaxEvents,    \* bound: events the client queues by itself
  Faults        \* kernel calls that may fail: subset of {"commit", "wait"}

ASSUME LayoutAssumption ==
  /\ NumBufs \in Nat \ {0}
  /\ Begin \in Nat \ {0} /\ (Begin % 2) = 0
  /\ End \in Nat \ {0} /\ (End % 2) = 0
  /\ Size \in Nat /\ (Size % 2) = 0 /\ Begin + End < Size
ASSUME LimitAssumption ==
  /\ MaxUnsignaled \in Nat
  /\ QueueCap \in Nat \ {0}
ASSUME BoundAssumption == MaxEmitted \in Nat /\ MaxEvents \in Nat
\* No caller reserves more than an empty buffer holds.
ASSUME ReserveAssumption == Reserves \subseteq 1 .. Size - Begin - End
ASSUME FaultAssumption == Faults \subseteq {"commit", "wait"}

VARIABLES
  ctx,      \* struct etna_ctx: cur_buf, offset, flushes; startOffset of the
            \* current buffer; the contents of the queue
  mem,      \* what is in the memory of each buffer
  signal,   \* kernel: state of the signals
  ring,     \* kernel: commits and event lists the GPU has not executed
  pc,       \* where the client is
  need,     \* number of words of the last etna_reserve
  emitted,  \* groups written by the client
  executed, \* groups executed by the GPU, in order
  events,   \* events queued by the client itself
  silent    \* commits since the kernel last got an event

vars == << ctx, mem, signal, ring, pc, need, emitted, executed, events, silent >>

-----------------------------------------------------------------------------
Bufs == 0 .. NumBufs - 1
NO_BUFFER == -1

\* Events: the signals of the buffers, ctx->sig_id, and any other event (a
\* fence's signal, a deferred free).
FinishSignal == NumBufs
Other == NumBufs + 1
Signals == 0 .. NumBufs
Events == 0 .. NumBufs + 1

\* A group of commands in memory, and a list of what the kernel was sent.
Group(at, len, id) == [at |-> at, len |-> len, id |-> id]
Job(buf, from, to, ev) == [buf |-> buf, from |-> from, to |-> to, events |-> ev]

Overlaps(g, from, to) == g.at < to /\ from < g.at + g.len
Without(groups, from, to) == {g \in groups : ~Overlaps(g, from, to)}

Init ==
  /\ ctx = [cur_buf |-> NO_BUFFER, offset |-> 0, start |-> 0, flushes |-> 0, queue |-> << >>]
  /\ mem = [b \in Bufs |-> {}]
  /\ signal = [s \in Signals |-> s \in Bufs]
  /\ ring = << >>
  /\ pc = "idle"
  /\ need = 0
  /\ emitted = 0
  /\ executed = << >>
  /\ events = 0
  /\ silent = 0

-----------------------------------------------------------------------------
(* etna_flush, as functions of the context it is called on. *)

NothingWritten(c) == c.cur_buf = NO_BUFFER \/ c.offset <= c.start + Begin

\* What one flush sends to the kernel.
Sent_CommandsOnly(c) ==
  IF ~NothingWritten(c) THEN << Job(c.cur_buf, c.start, c.offset, c.queue) >> ELSE << >>

Sent(c) ==
  IF ~NothingWritten(c) THEN << Job(c.cur_buf, c.start, c.offset, c.queue) >>
  ELSE IF c.queue # << >> THEN << Job(NO_BUFFER, 0, 0, c.queue) >>
  ELSE << >>

FlushCount(c) ==
  IF c.queue # << >> THEN 0
  ELSE IF NothingWritten(c) THEN c.flushes
  ELSE c.flushes + 1

\* startOffset and offset of the current buffer after a commit.
NextStart_NoClearance(c) == c.offset
NextStart(c) == c.offset + End
BufferSpent_NoLimit(c) == NextStart(c) + Begin + End >= Size
BufferSpent_NoLayout(c) == FlushCount(c) > MaxUnsignaled
BufferSpent(c) == NextStart(c) + Begin + End >= Size \/ FlushCount(c) > MaxUnsignaled

Flushed(c) ==
  LET emptied == [c EXCEPT !.queue = << >>, !.flushes = FlushCount(c)] IN
  IF NothingWritten(c) THEN emptied
  ELSE IF BufferSpent(c) THEN [emptied EXCEPT !.start = Size - End, !.offset = Size - End]
  ELSE [emptied EXCEPT !.start = NextStart(c), !.offset = NextStart(c) + Begin]

\* The kernel refuses the commit: the queue is already emptied.
FlushRefused(c) == [c EXCEPT !.queue = << >>, !.flushes = FlushCount(c)]

(* etna_queue_alloc: a full queue is flushed first. *)
QueueFull(c) == Len(c.queue) = QueueCap
Queued(c, e) ==
  LET room == IF QueueFull(c) THEN Flushed(c) ELSE c
  IN  [room EXCEPT !.queue = Append(@, e)]
SentToQueue(c) == IF QueueFull(c) THEN Sent(c) ELSE << >>

(* The kernel appends what it is sent to the GPU's ring.  It writes the     *)
(* words before a commit (PIPE switch) and after it (LINK).                 *)
Patches(job, g) ==
  Overlaps(g, job.from, job.from + Begin) \/ Overlaps(g, job.to, job.to + End)

Signalling(jobs) == {i \in DOMAIN jobs : jobs[i].events # << >>}

Send(jobs) ==
  /\ ring' = ring \o jobs
  /\ mem' = [b \in Bufs |-> {g \in mem[b] : \A i \in DOMAIN jobs :
                                            jobs[i].buf = b => ~Patches(jobs[i], g)}]
  /\ silent' = IF Signalling(jobs) = {} THEN silent + Len(jobs)
               ELSE Len(jobs) - Max(Signalling(jobs))

-----------------------------------------------------------------------------
(* etna_reserve and the writes that follow it. *)

Align(o) == o + (o % 2)
Fits_NoClearance(o, n) == o + n <= Size
Fits(o, n) == o + n + End <= Size

\* Enough words are free in the current buffer.
Reserve(n) ==
  /\ pc = "idle"
  /\ emitted < MaxEmitted
  /\ ctx.cur_buf # NO_BUFFER
  /\ Fits(Align(ctx.offset), n)
  /\ ctx' = [ctx EXCEPT !.offset = Align(@)]
  /\ need' = n
  /\ pc' = "write"
  /\ UNCHANGED << mem, signal, ring, emitted, executed, events, silent >>

\* _etna_reserve_internal on the first buffer: no buffer to give up.
ReserveFirst(n) ==
  /\ pc = "idle"
  /\ emitted < MaxEmitted
  /\ ctx.cur_buf = NO_BUFFER
  /\ need' = n
  /\ pc' = "switch"
  /\ UNCHANGED << ctx, mem, signal, ring, emitted, executed, events, silent >>

Overflow(c) == c.offset + End > Size

\* _etna_reserve_internal: queue the buffer's signal and flush.
ReserveFull_NoSignal(n) ==
  LET c == [ctx EXCEPT !.offset = Align(@)] IN
  /\ pc = "idle"
  /\ emitted < MaxEmitted
  /\ c.cur_buf # NO_BUFFER
  /\ ~Fits(c.offset, n)
  /\ ctx' = Flushed(c)
  /\ Send(Sent(c))
  /\ need' = n
  /\ pc' = "switch"
  /\ UNCHANGED << signal, emitted, executed, events >>

ReserveFull(n) ==
  LET c == [ctx EXCEPT !.offset = Align(@)] IN
  /\ pc = "idle"
  /\ emitted < MaxEmitted
  /\ c.cur_buf # NO_BUFFER
  /\ ~Fits(c.offset, n)
  /\ ~Overflow(c)
  /\ LET q == Queued(c, c.cur_buf) IN
     /\ ctx' = Flushed(q)
     /\ Send(SentToQueue(c) \o Sent(q))
  /\ need' = n
  /\ pc' = "switch"
  /\ UNCHANGED << signal, emitted, executed, events >>

\* abort(): the buffer has overflowed, or the kernel refuses the commit.
ReserveAborts(n) ==
  LET c == [ctx EXCEPT !.offset = Align(@)] IN
  /\ pc = "idle"
  /\ emitted < MaxEmitted
  /\ c.cur_buf # NO_BUFFER
  /\ ~Fits(c.offset, n)
  /\ Overflow(c) \/ "commit" \in Faults
  /\ pc' = "aborted"
  /\ UNCHANGED << ctx, mem, signal, ring, need, emitted, executed, events, silent >>

\* switch_next_buffer: wait for the next buffer's signal.
NextBuffer(b) == (b + 1) % NumBufs

SwitchNextBuffer_NoWait ==
  /\ pc = "switch"
  /\ ctx' = [ctx EXCEPT !.cur_buf = NextBuffer(ctx.cur_buf), !.start = 0, !.offset = Begin]
  /\ pc' = "write"
  /\ UNCHANGED << mem, signal, ring, need, emitted, executed, events, silent >>

SwitchNextBuffer ==
  LET b == NextBuffer(ctx.cur_buf) IN
  /\ pc = "switch"
  /\ signal[b]
  /\ signal' = [signal EXCEPT ![b] = FALSE]
  /\ ctx' = [ctx EXCEPT !.cur_buf = b, !.start = 0, !.offset = Begin]
  /\ pc' = "write"
  /\ UNCHANGED << mem, ring, need, emitted, executed, events, silent >>

\* switch_next_buffer: the wait fails, abort().
SwitchAborts ==
  /\ "wait" \in Faults
  /\ pc = "switch"
  /\ pc' = "aborted"
  /\ UNCHANGED << ctx, mem, signal, ring, need, emitted, executed, events, silent >>

\* The caller emits words into the space it reserved.  Callers emit commands,
\* padded to 64 bits.
Write(len) ==
  /\ pc = "write"
  /\ len \in 1 .. need
  /\ (len % 2) = 0
  /\ mem' = [mem EXCEPT ![ctx.cur_buf] =
               Without(@, ctx.offset, ctx.offset + len)
                 \union {Group(ctx.offset, len, emitted + 1)}]
  /\ ctx' = [ctx EXCEPT !.offset = @ + len]
  /\ emitted' = emitted + 1
  /\ pc' = "idle"
  /\ UNCHANGED << signal, ring, need, executed, events, silent >>

\* The caller has nothing to emit after all.
WriteNothing ==
  /\ pc = "write"
  /\ pc' = "idle"
  /\ UNCHANGED << ctx, mem, signal, ring, need, emitted, executed, events, silent >>

-----------------------------------------------------------------------------
(* Flush, events and finish. *)

Flush ==
  /\ pc = "idle"
  /\ ctx' = Flushed(ctx)
  /\ Send(Sent(ctx))
  /\ UNCHANGED << signal, pc, need, emitted, executed, events >>

\* Bound: refused flushes are not counted beyond the limit, where one more
\* makes no difference.
RefusalBound == ctx.flushes <= MaxUnsignaled

FlushFails ==
  /\ "commit" \in Faults
  /\ RefusalBound
  /\ pc = "idle"
  /\ Sent(ctx) # << >>
  /\ ctx' = FlushRefused(ctx)
  /\ UNCHANGED << mem, signal, ring, pc, need, emitted, executed, events, silent >>

\* etna_queue_signal, _free_contiguous, _unlock_vidmem, _free_vidmem,
\* _unmap_user_memory: one more event.
QueueEvent ==
  /\ pc = "idle"
  /\ events < MaxEvents
  /\ events' = events + 1
  /\ ctx' = Queued(ctx, Other)
  /\ Send(SentToQueue(ctx))
  /\ UNCHANGED << signal, pc, need, emitted, executed >>

\* The flush of a full queue fails: the event is not queued.
QueueEventFails ==
  /\ "commit" \in Faults
  /\ pc = "idle"
  /\ events < MaxEvents
  /\ QueueFull(ctx)
  /\ events' = events + 1
  /\ ctx' = FlushRefused(ctx)
  /\ UNCHANGED << mem, signal, ring, pc, need, emitted, executed, silent >>

\* etna_finish: queue ctx->sig_id and flush.
Finish ==
  LET q == Queued(ctx, FinishSignal) IN
  /\ pc = "idle"
  /\ events < MaxEvents
  /\ events' = events + 1
  /\ ctx' = Flushed(q)
  /\ Send(SentToQueue(ctx) \o Sent(q))
  /\ pc' = "finish"
  /\ UNCHANGED << signal, need, emitted, executed >>

\* The commit is refused after the event was queued (when the queue is full and
\* its flush is refused, etna_finish does what QueueEventFails does).
FinishFails ==
  /\ "commit" \in Faults
  /\ pc = "idle"
  /\ events < MaxEvents
  /\ events' = events + 1
  /\ ctx' = FlushRefused(Queued(ctx, FinishSignal))
  /\ Send(SentToQueue(ctx))
  /\ UNCHANGED << signal, pc, need, emitted, executed >>

FinishWait_NoReset ==
  /\ pc = "finish"
  /\ signal[FinishSignal]
  /\ pc' = "idle"
  /\ UNCHANGED << ctx, mem, signal, ring, need, emitted, executed, events, silent >>

FinishWait ==
  /\ pc = "finish"
  /\ signal[FinishSignal]
  /\ signal' = [signal EXCEPT ![FinishSignal] = FALSE]
  /\ pc' = "idle"
  /\ UNCHANGED << ctx, mem, ring, need, emitted, executed, events, silent >>

\* etna_finish returns an error: the signal stays queued or set.
FinishWaitFails ==
  /\ "wait" \in Faults
  /\ pc = "finish"
  /\ pc' = "idle"
  /\ UNCHANGED << ctx, mem, signal, ring, need, emitted, executed, events, silent >>

-----------------------------------------------------------------------------
(* The GPU executes what is at the head of the ring, then the kernel acts on *)
(* the events that came with it.                                            *)

\* The groups of a memory that lie in the commands of a job.
GroupsOf(job, m) ==
  IF job.buf = NO_BUFFER THEN {}
  ELSE {g \in m[job.buf] : g.at >= job.from + Begin /\ g.at + g.len <= job.to}

\* In the order of their places: the one fetched i-th has i - 1 before it.
Fetched(job) ==
  LET groups == GroupsOf(job, mem)
      before(g) == {h \in groups : h.at < g.at}
  IN  [i \in 1 .. Cardinality(groups) |-> (CHOOSE g \in groups : Cardinality(before(g)) = i - 1).id]

GpuExecute ==
  /\ ring # << >>
  /\ ring' = Tail(ring)
  /\ executed' = executed \o Fetched(Head(ring))
  /\ signal' = [s \in Signals |-> signal[s] \/ s \in Range(Head(ring).events)]
  /\ UNCHANGED << ctx, mem, pc, need, emitted, events, silent >>

-----------------------------------------------------------------------------
Client ==
  \/ \E n \in Reserves : Reserve(n) \/ ReserveFirst(n) \/ ReserveFull(n) \/ ReserveAborts(n)
  \/ \E len \in 1 .. need : Write(len)
  \/ WriteNothing
  \/ Flush \/ FlushFails
  \/ QueueEvent \/ QueueEventFails
  \/ Finish \/ FinishFails

Wake == SwitchNextBuffer \/ FinishWait
WaitFails == SwitchAborts \/ FinishWaitFails

Next == Client \/ Wake \/ WaitFails \/ GpuExecute

Spec == Init /\ [][Next]_vars

\* The GPU executes what it was given; a client whose signal is set wakes up.
FairSpec == Spec /\ WF_vars(GpuExecute) /\ WF_vars(Wake)

-----------------------------------------------------------------------------
(* Properties. *)

Jobs == [buf : Bufs \union {NO_BUFFER}, from : 0 .. Size, to : 0 .. Size, events : Seq(Events)]

\* Every variable has its type; the offsets stay inside the buffer.
TypeOK ==
  /\ ctx \in [cur_buf : Bufs \union {NO_BUFFER}, offset : 0 .. Size, start : 0 .. Size,
              flushes : Nat, queue : Seq(Events)]
  /\ mem \in [Bufs -> SUBSET [at : 0 .. Size, len : 1 .. Size, id : 1 .. emitted]]
  /\ signal \in [Signals -> BOOLEAN]
  /\ ring \in Seq(Jobs)
  /\ pc \in {"idle", "switch", "write", "finish", "aborted"}
  /\ need \in Reserves \union {0}
  /\ emitted \in Nat /\ events \in Nat /\ silent \in Nat

CommitsOf(b) == {i \in DOMAIN ring : ring[i].buf = b}

\* The client never writes where the GPU may still fetch or the kernel has
\* written: the space it reserved lies in no commit the GPU has not executed,
\* link area included (the synchronization described in etna.h).
WriteRegionFree ==
  pc = "write" =>
    \A i \in CommitsOf(ctx.cur_buf) :
      ring[i].to + End <= ctx.offset \/ ctx.offset + need <= ring[i].from

\* Commits of one buffer that wait for the GPU, with the areas the kernel
\* writes, overlap neither each other nor the end of the buffer (the layout
\* described in etna.h).
CommitsDisjoint ==
  \A b \in Bufs : \A i, j \in CommitsOf(b) :
    /\ ring[i].to + End <= Size
    /\ i < j => ring[i].to + End <= ring[j].from

\* The GPU fetches no word of a commit that the client did not write.
FetchesWritten ==
  \A b \in Bufs : \A i \in CommitsOf(b) :
    \A w \in ring[i].from + Begin .. ring[i].to - 1 :
      \E g \in mem[b] : Overlaps(g, w, w + 1)

\* However the client uses etna_reserve, the check for a buffer overflow in
\* _etna_reserve_internal never fires.
NoOverflow == ctx.cur_buf # NO_BUFFER => ~Overflow(ctx)

\* The places where the signal of a buffer is: set, in the queue (<< 0, k >>), in
\* the events of a job (<< i, k >>).
At(b, list) == {k \in DOMAIN list : list[k] = b}
Places(b) ==
  {p \in {<< 0, 0 >>} : signal[b]}
    \union {<< 0, k >> : k \in At(b, ctx.queue)}
    \union UNION {{<< i, k >> : k \in At(b, ring[i].events)} : i \in DOMAIN ring}

\* Each buffer is free (its signal set), or its signal is with the queue or the
\* kernel, or the client owns it: exactly one of these, so no buffer is lost
\* and none is handed out twice.
BufferConserved ==
  pc # "aborted" =>
    \A b \in Bufs :
      Cardinality(Places(b)) = IF b = ctx.cur_buf /\ pc # "switch" THEN 0 ELSE 1

\* The client never waits for a signal that nobody will set: the signal of its next
\* buffer, or of etna_finish, is set already or is with the kernel.
SignalComes(s) == signal[s] \/ \E i \in DOMAIN ring : s \in Range(ring[i].events)
WaitsAnswered ==
  /\ pc = "switch" => SignalComes(NextBuffer(ctx.cur_buf))
  /\ pc = "finish" => SignalComes(FinishSignal)

\* No signal is lost: neither a buffer's nor the one etna_finish waits for.
SignalsConserved == BufferConserved /\ WaitsAnswered

\* No more than ETNA_MAX_UNSIGNALED_FLUSHES + 1 commits reach the kernel
\* without an event, where it refuses no commit (a refused flush loses its
\* events, yet starts the count again).
SilenceBounded == silent <= MaxUnsignaled + 1

\* No more than ETNA_MAX_UNSIGNALED_FLUSHES do ("if this amount is reached, we roll to
\* the next command buffer").
SilenceAsSaid == silent <= MaxUnsignaled

\* When etna_finish returns ETNA_OK, every command has been executed ("block for them to
\* finish").
FinishComplete == [][FinishWait => Len(executed) = emitted]_vars

\* A client that waits for its next buffer gets it, unless it aborts.
ReserveReturns == pc = "switch" ~> pc # "switch"

\* etna_finish returns.
FinishReturns == pc = "finish" ~> pc = "idle"

-----------------------------------------------------------------------------
(* The client sees one stream of commands (module CommandStream). *)

Unsubmitted ==
  IF ctx.cur_buf = NO_BUFFER THEN {}
  ELSE {g \in mem[ctx.cur_buf] : g.at >= ctx.start + Begin /\ g.at < ctx.offset}

Stream == INSTANCE CommandStream WITH
  submitted <- emitted - Cardinality(Unsubmitted),
  finishing <- pc = "finish"

\* Whatever the layout of the buffers, the GPU executes every group once, in
\* the order written, and etna_finish waits for all of them.
StreamPreserved == Stream!Spec

=============================================================================
