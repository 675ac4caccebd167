----------------------------- MODULE VideoMemory -----------------------------
(***************************************************************************)
(* Life of the memory the GPU uses: etnaviv/etna_bo.c, the flush of        *)
(* etnaviv/etna.c with its context buffer for old kernels, etna_queue.c,   *)
(* and the resources of driver/etna_resource.c (under src/attic).          *)
(*                                                                         *)
(* Commands name buffer objects.  They wait in the command buffer of their *)
(* pipe context, then in the ring of the GPU.  An object is deleted by     *)
(* events that follow commands: they are queued with a context and sent    *)
(* behind its next commit, or, with no context, sent at once.              *)
(***************************************************************************)
EXTENDS Naturals, Sequences, FiniteSets, SequencesExt

CONSTANTS
  Contexts,    \* pipe contexts, each with an etna_ctx of its own
  Resources,   \* resources of the screen
  CtxBufs,     \* bound: the context buffers the contexts may allocate
  NoContext,   \* NULL, for a context
  HasContext,  \* GCABI_HAS_CONTEXT: kernels that need a context buffer
  QueueCap,    \* ETNA_QUEUE_CAPACITY (64)
  MaxRing,     \* bound: what the GPU has not executed
  Practices,   \* what applications do: subset of {"share", "sample", "busy"}
  Faults       \* calls that may fail: subset of {"commit", "event", "unlock", "lock"}

ASSUME NamesAssumption ==
  /\ NoContext \notin Contexts
  /\ CtxBufs \intersect ((Resources \X {"bo", "ts"}) \union (Contexts \X {"cmd"})) = {}
  /\ Resources \intersect Contexts = {}
ASSUME SwitchAssumption == HasContext \in BOOLEAN
ASSUME BoundsAssumption == QueueCap \in Nat \ {0} /\ MaxRing \in Nat

VARIABLES
  mem,      \* kernel: state of every object
  exists,   \* resources that exist
  last_ctx, \* resource->last_ctx
  bound,    \* resources bound in each context, which hold a reference
  alive,    \* contexts that exist
  cmds,     \* objects the commands not yet committed use
  queue,    \* events queued with each context
  ctx_bo,   \* ctx->ctx_bo
  current,  \* kernel: context of the last commit
  ring,     \* kernel: commits and events the GPU has not got to
  work,     \* rest of the etna_bo_del calls under way
  lost,     \* objects of which an unlock or a free got lost
  halfway   \* contexts whose commit went through without its events

vars == << mem, exists, last_ctx, bound, alive, cmds, queue, ctx_bo, current, ring,
           work, lost, halfway >>
resourceVars == << exists, last_ctx, bound, alive >>

-----------------------------------------------------------------------------
Bo(r) == << r, "bo" >>
Ts(r) == << r, "ts" >>
CmdBufs(c) == << c, "cmd" >>

VidMem == Resources \X {"bo", "ts"}
Contiguous == (Contexts \X {"cmd"}) \union CtxBufs
Objects == VidMem \union Contiguous

\* An object is not allocated, mapped for CPU and GPU, half unlocked or unlocked.
MemStates == {"none", "mapped", "unlocking", "unlocked"}

Unlock(o) == [op |-> "unlock", obj |-> o]
Free(o) == [op |-> "free", obj |-> o]
Events == [op : {"unlock", "free"}, obj : Objects]

\* A commit in the ring, by the objects it uses.
Run(uses) == [op |-> "run", uses |-> uses]

\* Steps of etna_bo_del; "via" is the context whose queue is passed, or NULL.
Step(op, o, c) == [op |-> op, obj |-> o, via |-> c]
Steps == [op : {"sync", "unlock", "free"}, obj : Objects, via : Contexts \union {NoContext}]

Init ==
  \E b \in {b \in [Contexts -> CtxBufs] : \A c, d \in Contexts : b[c] = b[d] => c = d} :
    /\ ctx_bo = b
    /\ mem = [o \in Objects |->
                IF o \in Contexts \X {"cmd"} \/ (HasContext /\ \E c \in Contexts : o = b[c])
                THEN "mapped" ELSE "none"]
    /\ exists = {}
    /\ last_ctx = [r \in Resources |-> NoContext]
    /\ bound = [c \in Contexts |-> {}]
    /\ alive = Contexts
    /\ cmds = [c \in Contexts |-> {}]
    /\ queue = [c \in Contexts |-> << >>]
    /\ current = NoContext
    /\ ring = << >>
    /\ work = << >>
    /\ lost = {}
    /\ halfway = {}

Idle == work = << >>

-----------------------------------------------------------------------------
(* Resources. *)

\* etna_screen_resource_create, etna_bo_new: allocate and lock.
CreateResource(r) ==
  /\ Idle
  /\ r \notin exists
  /\ mem[Bo(r)] = "none" /\ mem[Ts(r)] = "none"
  /\ exists' = exists \union {r}
  /\ last_ctx' = [last_ctx EXCEPT ![r] = NoContext]
  /\ mem' = [mem EXCEPT ![Bo(r)] = "mapped"]
  /\ UNCHANGED << bound, alive, cmds, queue, ctx_bo, current, ring, work, lost, halfway >>

\* The lock fails: the object is deleted again, without a queue.
CreateLockFails(r) ==
  /\ "lock" \in Faults
  /\ Idle
  /\ r \notin exists
  /\ mem[Bo(r)] = "none" /\ mem[Ts(r)] = "none"
  /\ mem' = [mem EXCEPT ![Bo(r)] = "unlocked"]
  /\ work' = << Step("free", Bo(r), NoContext) >>
  /\ UNCHANGED << resourceVars, cmds, queue, ctx_bo, current, ring, lost, halfway >>

\* No other context has used the resource, unless applications share it.
MayUse(c, r) ==
  /\ c \in alive
  /\ r \in exists
  /\ \/ "share" \in Practices
     \/ \A d \in Contexts \ {c} : last_ctx[r] # d /\ r \notin bound[d]

\* etna_resource_touch
Touched(c, r) == [last_ctx EXCEPT ![r] = c]

\* set_vertex_buffers, set_index_buffer
BindBuffer(c, r) ==
  /\ Idle
  /\ MayUse(c, r)
  /\ bound' = [bound EXCEPT ![c] = @ \union {r}]
  /\ last_ctx' = Touched(c, r)
  /\ UNCHANGED << mem, exists, alive, cmds, queue, ctx_bo, current, ring, work, lost, halfway >>

\* create_surface, then set_framebuffer_state: the first surface of a resource
\* allocates its tile status, where its layout allows one.
BindSurface(c, r) ==
  /\ Idle
  /\ MayUse(c, r)
  /\ bound' = [bound EXCEPT ![c] = @ \union {r}]
  /\ last_ctx' = Touched(c, r)
  /\ \E ts \in {mem[Ts(r)], "mapped"} : mem' = [mem EXCEPT ![Ts(r)] = ts]
  /\ UNCHANGED << exists, alive, cmds, queue, ctx_bo, current, ring, work, lost, halfway >>

\* create_sampler_view, set_fragment_sampler_views: no touch.  Unless applications
\* sample what they only uploaded, the context has rendered to the resource before.
BindTexture(c, r) ==
  /\ "sample" \in Practices \/ last_ctx[r] = c
  /\ Idle
  /\ MayUse(c, r)
  /\ bound' = [bound EXCEPT ![c] = @ \union {r}]
  /\ UNCHANGED << mem, exists, last_ctx, alive, cmds, queue, ctx_bo, current, ring, work,
                  lost, halfway >>

\* Something else, or nothing, is bound in its place.
Unbind(c, r) ==
  /\ Idle
  /\ c \in alive
  /\ r \in bound[c]
  /\ bound' = [bound EXCEPT ![c] = @ \ {r}]
  /\ UNCHANGED << mem, exists, last_ctx, alive, cmds, queue, ctx_bo, current, ring, work,
                  lost, halfway >>

\* Draw or clear with what is bound.
Parts(r) == {o \in {Bo(r), Ts(r)} : mem[o] # "none"}
Draw(c) ==
  /\ Idle
  /\ c \in alive
  /\ bound[c] # {}
  /\ cmds' = [cmds EXCEPT ![c] = @ \union {CmdBufs(c)} \union UNION {Parts(r) : r \in bound[c]}]
  /\ UNCHANGED << mem, resourceVars, queue, ctx_bo, current, ring, work, lost, halfway >>

\* The last reference goes: etna_screen_resource_destroy deletes bo, then ts_bo.
DelSteps_NoUnlock(o, c) == IF mem[o] = "none" THEN << >> ELSE << Step("free", o, c) >>
DelSteps(o, c) ==
  IF mem[o] = "none" THEN << >> ELSE << Step("sync", o, c), Step("free", o, c) >>
DestroyResource(r) ==
  /\ Idle
  /\ r \in exists
  /\ \A c \in Contexts : r \notin bound[c]
  /\ last_ctx[r] \in alive \union {NoContext}
  /\ exists' = exists \ {r}
  /\ work' = DelSteps(Bo(r), last_ctx[r]) \o DelSteps(Ts(r), last_ctx[r])
  /\ UNCHANGED << mem, last_ctx, bound, alive, cmds, queue, ctx_bo, current, ring, lost, halfway >>

-----------------------------------------------------------------------------
(* etna_flush. *)

\* Flushed by the application, or by etna_queue_alloc for a full queue.
NextStep(op) == work # << >> /\ Head(work).op = op
MustMakeRoom(c) ==
  (NextStep("unlock") \/ NextStep("free")) /\ Head(work).via = c /\ Len(queue[c]) = QueueCap
MayFlush(c) == c \in alive /\ (Idle \/ MustMakeRoom(c)) /\ Len(ring) < MaxRing

\* The kernel runs the context buffer first when the last commit was another
\* context's, and sets its inUse flag.
InUse(c) == HasContext /\ current # c
Uses(c) == cmds[c] \union (IF InUse(c) THEN {ctx_bo[c]} ELSE {})

\* gpu_context_clear: a context buffer in use is freed behind the next commit,
\* and another one is built.  Otherwise the buffer is built anew in place.
ContextClear_Reuse(c) == UNCHANGED << ctx_bo, mem >> /\ queue' = [queue EXCEPT ![c] = << >>]
ContextClear_NoAlloc(c) ==
  /\ ctx_bo' = IF InUse(c) THEN [ctx_bo EXCEPT ![c] = NoContext] ELSE ctx_bo
  /\ queue' = [queue EXCEPT ![c] = IF InUse(c) THEN << Free(ctx_bo[c]) >> ELSE << >>]
  /\ UNCHANGED mem
ContextClear(c) ==
  \/ /\ InUse(c)
     /\ \E b \in CtxBufs :
          /\ mem[b] = "none"
          /\ mem' = [mem EXCEPT ![b] = "mapped"]
          /\ ctx_bo' = [ctx_bo EXCEPT ![c] = b]
     /\ queue' = [queue EXCEPT ![c] = << Free(ctx_bo[c]) >>]
  \/ /\ ~InUse(c)
     /\ queue' = [queue EXCEPT ![c] = << >>]
     /\ UNCHANGED << ctx_bo, mem >>

FlushCommands_EventsFirst(c) ==
  /\ MayFlush(c)
  /\ cmds[c] # {}
  /\ ring' = (ring \o queue[c]) \o << Run(Uses(c)) >>
  /\ ContextClear(c)
  /\ cmds' = [cmds EXCEPT ![c] = {}]
  /\ current' = c
  /\ UNCHANGED << resourceVars, work, lost, halfway >>

FlushCommands(c) ==
  /\ MayFlush(c)
  /\ cmds[c] # {}
  /\ ring' = (ring \o << Run(Uses(c)) >>) \o queue[c]
  /\ ContextClear(c)
  /\ cmds' = [cmds EXCEPT ![c] = {}]
  /\ current' = c
  /\ UNCHANGED << resourceVars, work, lost, halfway >>

\* No commands: the events alone.
FlushEvents(c) ==
  /\ MayFlush(c)
  /\ cmds[c] = {}
  /\ queue[c] # << >>
  /\ ring' = ring \o queue[c]
  /\ queue' = [queue EXCEPT ![c] = << >>]
  /\ UNCHANGED << mem, resourceVars, cmds, ctx_bo, current, work, lost, halfway >>

ObjectsOf(events) == {events[i].obj : i \in DOMAIN events}

\* etna_queue_alloc returns an error when its flush fails: etna_bo_del leaves out
\* the event it wanted to queue.
AfterRefusal(c) ==
  /\ queue' = [queue EXCEPT ![c] = << >>]
  /\ IF Idle
     THEN work' = work /\ lost' = lost \union ObjectsOf(queue[c])
     ELSE work' = Tail(work) /\ lost' = lost \union ObjectsOf(queue[c]) \union {Head(work).obj}

\* The kernel refuses the commit, or the events: the queue is already emptied.
FlushRefused(c) ==
  /\ MayFlush(c)
  /\ \/ "commit" \in Faults /\ cmds[c] # {}
     \/ "event" \in Faults /\ cmds[c] = {} /\ queue[c] # << >>
  /\ AfterRefusal(c)
  /\ UNCHANGED << mem, resourceVars, cmds, ctx_bo, current, ring, halfway >>

\* viv_commit with a context buffer: the commit goes through, its events do not.
\* The commands stay in the command buffer.
FlushHalfway(c) ==
  /\ HasContext /\ "event" \in Faults
  /\ MayFlush(c)
  /\ cmds[c] # {} /\ queue[c] # << >>
  /\ ring' = Append(ring, Run(Uses(c)))
  /\ current' = c
  /\ halfway' = halfway \union {c}
  /\ AfterRefusal(c)
  /\ UNCHANGED << mem, resourceVars, cmds, ctx_bo >>

-----------------------------------------------------------------------------
(* The steps of etna_bo_del. *)

\* etna_bo_unlock, viv_unlock_vidmem: done, or to be completed by an event.
SyncUnlock ==
  /\ NextStep("sync")
  /\ LET s == Head(work) IN
     \/ /\ mem' = [mem EXCEPT ![s.obj] = "unlocked"]
        /\ work' = Tail(work)
     \/ /\ mem' = [mem EXCEPT ![s.obj] = "unlocking"]
        /\ work' = << Step("unlock", s.obj, s.via) >> \o Tail(work)
  /\ UNCHANGED << resourceVars, cmds, queue, ctx_bo, current, ring, lost, halfway >>

\* A warning; the free follows all the same.
SyncUnlockFails ==
  /\ "unlock" \in Faults
  /\ NextStep("sync")
  /\ work' = Tail(work)
  /\ lost' = lost \union {Head(work).obj}
  /\ UNCHANGED << mem, resourceVars, cmds, queue, ctx_bo, current, ring, halfway >>

EventOf(s) == [op |-> s.op, obj |-> s.obj]

\* etna_queue_unlock_vidmem, etna_queue_free_vidmem
QueueStep ==
  /\ NextStep("unlock") \/ NextStep("free")
  /\ LET s == Head(work) IN
     /\ s.via # NoContext
     /\ Len(queue[s.via]) < QueueCap
     /\ queue' = [queue EXCEPT ![s.via] = Append(@, EventOf(s))]
  /\ work' = Tail(work)
  /\ UNCHANGED << mem, resourceVars, cmds, ctx_bo, current, ring, lost, halfway >>

\* No queue: viv_unlock_vidmem, viv_free_vidmem commit the event at once.
DirectStep ==
  /\ NextStep("unlock") \/ NextStep("free")
  /\ Head(work).via = NoContext
  /\ Len(ring) < MaxRing
  /\ ring' = Append(ring, EventOf(Head(work)))
  /\ work' = Tail(work)
  /\ UNCHANGED << mem, resourceVars, cmds, queue, ctx_bo, current, lost, halfway >>

DirectStepFails ==
  /\ "event" \in Faults
  /\ NextStep("unlock") \/ NextStep("free")
  /\ Head(work).via = NoContext
  /\ work' = Tail(work)
  /\ lost' = lost \union {Head(work).obj}
  /\ UNCHANGED << mem, resourceVars, cmds, queue, ctx_bo, current, ring, halfway >>

-----------------------------------------------------------------------------
(* etna_pipe_destroy, etna_free: the queue is dropped, the buffers are freed *)
(* at once, what is bound keeps its reference.  The application has deleted *)
(* the resources the context owns, and has waited in etna_finish unless it  *)
(* is one that does not ("busy").                                           *)

InRing(o) == \E i \in DOMAIN ring : ring[i].op = "run" /\ o \in ring[i].uses

DestroyContext(c) ==
  /\ Idle
  /\ c \in alive
  /\ \A r \in exists : last_ctx[r] # c
  /\ "busy" \in Practices \/ (cmds[c] = {} /\ ~InRing(CmdBufs(c)) /\ ~InRing(ctx_bo[c]))
  /\ alive' = alive \ {c}
  /\ mem' = [o \in Objects |->
                IF o = CmdBufs(c) \/ (HasContext /\ o = ctx_bo[c]) THEN "none" ELSE mem[o]]
  /\ lost' = lost \union ObjectsOf(queue[c])
  /\ queue' = [queue EXCEPT ![c] = << >>]
  /\ cmds' = [cmds EXCEPT ![c] = {}]
  /\ UNCHANGED << exists, last_ctx, bound, ctx_bo, current, ring, work, halfway >>

-----------------------------------------------------------------------------
(* The GPU and the kernel's event handler.  The kernel does not free video  *)
(* memory that is still locked.                                             *)

AfterEvent(e) ==
  IF e.op = "unlock" /\ mem[e.obj] = "unlocking" THEN "unlocked"
  ELSE IF e.op = "free" /\ (e.obj \in Contiguous \/ mem[e.obj] = "unlocked") THEN "none"
  ELSE mem[e.obj]

GpuExecute ==
  /\ ring # << >>
  /\ ring' = Tail(ring)
  /\ LET e == Head(ring) IN
     mem' = IF e.op = "run" THEN mem ELSE [mem EXCEPT ![e.obj] = AfterEvent(e)]
  /\ UNCHANGED << resourceVars, cmds, queue, ctx_bo, current, work, lost, halfway >>

-----------------------------------------------------------------------------
Application ==
  \/ \E r \in Resources : CreateResource(r) \/ CreateLockFails(r) \/ DestroyResource(r)
  \/ \E c \in Contexts, r \in Resources :
       BindBuffer(c, r) \/ BindSurface(c, r) \/ BindTexture(c, r) \/ Unbind(c, r)
  \/ \E c \in Contexts : Draw(c) \/ DestroyContext(c)

Flush ==
  \E c \in Contexts : FlushCommands(c) \/ FlushEvents(c) \/ FlushRefused(c) \/ FlushHalfway(c)

Delete == SyncUnlock \/ SyncUnlockFails \/ QueueStep \/ DirectStep \/ DirectStepFails

Next == Application \/ Flush \/ Delete \/ GpuExecute

Spec == Init /\ [][Next]_vars

-----------------------------------------------------------------------------
(* Properties. *)

\* Every variable has its type.
TypeOK ==
  /\ mem \in [Objects -> MemStates]
  /\ exists \subseteq Resources /\ alive \subseteq Contexts /\ halfway \subseteq Contexts
  /\ last_ctx \in [Resources -> Contexts \union {NoContext}]
  /\ bound \in [Contexts -> SUBSET Resources]
  /\ cmds \in [Contexts -> SUBSET Objects]
  /\ queue \in [Contexts -> Seq(Events)]
  /\ ctx_bo \in [Contexts -> CtxBufs]
  /\ current \in Contexts \union {NoContext}
  /\ ring \in Seq(Events \union [op : {"run"}, uses : SUBSET Objects])
  /\ work \in Seq(Steps)
  /\ lost \subseteq Objects

\* Nothing the GPU has yet to run, committed or still in a command buffer, uses
\* memory that has been given back: the promise of the deferred deletion in
\* etna_bo.h and of the queue.
NoUseAfterFree ==
  \A o \in Objects :
    InRing(o) \/ (\E c \in alive : o \in cmds[c]) => mem[o] # "none"

Frees(s, o) == {i \in DOMAIN s : s[i].op = "free" /\ s[i].obj = o}
FreesOf(o) ==
  ({"ring"} \X Frees(ring, o)) \union ({"work"} \X Frees(work, o))
    \union UNION {{c} \X Frees(queue[c], o) : c \in Contexts}

Owned(o) ==
  \/ \E r \in exists : o \in {Bo(r), Ts(r)}
  \/ \E c \in alive : o = CmdBufs(c) \/ (HasContext /\ o = ctx_bo[c])

\* Memory that is allocated has one owner or one free on its way, whatever
\* resources, contexts and queues go in between: nothing is freed twice, and
\* nothing leaks but what a failed call or etna_free lost.
MemoryConserved ==
  \A o \in Objects :
    /\ mem[o] = "none" \/ Owned(o) => FreesOf(o) = {}
    /\ mem[o] # "none" /\ ~Owned(o) /\ o \notin lost => Cardinality(FreesOf(o)) = 1
    /\ o \in lost => mem[o] # "none" /\ ~Owned(o) /\ Cardinality(FreesOf(o)) <= 1

\* The context buffer that is built for the next flush is not in the ring
\* ("to prevent overwriting it while being used by the GPU", gpu_context_clear),
\* unless a commit went through only half.
ContextBufferIdle ==
  \A c \in alive \ halfway : ~InRing(ctx_bo[c])

\* A resource that a context has drawn with is deleted behind the commands that
\* use it when it "is bound in any way (vertex buffer, index buffer, texture,
\* surface, blit)" (the comment on etna_resource_touch).
BoundKept ==
  \A r \in Resources, c \in Contexts : Bo(r) \in cmds[c] => mem[Bo(r)] # "none"

=============================================================================
