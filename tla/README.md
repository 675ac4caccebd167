# A TLA+ model of etna_viv

etna_viv is a user-space driver for Vivante GPUs: `attic/etnaviv` talks to the
vendor's kernel driver (command buffers, event queue, fences, memory),
`attic/driver` is a Gallium pipe driver on top of it, `attic/lib` holds helpers
(buffer swapping, hooks, a recorder of driver calls), `attic/utils` and `tools`
are command-line programs.  This directory models the parts of it where several
actors meet (the client's threads, the display thread, the kernel and the GPU),
where memory outlives its owner, where a cache or a recording must follow what it
stands for, and where a compiler must not change what a program means.

Paths below are relative to the repository, definitions are in `code type`.
Run a check with `tlc -config <run>.cfg <MC module>.tla`, the proofs of a module
with `tlapm <module>Proofs.tla`.

## Inventory

| part | state | operations | interacts with |
|---|---|---|---|
| fence emulation (`attic/etnaviv/viv.c` 87-128, 716-810; `etna_flush` in `etna.c`) | fence counter, last signalled fence, bit mask of pending slots, mutex, N kernel signals | deal a fence, mark it pending, wait for it | every context's flush; any thread that waits; the kernel sets signals |
| command buffers (`etna.c`, `etna.h`) | ring of buffers with start and write offset, count of flushes, one signal per buffer and one for finish | reserve, flush, finish | event queue; kernel commit; fence emulation |
| event queue (`etna_queue.c`) | array of events, its fill | queue an event (flushes when full), take all | called by flush, finish, buffer objects; calls flush |
| screen buffers (`attic/lib/etna_bswap.c`) | back and front buffer, availability and "ready" signal of each buffer, terminate flag | swap, free; display thread | command stream; display controller |
| GPU context buffer, old kernels (`etna.c` 50-213) | context buffer, in-use flag, saved buffer and offset | clear, build start/end, finish up | flush; state callback of the pipe driver |
| buffer objects (`etna_bo.c`) | node, mapping, kind of memory | allocate, lock, delete (directly or through the queue) | event queue, kernel |
| kernel interface (rest of `viv.c`) | connection | one ioctl per call | kernel |
| pipe context (`attic/driver/etna_pipe.c`) | bound state, dirty bits, shadow of the GPU's registers | bind, draw, flush, rebuild the context | command buffers, resources |
| clear, blit, resources, surfaces, transfers | tile status validity, layout, last context | clear, resolve, map, unmap, destroy | pipe context, finish |
| shader compiler, assembler, linker | register assignment, labels, instruction list | compile, link, patch | none (pure) |
| state objects (blend, rasterizer, zsa, texture) | none (immutable structures) | translate | pipe context |
| flight recorder (`attic/lib/flightrecorder.cpp`, `interval.h`) and its reader (`tools/etnaviv/parse_fdr.py`) | monitored ranges and copies of them; the reader's ranges | add, remove, log an event (compare, write, copy); read | hooks; a file between the two |
| hooks, utilities, tools | streams of another program | parse, print | none |

What is hard in it: four threads of control (client threads, display thread,
kernel, GPU) share memory that no lock protects, and agree on who owns a buffer
only through automatically reset signals; calls into the kernel fail half-way
through an operation; a full queue flushes from inside a flush; fence numbers
wrap; a wait takes something away from every other waiter; an object is deleted
while the GPU still has to use it; a register is written only if its cached value
differs, while the GPU, the resolve and other processes change registers too; and
the compiler lets values share registers that it believes dead.

Which properties make each part correct:

| part | properties |
|---|---|
| fence emulation | no completion lost or reported early, a signal has one user, submits keep fence order, calls return |
| command buffers, event queue | the client never writes what the GPU fetches, commits do not overlap, commands run once and in order, waits end |
| screen buffers | each buffer is released once and queued once, client and display thread never wait for each other |
| context buffer, buffer objects, resources | nothing is used after it is freed, freed twice or lost; the buffer being built is not in use |
| pipe context, clear, resolve | what a draw or a resolve finds in the GPU is what is bound; the shadow is true; clears keep their colours |
| shader compiler | the code computes what the shader computes, within the limits of the hardware |
| flight recorder | the reader shows memory as it was at each event, from changes alone |

`PROJECT.json` lists every component with its status, and every hazard with the
line at which it bites and the properties that guard it.

## Modules

| module | models | extends |
|---|---|---|
| `Fence` | fence emulation | |
| `CommandStream` | what submission promises: one ordered stream | |
| `CmdBuf` | command buffers and event queue; implements `CommandStream` | |
| `BufferSwap` | screen buffers and display thread | |
| `VideoMemory` | life of buffer objects, resources and context buffers | |
| `PipeState` | bound state, shadow and GPU registers of a pipe context | |
| `Compiler` | register assignment and code generation | |
| `FlightRecorder` | recorder and reader of events with changes of memory | |
| `FenceProofs`, `CmdBufProofs`, `BufferSwapProofs`, `PipeStateProofs`, `VideoMemoryProofs`, `CompilerProofs`, `FlightRecorderProofs` | theorems | the module they are named for |
| `CmdBufStreamProofs` | that `CmdBuf` implements `CommandStream` | `CmdBufProofs` |
| `MCFence`, `MCCmdBuf`, `MCBufferSwap`, `MCVideoMemory`, `MCPipeState`, `MCCompiler`, `MCFlightRecorder` | constants for TLC | the module they are named for |

The modules meet where the code does, each with the others abstracted to what it
needs: `BufferSwap` uses a command stream as `CommandStream` promises it;
`VideoMemory` has `etna_flush` with what it commits reduced to the objects the
commands use; `PipeState` has `etna_flush` reduced to what it does to the context
buffer.  A definition whose name ends in `_` and a word (`Slot_NoModulo`) is a
faulty variant of the one it is named for and is used by no specification; it
shows which mistake the properties would catch.

### Fence

A fence is modelled by its position in the sequence of all fences ever dealt;
the code sees only `Id`, the position modulo `Wrap` (2^32), and every guard the
code evaluates is written with ids (`FenceBefore`, `TooOld`, ...), never with
positions.  `Wrap` is a multiple of `N` as 2^32 is of 32.

A thread's `pc` names the points where it can be interrupted by another:
`FlushLock` takes `fence_mutex`; `FenceNew` deals a number, `FenceReuse` is the
wait for the slot's old signal; `FlushCommit` stands for queueing the signal and
for either of the two commits of `etna_flush` (with or without commands);
`FlushMarkPending` marks, unlocks and returns.  The mutex is held from the first
to the last of these.  `FinishCheck` is `viv_fence_finish` up to its early
returns or its unlock, `FinishSignalled` the kernel's wait, which resets the
signal, `FinishRecord` the second critical section.  `FinishTimeout` is a wait
that times out or fails; `FenceReuseFails` and `FlushCommitFails` are failing
kernel calls inside the flush.  `GpuComplete` is external: the kernel has one
ring, the GPU reaches the fences in the order of the commits, and the kernel
sets the signal queued with a fence.  `FinishSound` is about the returns of a wait
and of the check against `last_fence_id`, `ExpiredComplete` about the early return for
a fence that is too old, which the code gets wrong at an age of exactly N.

Bounds: `MaxFence` fences are dealt; a handle is waited for only while it is at
most `MaxAge` fences old, and nobody keeps waiting for one older than that
(`NoAncientWaiter`); failing commits do not lose half the id space in a row
(`LossBound`).  The last two say that half of the 2^32 ids is out of reach,
which the signed comparison of ids needs; the small `Wrap` of the runs makes it
something to say.

### CmdBuf and CommandStream

`CmdBuf` keeps offsets in words.  The memory of a buffer is a set of groups, one
for each `etna_reserve` and the commands written after it, with position and
length, so that overlap, link areas and order show.  `Flushed`, `Sent` and
`FlushCount` are `etna_flush` as functions of the context it is called on
(offsets after a commit, what goes to the kernel, the count of silent flushes);
they are functions because `etna_flush` runs inside other operations: `Queued`
flushes when the queue is full, `ReserveFull` queues the buffer's signal and
flushes, `Finish` queues the finish signal and flushes.  The client stops where
it waits: `SwitchNextBuffer` for the next buffer's signal, `FinishWait` for the
finish signal.  `abort()` is the location `"aborted"`.  Refused commits empty
the queue and leave the offsets (`FlushRefused`), as in the code.

External: the kernel appends a commit or an event list to the GPU's ring and
writes the words before and after a commit (`Patches`: PIPE switch and LINK);
`GpuExecute` runs the head of the ring and then sets the signals that came with
it.  The point of the pipeline at which an event fires (`VIV_WHERE_COMMAND` or
`_PIXEL`) is not distinguished: the GPU executes a commit in one step.

The kernel is one that keeps the GPU context itself (`GCABI_HAS_CONTEXT` not
defined, the newer ABIs).  The context buffer of the older ones is in
`VideoMemory` and `PipeState`.

`CommandStream` has four variables: how many groups the client emitted, how many
were handed over, which the GPU executed, and whether the client is inside
`etna_finish`.  It says that the GPU executes the groups once and in order, and
that a finish returns when everything has been executed.  `CmdBuf` implements it
under the refinement mapping `Stream`: what is handed over is everything except
the groups of the current buffer behind its start offset.

### BufferSwap

The client (`SwapBuffers`, `WaitAvailable`, `QueueSwap`), the display thread
(`DisplayLoop`, `DisplayReady`, `DisplayShow`, `DisplayRelease`) and the GPU
(`Gpu`), which executes the copies in the order they were handed over and then
sets the ready signal that came with a copy.  `unsent` is the command buffer,
`ring` what the kernel has.  `etna_bswap_free` (`Free`, `FreeSignal`, `FreeJoin`)
may come whenever the client is idle.  `QueueSwapFails` and `DisplayWaitFails`
are failing kernel calls; the history variable `failed` remembers that one
happened.

### VideoMemory

Every buffer object has a state the kernel knows (`mem`): not allocated, mapped,
half unlocked, unlocked.  Commands are the set of objects they use (`cmds` in the
command buffer of each context, `Run` in the GPU's ring).  An `etna_bo_del` is a
list of steps (`work`): unlock, perhaps an unlock event when the kernel asks for
one (`SyncUnlock`), and the free; each event is queued with the context the code
passes (`QueueStep`) or committed at once when it passes none (`DirectStep`).  A
full queue flushes first (`MustMakeRoom`).  The resource operations follow
`etna_resource.c`, `etna_surface.c` and `etna_texture.c`: which of them call
`etna_resource_touch` decides behind whose commands the memory will be freed.

`etna_flush` is here as `FlushCommands`, `FlushEvents`, `FlushRefused` and
`FlushHalfway`.  With `HasContext`, a commit of another context than the last one
runs the context buffer too (`InUse`), and `ContextClear` then frees it through
the queue and takes another, as `gpu_context_clear` does; `FlushHalfway` is the
commit that goes through while its events do not (`viv.c:454`), after which the
same commands are submitted again.

External: the kernel frees video memory only when it is unlocked (`AfterEvent`);
what the application may do: it deletes a resource that nothing has bound, it
waits for the GPU before it destroys a context, and destroys a context after the
resources that remember it (the code marks the other order with XXX,
`etna_resource.c:271`), and, unless `Practices` has `"share"`, it uses a
resource from one context.  `"sample"` is an application that samples a texture
it never rendered to.

### PipeState

`bound` is what was bound, by slot, `fb` the
colour part of the compiled framebuffer, `dirty` the dirty bits.  `Table` lists
the registers of `sync_context`, one row for all registers with the same
conditions: the flags under which `sync_context` looks at it, and the states it
is woven from.  The value of a register is the function `Woven` from these states
to their values, so that a register that misses one of them shows.  Many samples
add an input to the fragment shader; the number of its temporaries grows with it
only if the shader has no more of them than inputs and position
(`etna_shader.c:157-169`), which is `ManyTemps`: the shaders whose register stays
the same, and so is sent again only because the GPU spoils it.

A register exists three times: `shadow` is `gpu3d`, and what is written runs on
one of two register files: `live`, if no other process used the GPU since the
last flush, or `replay`, if the kernel ran the context buffer first.  A flush
(`Flush`) may come at any request for room in the command buffer: between calls
and between the steps of `sync_context`, which are `StartDraw` (relink, spoil the
shadow when the number of samples changes), `EmitElements`, `EmitRegisters`, then
the two instruction memories and the two sets of uniforms (`UploadShader` or
`UpdateUniforms`), and `EndDraw`.  `torn` remembers a context buffer made between
the four uploads of a shader.  `Clear`, `CreateSurface` and `SetFramebuffer`
follow tile status and clear values of levels; `StartResolve` and `EndResolve`
are `etna_screen_flush_frontbuffer`.  The count of tiles that a clear sets
(`TilesCounted`) goes past `gpu3d`: it is in `live` and `replay` but in no context
buffer (`Untracked`).

External: the GPU spoils the two registers `MsaaClobbers` when the number of
samples changes (the code's comment at `etna_pipe.c:335` says so); applications
bind as many samplers as views and draw to one layer of a level without tile
status, unless `Practices` says otherwise.

### Compiler

One action per pass, with the passes that walk over instructions or registers one
step at a time: `AssignTemporaries` gives every declared temporary a register, used
or not; `OptimizeOutputs` drops moves; `AssignInouts` is the walk of
`assign_inouts_to_temporaries`, for the inputs and again for the outputs, side by
side with the temporaries (`SkipAssigned`, `ShareNext`, `SkipTemp`, `AllocNext`);
`PermuteInputs`, `Generate`, `Finish`.  `qsort` is not stable, so any register with
the least key may be next (`NextInout`, `NextTemp`).  `Translation` is what one TGSI
instruction becomes, `Emit` is `emit_inst` with its extra moves for a second
uniform, `Labels` and `FilledIn` the branch targets, `ZDiv` the depth correction,
`WithinLimits` the limits of instructions, registers, uniforms and varyings.

An operation includes its modifiers: `MovOps` are the forms of MOV, and the passes
that drop one do not tell them apart, as in the code.  The factor of SIN is 0.0 in
`Translation`, which is what its conversion to an integer makes of it, and 2/pi in
`ShaderStep`.  `DeclaresUnwritten` says that shaders declare POSITION even when they do
not write it; the depth correction then uses t0 (`ZDivided`, `ZDiv`).  These three give
wrong code, and each has a configuration that shows it.  The shapes of `compiler` do
without: they have LIT, plain moves, and moves that saturate to a temporary, which are
not dropped.

What the code means is external, from how the code uses TGSI and the hardware:
`ShaderRun` runs the shader, `CodeRun` the generated instructions, both on terms
over inputs and constants and for every outcome of the conditions.  `ResultsMatch`
compares them, for shaders that are rejected in the end too: the limits come last.

`RegistersPlaced` is about the assignment itself: `InputsInOrder`, and
`SharedAfterUse`, that registers in one temporary are used one after the other.  The
code shares in three places that do not look at each other, and an input, a TGSI
temporary and an output may end up in one temporary by two of them.  Excepted are
the two cases in which the code does share registers in use (see below): an output
written before the move that was dropped (`Rewritten`), and both POSITIONs of a
fragment shader (`BothFixed`).  `CodeWellFormed` says of the code that no instruction
reads two uniforms (`OneUniform`) and every branch goes forward (`BranchesForward`),
so that the code ends; the branch of an IF on a constant, which gets no target, is
excepted.

### FlightRecorder

Writer and reader side by side: the reader takes records in the order in which they
are in the file, so each is applied to it as it is written (`WriteRange` for
`RANGE_DATA`).  The writer has `persistent`, `stored` and, inside `fdr_log_event`,
the steps of `check_monitored_ranges` and `bdiff`: a range is new (`CheckNew`),
stored with other bounds (`CheckOther`) or compared block by block (`CheckKnown`,
`Extend`, `EndDifference`, `EndDiff`), then copied (`CopyRange`).  The mutex excludes
other calls from `stage` "check" to "event"; memory is not under it, which `Change`
uses if `Practices` has "race".  `Same` is the order of `interval.h`, for which two
ranges are equal when one lies in the other.  `Located` is the reader's bisection,
`Fetch` its subscript.

`Practices`: "again" adds a range again that was monitored before, "race" writes to
memory while an event is logged.  The hook of this repository has its calls of
`fdr_add_monitored_range` commented out (`viv_hook.c:136`), so its recordings have
one-shot ranges only; the model is of the interface that `flightrecorder.h` offers.

## Runs

| run | instance | shows |
|---|---|---|
| `fence_threads` | 2 threads that flush and wait, one with time-outs, commits may fail; N = 2, 10 ids, 13 fences | `TypeOK`, `CompletionConserved`, `LastSignalledComplete`, `FinishSound`, `RingNotLapped`, `SubmitsOrdered` |
| `fence_one_thread` | 1 thread, N = 3, 24 ids, commits and waits of the flush may fail; fair | `FlushReturns`, `FinishReturns` |
| `fence_flush_blocked` | a flusher and a waiter; fair | violates `FlushReturns` |
| `cmdbuf_stream` | 2 buffers of 12 words, queue of 1, commits may fail, 4 groups | `TypeOK`, `WriteRegionFree`, `CommitsDisjoint`, `FetchesWritten`, `NoOverflow`, `SignalsConserved`, `StreamPreserved` |
| `cmdbuf_waits` | 2 buffers of 18 words, queue of 2, waits may fail, 3 groups; fair | `SilenceBounded`, `ReserveReturns`, `FinishReturns` |
| `bswap_triple` | 3 buffers, 8 frames, calls may fail; fair | `TypeOK`, `BuffersCirculate`, `OneSwapPerBuffer`, `SwapReturns`, `FreeReturns` |
| `memory` | 2 contexts, 1 resource with tile status, 4 context buffers, queue of 2, ring of 4; commits, events, locks and unlocks may fail | `TypeOK`, `NoUseAfterFree`, `MemoryConserved`, `ContextBufferIdle` |
| `memory_texture` | the same without failures, textures that were only uploaded | violates `BoundKept` |
| `pipe_state` | five slots with two values change, 3 surfaces, 2 levels, 4 calls | `TypeOK`, `DrawRegisters`, `DrawProgram`, `ShadowTrue`, `ClearsRight`, `ResolveRight` |
| `compiler` | nine shapes of shaders, two registers of each file, vertex and fragment | `TypeOK`, `ResultsMatch`, `CodeWellFormed`, `RegistersPlaced` |
| `compiler_uniform_if` | IF on a constant | violates `ResultsMatch` |
| `flight` | 5 bytes of 2 values, blocks of 2 bytes, ranges of one block, of two and of three, two one-shot ranges that overlap | `TypeOK`, `EventShowsMemory`, `ChangesOnly` |

Further configurations have what the passing runs leave out because the code gets it
wrong.  They are not among the runs of `PROJECT.json`; TLC finds each of them violated,
most within seconds:

| configuration | module | instance | violated |
|---|---|---|---|
| `fence_two_waiters.cfg` | `MCFence` | two waiters, one of which flushes; fair | `FinishReturns` |
| `fence_expired.cfg` | `MCFence` | the instance of `fence_threads` without failures | `ExpiredComplete` |
| `cmdbuf_finish_again.cfg` | `MCCmdBuf` | the instance of `cmdbuf_stream`, waits may fail instead of commits | `FinishComplete` |
| `cmdbuf_silence.cfg` | `MCCmdBuf` | the instance of `cmdbuf_waits` without failures | `SilenceAsSaid` |
| `pipe_torn.cfg` | `MCPipeState` | the instance of `pipe_state` | `ProgramRestored` |
| `pipe_samplers.cfg` | `MCPipeState` | only sampler states and views change, not as many of one as of the other | `DrawRegisters` |
| `pipe_layers.cfg` | `MCPipeState` | as `pipe_state`, two layers of a level cleared in turn | `ClearsRight` |
| `pipe_auto_disable.cfg` | `MCPipeState` | the instance of `pipe_state` | `AutoDisableRestored` |
| `compiler_uniforms.cfg` | `MCCompiler` | MAD of three constants | `ResultsMatch` |
| `compiler_sine.cfg` | `MCCompiler` | SIN | `ResultsMatch` |
| `compiler_modifier.cfg` | `MCCompiler` | MOV with a modifier, to an output | `ResultsMatch` |
| `compiler_position.cfg` | `MCCompiler` | POSITION declared and not written | `ResultsMatch` |
| `compiler_rewritten.cfg` | `MCCompiler` | an output written twice | `ResultsMatch` |
| `compiler_label_end.cfg` | `MCCompiler` | a block that ends with the shader | `BranchesInside` |
| `flight_again.cfg` | `MCFlightRecorder` | the instance of `flight`, ranges are added again | `EventShowsMemory` |
| `flight_race.cfg` | `MCFlightRecorder` | the instance of `flight`, memory changes while an event is logged | `EventShowsMemory` |

Why the bounds are enough:

- Fences: with N = 2 every slot is reused after two fences, 13 fences over 10 ids
  wrap the counter and pass id 0 twice, and ages up to 3 include the fence that
  is exactly N old.  Two threads are enough for each pair of roles, since the
  mutex orders all but one of the others.
- Command buffers: of 12 words 8 are usable, groups have 2 to 8 words, so that a
  buffer holds one or two commits, is filled exactly, and is left with a rest
  too small for a commit; 18 words leave room for three commits, more than the
  limit of flushes without an event.  Two buffers make the ring wrap after two
  switches; `MaxUnsignaled` = 1 is reached by two flushes; queues of one or two
  events overflow inside a flush, a finish and a reserve.
- Screen buffers: 8 frames go round 3 buffers more than twice.
- Memory: two contexts switch and take turns with one resource, which has a bo and
  tile status, so that its deletion queues up to four events; a queue of two
  overflows inside it.  Four context buffers are two in use and two waiting to be
  freed; when all are taken, a flush waits for the GPU to free one.
- Pipe state: four calls are a surface created, bound, cleared and resolved, or
  bound and cleared between state changes, with draws before, between and after.
  The slots that change are one of each kind: one that shares a register with the
  number of samples, a shader, its constants, and the two a sampler is woven from; the
  proofs cover the others.  Of the two fragment shaders one is in `ManyTemps`.  The colours are interchangeable, and so are the two layers of a level.  The
  levels are one with two layers and no tile status, and one with
  tile status and more than one sample.
- Compiler: the shapes are those in which registers are shared (loads and stores in
  both orders), the inner temporary is used (LIT, two and three operands), and
  branches nest.  Five registers, six instructions, three uniforms (two in
  fragment shaders) and one varying reject some shaders and accept others, and each of
  the four limits is the only one exceeded by some shader.
- Flight recorder: a range of two blocks and a half has every run of differing
  blocks, two apart included; the two ranges inside it are stored with other bounds
  than it is, before or after.

Deadlock is not checked: the bounds end the fences, groups, frames and calls, the
compiler ends, and `abort()` and the end of the display thread end the program.
That nobody blocks is checked by the liveness properties instead, and that nobody
waits for what cannot come by the invariants `SignalsConserved` and
`BuffersCirculate`.  `FlightRecorder`
has no such bound and is checked for deadlock.

Fairness: the GPU executes what it was given (weak); a client whose signal is
set wakes up (weak); the threads of `BufferSwap` run (weak).  In `Fence` every
step of a thread inside a call is strongly fair, which says that a thread asking
for the mutex again and again is not passed over for ever; the code uses plain
`pthread_mutex_lock`, so this is the scheduler's part.  Nothing makes a client
call: `FlushLock`, `FinishCheck`, `SwapBuffers`, `Flush` and the like are not
fair.  The other modules state safety only and no fairness.

## Where the code disagrees with its comments

Shown by runs:

- `fence_flush_blocked`: `_viv_fence_new` waits for a signal with `fence_mutex` held
  (`viv.c:732`).  If a `viv_fence_finish` has just taken that signal, it needs the
  mutex to clear the slot's bit, and both wait for ever.  With signals that reset
  manually, as the comment at `viv.c:95` wants, the flush would go on.
- `memory_texture`: a sampler view does not call `etna_resource_touch`, so a texture
  that was never rendered to is freed at once when it is destroyed, though commands
  that sample it are still in the command buffer (`etna_texture.c:178`;
  `etna_resource.c:38`).
- `compiler_uniform_if`: an IF on a constant compares two uniforms; the MOV that
  `emit_inst` puts in front of the branch gets the branch's target
  (`etna_compiler.c:1113`).

Shown by the further configurations:

- `fence_two_waiters`: the signals reset automatically (`viv.c:98`, against the comment
  at 95): of two threads that wait for one fence without a time-out, the second waits
  until a later fence of the slot is reached, if there is one.
- `fence_expired`: a fence exactly N fences old counts as signalled, but nothing has
  waited for it until the next fence of its slot is dealt (`viv.c:125`; "it must have
  been signalled already", `viv.c:767`).
- `cmdbuf_finish_again`: after a failed wait the finish signal is still on its way, and
  the next `etna_finish` returns on it, early (`etna.c:612`; `etna.h:232`).
- `cmdbuf_silence`: a buffer is given up one commit later than the comment on
  `ETNA_MAX_UNSIGNALED_FLUSHES` says (`etna.c:570`, `etna.c:41`).
- `pipe_torn`: a flush between the four uploads of a new shader makes a context buffer
  with the shader before, as `gpu3d` gets the new one only afterwards
  (`etna_pipe.c:721`).  `DrawProgram`, in `pipe_state`, has the draws that are not behind
  such a buffer (`torn`).
- `pipe_samplers`: sampler registers are written under the flag of the views, but which
  samplers are active depends on the number of sampler states too (`etna_pipe.c:653`).
- `pipe_layers`: layers of a level share its clear value, but each surface has its own
  clear command (`etna_clear_blit.c:149`): of two layers cleared by turns, one gets an
  old colour.
- `pipe_auto_disable`: the number of tiles is written past `gpu3d`
  (`etna_clear_blit.c:144`, and 169 for depth), so that a context buffer turns
  auto-disable on without it ("cached state of entire GPU", `etna_pipe.h:203`).
- `compiler_uniforms`: three different uniforms in one instruction request the inner
  temporary twice, which the code calls a BUG and goes on (`etna_compiler.c:575`): the
  second move overwrites the first.
- `compiler_sine`: the factor of SIN and COS, 2/pi, is passed as an integer and becomes
  0 (`etna_compiler.c:1008`).
- `compiler_modifier`: a MOV to an output is dropped though it saturates, negates or
  takes the absolute value (`etna_compiler.c:526` and 544).
- `compiler_position`: the depth correction takes a POSITION that was declared and never
  written, and changes t0 (`etna_compiler.c:1222`).
- `compiler_rewritten`: an output shares its register with a temporary when the MOV
  between them is recognised, without the check for a single assignment that the comment
  promises (`etna_compiler.c:528`, `etna_compiler.c:496`).
- `compiler_label_end`: a NOP is added for a label on the last instruction, not for one
  behind it (`etna_compiler.c:1265`, `etna_compiler.c:1258`).
- `flight_again`: removing a monitored range leaves its copy (`flightrecorder.cpp:279`);
  when the range is added again only its differences to that copy are written, and the
  reader, which starts from zeros, shows zeros for the rest.
- `flight_race`: a range is written to the file and copied by separate reads
  (`flightrecorder.cpp:195` and 211): what another thread or the GPU changes between
  them is never written.

The passing run of the same module keeps to calls and shaders that these do not concern,
or its property excepts them by name, so that it shows that nothing else goes wrong.

Met while modelling and described here only, as no comment or document says otherwise:

- Buffer 0 is on the screen from the start, yet counts as available
  (`etna_bswap.c:48`) and is the one the display thread waits for first
  (`etna_bswap.c:68`), while the client draws to buffer 1 first: frames are copied
  into the buffer on the screen, and with three buffers shown out of order.
- In a fragment shader the POSITION input and the POSITION output are both t0
  (`etna_compiler.c:464`).
- `etna_free` drops queued events (`etna.c:376`); `etna_flush` ignores an error of
  `gpu_context_clear` (`etna.c:541`); `etna_pipe_flush` hands out the fence of a
  flush that failed (`etna_pipe.c:1258`).

## Proofs

Every theorem holds for all values of the constants that satisfy the named
assumptions of its module, so for any number of threads, buffers, registers and
calls; the bounds of the runs disappear in it.

`FenceProofs`, any number of threads, slots and fences:

- `TypeCorrect`: `TypeOK`.
- `CompletionSafety`: `CompletionConserved`.  The strengthening `FenceInv` adds
  `MutexDiscipline` (who is inside the critical sections, and that a bit or a
  signal belongs to the newest fence of its slot) and `NewestNotTooOld` (the ids
  of the fences the code compares are less than half the ring of ids apart, so
  that the signed comparison is the comparison of positions).
- `FlushBlocksOnlyBehindFinisher`: a flush that waits for an old signal that is
  not coming waits for a thread that has just taken it, the deadlock of
  `fence_flush_blocked` and no other.
- `SubmitOrder`: `SubmitsOrdered`, with `OrderInv`.
- `RingSafety` (`RingNotLapped`), `LastSignalled` (`LastSignalledComplete`) and
  `FinishSafety` (`FinishSound`), where no wait fails ("wait" is not in `Faults`) and
  handles may be as old as the ring is long (N <= `MaxAge`).  A signal does not say
  which fence it is of: `NewestInRing` and `SignalledPassed` say it is of the newest
  of its slot, so that the GPU is past every fence of the slot, and whoever takes it,
  for an older fence perhaps, records the truth.  `LastKnown` says that
  `last_fence_id` is the id of some fence l before all in the ring, and how far l may
  lag: `Short` while numbers are lost or a commit is under way, `Held` while a fence
  near l is pending, whose slot must come up within N fences and take l along.  So
  ids that are compared are never half the id space apart (`RingAhead`).  A waiter
  with an old fence moves l less than the signal would allow, which is where `Ages`
  is needed, and the id 0, dealt in addition, is counted by `Skipped`.

`CmdBufProofs`, any number and size of buffers, any queue, whichever calls fail,
from `LayoutAssumption` and the other assumptions of `CmdBuf`:

- `TypeCorrect`, `WritesSafe` (`WriteRegionFree`), `LayoutKept`
  (`CommitsDisjoint`), `OverflowNever` (`NoOverflow`), `NoSignalLost`
  (`SignalsConserved`): `NoBufferLost` (`BufferConserved`) says where the signal of
  each buffer is, `WaitsEnd` (`WaitsAnswered`) that the one a client waits for is set
  or with the kernel.  For a buffer this follows from who owns it; for `etna_finish`
  `FinishAnswered` is inductive, since the flush behind a queued event always sends a
  job (`FinishSends`), whether there are commands to commit or not.
- The invariant `Inv` says what lies where in a buffer (`Offsets`, `Layout`), that
  a queue holds plain events and at most one end of each buffer, and for each
  buffer who owns it: the client, a queued or submitted signal, or the signal
  that is set.  A flush is a function of a context, and runs in three places with
  three contexts; so the parts of `Inv` are predicates of a context and a list of
  jobs, with one lemma that a flush keeps them, used wherever one happens.
- `FetchesClean` (`FetchesWritten`), with `Contents`: what was written since the last
  commit, and the commands of every commit, are covered by groups that lie inside, so
  that what the kernel patches around one commit destroys no command of another.
- `NeverLongSilent` (`SilenceBounded`), where no commit is refused ("commit" is not
  in `Faults`), with `Silence`: the context counts what the kernel counts, and beyond
  the limit the buffer is spent.  A refused flush loses its events and sets the count
  back all the same, so the bound is not one of the code's when commits fail;
  `cmdbuf_waits` lets only waits fail for this reason.

`CmdBufStreamProofs`, for the same constants, where no wait fails ("wait" is not in
`Faults`; a failed wait leaves the finish signal behind for the next `etna_finish`):

- `ImplementsStream` (`StreamPreserved`), with `StreamInv`.  `Numbered` says that the
  groups of the jobs in the ring and of what is not yet committed, taken in this
  order, have the numbers after those executed, with none left out: a flush only
  moves the border between the last job and the rest, and the GPU takes the first
  list off.  `FinishInv` says where the finish signal is: with the last job as long
  as the client waits, and nowhere otherwise, so that the wait ends when the ring
  has been executed.

`BufferSwapProofs`, two or three buffers (the code's limit is
`ETNA_BSWAP_NUM_BUFFERS` = 3), any number of frames, any failing calls:

- `TypeCorrect`, `NoReleaseLost` (`ReleasedOnce`), `NoDoubleSwap`
  (`OneSwapPerBuffer`), with `Accounted`.  The buffers form a circle; those available to the client
  are a stretch of it whose front the client eats and whose end the display
  thread extends, so that each buffer is accounted for at most once.
- `BuffersGoRound` (`BuffersCirculate`) adds `NoWakeUpLost` (`NeverStuck`), with
  `Awaited`: as long as no call fails, the buffer the display thread is at is ready,
  with the GPU, with the client, or available, so that the client will come to it
  (`Owed`); once the buffers are being freed, it is ready or among those still to be
  signalled.  If it is available while the client waits, the stretch of available
  buffers is not empty and starts at the back buffer, which therefore is available too.

`PipeStateProofs`, any table of registers, any states, surfaces and levels:

- `TypeCorrect`.
- `ShadowKept` (`ShadowTrue`) and `RegistersRight` (`DrawRegisters`), the latter
  where applications bind as many samplers as views.  `TableFacts` says that a
  register has a flag for every state it is woven from.  `RegisterInv` then says
  that a register whose flags are all clean holds what is woven from what is
  bound, in the shadow and in both register files, except what the GPU spoils.
- `ResolveSound` (`ResolveRight`), with `ResolveInv`: the registers of a resolve
  stay what they are between its start and its end.
- `ProgramRight` (`DrawProgram`), with `ProgramInv`: what has been sent and what
  the context buffer would send are the program expected so far, unless a flush
  tore the upload.
- `ClearsKept` (`ClearsRight`), under `OneLayer`: no two surfaces share a level
  that has tile status.

`VideoMemoryProofs`, any number of contexts, resources and context buffers, any
capacity of the queue, whichever calls fail, with and without a context buffer:

- `TypeCorrect`.
- `MemoryKept` (`MemoryConserved`), whatever applications do.  `Life` says of each
  object where the events that delete it are on their way from the steps of
  `etna_bo_del` through a queue to the ring: each in one place, the unlock before
  the free; `Stage` ties that to what the kernel knows of the object.  `Shape` and
  `SameWay` describe the `etna_bo_del` under way, `Owners` what is owned.
- `NoEarlyFree` (`NoUseAfterFree`) and `ContextBufferKept` (`ContextBufferIdle`),
  where applications are `Careful`: none of the `Practices`.  `CommandUses` says
  that the free of an object that uncommitted commands use can only be where it
  goes behind them: in the queue of their own context.  `LastContexts` makes that
  so for what is deleted next, and `RingUses` keeps the order in the ring.

`FlightRecorderProofs`, memory, ranges and blocks of any size and any contents:

- `TypeCorrect`, and `OnlyChanges` (`ChangesOnly`), whatever programs do.
  `Differences` says of the comparison under way that blocks start at multiples of
  the granularity from the start of the range, and that the difference found last
  ends where the comparison is; a write to memory meanwhile changes neither.
- `EventsShown` (`EventShowsMemory`) and `CopiesAgree` (`CopiesShown`), for programs
  that add no range again and write to memory only between events.
  `DiffShown` says what the reader has of a range that is being compared: memory
  behind `ptr`, except in the difference found last, and the copy ahead of it.
  `DoneShown` has the ranges that are done, `CopiesKnown` the copies, and
  `CopiesApart` that a range stored with other bounds has no copy of its own.
  `LocatedIs`: the reader's bisection finds the range a difference is from.

`CompilerProofs`, any register files and any shaders whose blocks are nested, with one
ELSE at most, and whose instructions have at most three sources (`FilesAssumption`,
`ProgramsAssumption`):

- `TypeCorrect`, with `Types` and `Frames`.  What is assigned and emitted uses
  temporaries that were allocated, or t0 for a POSITION that was not written, and what
  is accepted keeps to the four limits.  There are as many frames as blocks are
  open, counted from the start of the shader, so that ELSE and ENDIF find one and none
  is left at the end.  `Blocks`: a label that is not placed is awaited by a frame, for
  which an ELSE must not come when the frame has both of its labels already; so no
  branch is left without a target.
- `CodeFormed` (`CodeWellFormed`).  `Types` has `OneUniform` of every instruction in
  `code` (`UniformsApart`).  For the branches, `Forward`: only IF and ELSE become a
  branch (`GeneratedBranches`), it is the first instruction of theirs, where the label
  is marked, unless a move comes before it, which happens for a condition that is a
  uniform; and a label is placed behind every mark it has so far (`Marked`).  That it
  is placed at all is `Blocks`.
- `RegistersApart` (`RegistersPlaced`).  For the inputs (`InputsPlaced`), `Apart` and
  `Places`.  Swapping the registers of an input must not disturb those in place.  It
  does not as no two inputs share a register, and they do not as an input gets a new
  one or that of a temporary which the walk then leaves behind.  That the register to
  swap with was allocated follows by counting: the inputs seen so far have different
  ones (`Room`).  For all registers, `Sharing`: a temporary gets one output at most,
  as its last use is then put off beyond the shader or the walk has passed it
  (`Gone`), so that an input comes before the temporary it shares with and that before
  the output, and an input and an output share only through a temporary that is used
  in between, or by a dropped move.  `SharingSound` concludes for every pair.

Model-checked only:

- what needs fairness: `FlushReturns`, `FinishReturns`, `ReserveReturns`,
  `SwapReturns`, `FreeReturns`.  The proof system does not reason about ENABLED.
  What is proved is their safety half, that the one who waits does not wait for what
  cannot come: `WaitsEnd` for `ReserveReturns` and for `FinishReturns` of `CmdBuf`,
  `NoWakeUpLost` for `SwapReturns` and `FreeReturns`, `FlushBlocksOnlyBehindFinisher`
  for `FlushReturns`;
- `ResultsMatch`.  What a shader and its code compute is defined by folding over their
  instructions, so a proof would be an induction over runs, with a simulation between
  two programs; and it is not true of every shader, since outputs that are written
  again are lost (see above).  What it rests on is proved: `RegistersPlaced` and
  `CodeWellFormed`.

## Not modelled

Most lines of the repository are not the driver's: vendored Gallium
(`attic/minigallium`), meshes, textures and recorded command streams
(`attic/resources`, `attic/replay`), generated register headers, and the kernel
headers of several vendors.  The modules cover the driver's own stateful code,
which is a small share of all lines.

- Kernel interface (`viv.c` without the fences): each function fills in one ioctl
  and returns its status; which of them fail, and when, is in the modules that
  call them.
- Resolve and texture helpers, fixed-function state objects: pure translations
  from Gallium's enumerations to register fields, without state.
- Transfers (`etna_transfer.c`) and uploads: copies between a mapped object and
  memory of the client, around a resolve and an `etna_finish` that are modelled.
  The tiling they compute is layout of data.
- Shader assembler and linker: the assembler encodes one instruction into four
  words; the linker matches outputs to inputs by semantic.
- Profiling counters: read through one ioctl each.
- Flight recorder: event parameters, comments, the header of the file and failing
  writes, whose results the code ignores; the merging of interval sets, which only
  its test calls.
- Hooks, utilities, register database, command stream tools but for the reader of
  recordings: they read, print or intercept streams; files in, text out.
- Vendored code, demos and replays: third-party code, or sequences of calls of the
  interfaces modelled here.
