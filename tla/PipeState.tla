------------------------------ MODULE PipeState ------------------------------
(***************************************************************************)
(* The state of the GPU as a pipe context keeps it: binding of state,      *)
(* sync_context before a draw, clears and the resolve to the screen        *)
(* (driver/etna_pipe.c, etna_shader.c, etna_clear_blit.c, etna_screen.c,   *)
(* under src/attic), on a kernel that needs a context buffer.              *)
(*                                                                         *)
(* A bound object raises dirty flags.  A draw writes the registers whose   *)
(* flags are up and whose shadow in gpu3d differs.  Any room it asks for   *)
(* in the command buffer may flush: the flush makes the next context       *)
(* buffer from gpu3d as it is then, and the kernel runs that buffer before *)
(* the next commit if another process has used the GPU.  So what is        *)
(* written after a flush runs on one of two register files, "live" or      *)
(* "replay", and both must be right.                                       *)
(***************************************************************************)
EXTENDS Naturals, FiniteSets

CONSTANTS
  Values,      \* values of what is bound; for samplers and views, how many they are
  Changing,    \* bound: the slots the application changes
  Colors,      \* clear values
  Surfaces,    \* colour surfaces
  Levels,      \* resource levels
  LevelOf,     \* surface -> level: surfaces of a level show its layers
  TsLevels,    \* levels that have tile status
  MsaaLevels,  \* levels with more than one sample
  ManyTemps,   \* fragment shaders with more temporaries than inputs and position
  Reset,       \* the value a register has when the context is created
  Clobbered,   \* 0xffffffff, and what the GPU leaves when the sample count changes
  MaxCalls,    \* bound: calls that change state
  Practices    \* what applications do: subset of {"samplers", "layers"}

ASSUME SurfacesAssumption ==
  /\ LevelOf \in [Surfaces -> Levels]
  /\ TsLevels \subseteq Levels /\ MsaaLevels \subseteq Levels
ASSUME ValuesAssumption == 1 \in Values /\ Values \subseteq Nat
ASSUME CallsAssumption == MaxCalls \in Nat

VARIABLES
  bound,       \* compiled states of the context, by slot
  fb,          \* compiled framebuffer state
  surfaces,    \* surfaces that exist
  command,     \* surface->clear_command: the colour it fills with
  clear_value, \* level->clear_value
  linked,      \* shader_state: linked shaders and uniforms
  dirty,       \* dirty_bits
  shadow,      \* gpu3d
  live,        \* registers the next command finds if no other process cuts in
  replay,      \* registers it finds if the context buffer runs first
  at,          \* step of sync_context or flush_frontbuffer
  torn,        \* live, replay: from a context buffer made during a shader upload
  asked,       \* colour each surface was last cleared to, by request
  memory,      \* colour the last clear filled each surface with
  calls

pipeVars == << bound, fb, linked, dirty >>
surfaceVars == << surfaces, command, clear_value, asked, memory >>
gpuVars == << shadow, live, replay, torn >>
vars == << pipeVars, surfaceVars, gpuVars, at, calls >>

-----------------------------------------------------------------------------
\* Objects that are copied when bound, each with a flag of its name.
Plain == { "blend", "samplers", "rasterizer", "dsa", "vertex_elements", "blend_color",
           "stencil_ref", "sample_mask", "viewport", "scissor", "sampler_views",
           "vertex_buffers", "index_buffer" }
Shaders == {"vs", "fs"}
Constants == {"vs_const", "fs_const"}
Slots == Plain \union Shaders \union Constants

Flags == Plain \union {"framebuffer", "shader", "vs_uniforms", "ps_uniforms", "ts"}

Raised(slot) ==
  CASE slot = "vs" -> {"shader", "vs_uniforms"}
    [] slot = "fs" -> {"shader", "ps_uniforms"}
    [] slot = "vs_const" -> {"vs_uniforms"}
    [] slot = "fs_const" -> {"ps_uniforms"}
    [] OTHER -> {slot}

Row(flags, sources) == [flags |-> flags, sources |-> sources]

\* Registers by the flags that have sync_context look at them and by the states
\* they are woven from.  One row stands for all registers with these flags.
Table == [
  GL_MULTI_SAMPLE_CONFIG |-> Row({"framebuffer", "sample_mask"}, {"surface", "sample_mask"}),
  FE_VERTEX_ELEMENT_CONFIG |-> Row({"vertex_elements"}, {"vertex_elements"}),
  FE_INDEX_STREAM   |-> Row({"index_buffer"}, {"index_buffer"}),
  FE_VERTEX_STREAM  |-> Row({"vertex_buffers"}, {"vertex_buffers"}),
  VS_OUTPUT         |-> Row({"shader"}, {"link"}),
  VS_OUTPUT_COUNT   |-> Row({"shader", "rasterizer"}, {"link", "rasterizer"}),
  VS_INPUT_COUNT    |-> Row({"vertex_elements", "shader"}, {"vertex_elements", "link"}),
  PA_VIEWPORT       |-> Row({"viewport"}, {"viewport"}),
  PA_LINE_WIDTH     |-> Row({"rasterizer"}, {"rasterizer"}),
  SE_SCISSOR        |-> Row({"scissor", "framebuffer", "rasterizer", "viewport"},
                            {"scissor", "surface", "rasterizer", "viewport"}),
  PS_END_PC         |-> Row({"shader", "framebuffer"}, {"link"}),
  PS_INPUT_COUNT    |-> Row({"shader", "framebuffer"}, {"link", "surface"}),
  PS_TEMP_REGISTER_CONTROL |-> Row({"shader", "framebuffer"}, {"temps"}),
  PE_DEPTH_CONFIG   |-> Row({"dsa", "framebuffer"}, {"dsa", "surface"}),
  PE_STENCIL_OP     |-> Row({"dsa"}, {"dsa"}),
  PE_STENCIL_CONFIG |-> Row({"dsa", "stencil_ref"}, {"dsa", "stencil_ref"}),
  PE_ALPHA_BLEND_COLOR |-> Row({"blend_color"}, {"blend_color"}),
  PE_ALPHA_CONFIG   |-> Row({"blend"}, {"blend"}),
  PE_COLOR_FORMAT   |-> Row({"blend", "framebuffer"}, {"blend", "surface"}),
  PE_COLOR_ADDR     |-> Row({"framebuffer"}, {"surface"}),
  PE_STENCIL_CONFIG_EXT |-> Row({"stencil_ref"}, {"stencil_ref"}),
  TS_MEM_CONFIG     |-> Row({"framebuffer", "ts"}, {"ts_mode"}),
  TS_COLOR          |-> Row({"framebuffer", "ts"}, {"ts_color"}),
  TE_SAMPLER_CONFIG |-> Row({"sampler_views", "samplers"}, {"sampler_views", "samplers"}),
  TE_SAMPLER_SIZE_1 |-> Row({"sampler_views"}, {"sampler_views"}),
  TE_SAMPLER_SIZE_2 |-> Row({"sampler_views"}, {"sampler_views"}) ]

Registers == DOMAIN Table
MsaaClobbers == {"PS_INPUT_COUNT", "PS_TEMP_REGISTER_CONTROL"}
Programs == {"VS_INST_MEM", "PS_INST_MEM", "VS_UNIFORMS", "PS_UNIFORMS"}
\* Registers that are written past gpu3d, and so are in no context buffer.
Untracked == {"TS_COLOR_AUTO_DISABLE_COUNT"}
Files == Registers \union Programs \union Untracked

\* Where the driver is: between calls, at a step of sync_context, or in the
\* resolve of a level.
Steps == {"idle", "elements", "registers", "draw"} \union Programs
ASSUME NamesAssumption ==
  /\ Levels \intersect Steps = {}
  /\ Reset \notin [{"surface", "sample_mask"} -> Surfaces \union Values]
ASSUME ChangingAssumption == Changing \subseteq Slots

\* active_samplers_bits: the value of either slot is the number of what it binds.
Active == IF bound["samplers"] < bound["sampler_views"]
          THEN bound["samplers"] ELSE bound["sampler_views"]
Used(r) == r = "TE_SAMPLER_SIZE_2" => Active > 1

\* Many samples add an input, and with it a temporary if the inputs are as many.
Source(s) ==
  CASE s = "surface" -> fb.surface
    [] s = "temps" ->
         << linked.fs, linked.fs \notin ManyTemps /\ LevelOf[fb.surface] \in MsaaLevels >>
    [] s = "ts_mode" -> fb.ts_mode
    [] s = "ts_color" -> fb.ts_color
    [] s = "link" -> << linked.vs, linked.fs >>
    [] OTHER -> bound[s]
Woven(r) == [s \in Table[r].sources |-> Source(s)]

Program(p) ==
  CASE p = "VS_INST_MEM" -> linked.vs
    [] p = "PS_INST_MEM" -> linked.fs
    [] p = "VS_UNIFORMS" -> << linked.vs, linked.vs_const >>
    [] p = "PS_UNIFORMS" -> << linked.fs, linked.fs_const >>

-----------------------------------------------------------------------------
\* A new context in which the application has bound one object of each kind.
Init ==
  /\ bound = [s \in Slots |-> 1]
  /\ \E s \in Surfaces :
       /\ surfaces = {s}
       /\ \E c \in Colors :
            /\ command = [t \in Surfaces |-> c]
            /\ clear_value = [l \in Levels |-> c]
            /\ asked = [t \in Surfaces |-> c]
            /\ memory = [t \in Surfaces |-> c]
            /\ fb = [surface |-> s, ts_color |-> << LevelOf[s], c >>,
                     ts_mode |-> IF LevelOf[s] \in TsLevels THEN "fast" ELSE "off"]
  /\ linked = [s \in Shaders \union Constants |-> Reset]
  /\ dirty = Flags
  /\ shadow = [f \in Files |-> Reset]
  /\ live = shadow /\ replay = shadow
  /\ at = "idle"
  /\ torn = [live |-> FALSE, replay |-> FALSE]
  /\ calls = 0

Call == at = "idle" /\ calls < MaxCalls /\ calls' = calls + 1 /\ at' = at

\* bind_*_state, set_*: copy and raise.  A constant buffer is fetched at once; a
\* shader that is already bound is skipped.
Bind_NoUniformFlag(slot, v) ==
  /\ Call
  /\ slot \in Shaders => bound[slot] # v
  /\ bound' = [bound EXCEPT ![slot] = v]
  /\ dirty' = IF slot \in Constants THEN dirty ELSE dirty \union Raised(slot)
  /\ linked' = IF slot \in Constants THEN [linked EXCEPT ![slot] = v] ELSE linked
  /\ UNCHANGED << fb, surfaceVars, gpuVars >>
Bind(slot, v) ==
  /\ Call
  /\ slot \in Shaders => bound[slot] # v
  /\ bound' = [bound EXCEPT ![slot] = v]
  /\ dirty' = dirty \union Raised(slot)
  /\ linked' = IF slot \in Constants THEN [linked EXCEPT ![slot] = v] ELSE linked
  /\ UNCHANGED << fb, surfaceVars, gpuVars >>

\* etna_pipe_set_framebuffer_state, colour part
SetFramebuffer(s) ==
  /\ Call
  /\ s \in surfaces
  /\ LET l == LevelOf[s] IN
     fb' = [surface |-> s,
            ts_mode |-> IF l \in TsLevels THEN "fast" ELSE "off",
            ts_color |-> IF l \in TsLevels THEN << l, clear_value[l] >> ELSE fb.ts_color]
  /\ dirty' = dirty \union {"framebuffer"}
  /\ UNCHANGED << bound, linked, surfaceVars, gpuVars >>

\* etna_pipe_create_surface: the command of a surface without tile status is
\* generated for the clear value of the level.
CreateSurface(s) ==
  /\ Call
  /\ s \notin surfaces
  /\ "layers" \in Practices \/ \A t \in surfaces : LevelOf[t] # LevelOf[s]
  /\ surfaces' = surfaces \union {s}
  /\ command' = [command EXCEPT ![s] = clear_value[LevelOf[s]]]
  /\ UNCHANGED << pipeVars, clear_value, asked, memory, gpuVars >>

DestroySurface_Bound(s) ==
  /\ Call
  /\ s \in surfaces
  /\ surfaces' = surfaces \ {s}
  /\ UNCHANGED << pipeVars, command, clear_value, asked, memory, gpuVars >>
DestroySurface(s) ==
  /\ Call
  /\ s \in surfaces \ {fb.surface}
  /\ surfaces' = surfaces \ {s}
  /\ UNCHANGED << pipeVars, command, clear_value, asked, memory, gpuVars >>

\* etna_pipe_clear, colour part.  The fill itself uses no register of the context.
\* The number of tiles goes by the size of the level.
TilesCounted(file, l) == [file EXCEPT !["TS_COLOR_AUTO_DISABLE_COUNT"] = l]
Clear_NoStore(c) ==
  /\ Call
  /\ LET s == fb.surface
         l == LevelOf[s] IN
     /\ IF l \in TsLevels
        THEN /\ fb' = [fb EXCEPT !.ts_color = << l, c >>, !.ts_mode = "auto"]
             /\ dirty' = dirty \union {"ts"}
             /\ live' = TilesCounted(live, l) /\ replay' = TilesCounted(replay, l)
             /\ UNCHANGED << command, memory >>
        ELSE /\ command' = IF c # clear_value[l] THEN [command EXCEPT ![s] = c] ELSE command
             /\ memory' = [memory EXCEPT ![s] = command'[s]]
             /\ UNCHANGED << fb, dirty, live, replay >>
     /\ UNCHANGED clear_value
     /\ asked' = [asked EXCEPT ![s] = c]
  /\ UNCHANGED << bound, linked, surfaces, shadow, torn >>
Clear(c) ==
  /\ Call
  /\ LET s == fb.surface
         l == LevelOf[s] IN
     /\ IF l \in TsLevels
        THEN /\ fb' = [fb EXCEPT !.ts_color = << l, c >>, !.ts_mode = "auto"]
             /\ dirty' = dirty \union {"ts"}
             /\ live' = TilesCounted(live, l) /\ replay' = TilesCounted(replay, l)
             /\ UNCHANGED << command, memory >>
        ELSE /\ command' = IF c # clear_value[l] THEN [command EXCEPT ![s] = c] ELSE command
             /\ memory' = [memory EXCEPT ![s] = command'[s]]
             /\ UNCHANGED << fb, dirty, live, replay >>
     /\ clear_value' = [clear_value EXCEPT ![l] = c]
     /\ asked' = [asked EXCEPT ![s] = c]
  /\ UNCHANGED << bound, linked, surfaces, shadow, torn >>

-----------------------------------------------------------------------------
(* etna_flush: whoever asks for room in the command buffer may get here. *)

\* reset_context, update_context: the context buffer holds all of gpu3d.
ContextImage_NoTileStatus == [shadow EXCEPT !["TS_MEM_CONFIG"] = Reset]
ContextImage == shadow

\* The kernel runs the context buffer if another process has used the GPU; then
\* update_context makes the next one from gpu3d.
FlushEffect(uploading) ==
  /\ \E switched \in BOOLEAN :
       /\ live' = IF switched THEN replay ELSE live
       /\ torn' = [live |-> IF switched THEN torn.replay ELSE torn.live, replay |-> uploading]
  /\ replay' = ContextImage
  /\ UNCHANGED shadow

\* Some of a shader's memories are written, and gpu3d has the ones before.
Uploading == "shader" \in dirty /\ at \in Programs \ {"VS_INST_MEM"}

Flush ==
  /\ FlushEffect(Uploading)
  /\ UNCHANGED << pipeVars, surfaceVars, at, calls >>

-----------------------------------------------------------------------------
(* sync_context *)

\* Write registers, in live and in replay alike.  The GPU spoils MsaaClobbers
\* when the number of samples changes; they are written after GL_MULTI_SAMPLE_CONFIG.
Msaa(v) == v # Reset /\ LevelOf[v["surface"]] \in MsaaLevels
Written(file, regs) ==
  [f \in Files |->
     IF f \in regs THEN Woven(f)
     ELSE IF /\ f \in MsaaClobbers
             /\ "GL_MULTI_SAMPLE_CONFIG" \in regs
             /\ Msaa(Woven("GL_MULTI_SAMPLE_CONFIG")) # Msaa(file["GL_MULTI_SAMPLE_CONFIG"])
          THEN Clobbered
     ELSE file[f]]
Emit(regs) ==
  /\ live' = Written(live, regs)
  /\ replay' = Written(replay, regs)
  /\ shadow' = [f \in Files |-> IF f \in regs THEN Woven(f) ELSE shadow[f]]

\* The shader is linked again; MsaaClobbers are made to be written if the number
\* of samples changes.
StartDraw_NoClobber ==
  /\ at = "idle"
  /\ "samplers" \in Practices \/ bound["samplers"] = bound["sampler_views"]
  /\ linked' = IF "shader" \in dirty THEN [s \in Shaders \union Constants |-> bound[s]] ELSE linked
  /\ at' = "elements"
  /\ UNCHANGED << bound, fb, dirty, surfaceVars, gpuVars, calls >>
StartDraw ==
  /\ at = "idle"
  /\ "samplers" \in Practices \/ bound["samplers"] = bound["sampler_views"]
  /\ linked' = IF "shader" \in dirty THEN [s \in Shaders \union Constants |-> bound[s]] ELSE linked
  /\ shadow' =
       IF /\ "framebuffer" \in dirty
          /\ Msaa(shadow["GL_MULTI_SAMPLE_CONFIG"]) # (LevelOf[fb.surface] \in MsaaLevels)
       THEN [f \in Files |-> IF f \in MsaaClobbers THEN Clobbered ELSE shadow[f]] ELSE shadow
  /\ at' = "elements"
  /\ UNCHANGED << bound, fb, dirty, surfaceVars, live, replay, torn, calls >>

Stale(r) == Table[r].flags \intersect dirty # {} /\ shadow[r] # Woven(r)

EmitElements ==
  /\ at = "elements"
  /\ Emit({r \in {"FE_VERTEX_ELEMENT_CONFIG"} : Stale(r)})
  /\ at' = "registers"
  /\ UNCHANGED << pipeVars, surfaceVars, torn, calls >>

EmitRegisters ==
  /\ at = "registers"
  /\ Emit({r \in Registers \ {"FE_VERTEX_ELEMENT_CONFIG"} : Stale(r) /\ Used(r)})
  /\ at' = "VS_INST_MEM"
  /\ UNCHANGED << pipeVars, surfaceVars, torn, calls >>

After(p) ==
  CASE p = "VS_INST_MEM" -> "PS_INST_MEM"
    [] p = "PS_INST_MEM" -> "VS_UNIFORMS"
    [] p = "VS_UNIFORMS" -> "PS_UNIFORMS"
    [] p = "PS_UNIFORMS" -> "draw"
FlagOf(p) == IF p = "VS_UNIFORMS" THEN "vs_uniforms" ELSE "ps_uniforms"

\* dirty_bits = 0 at the end.
Advance(p) == at' = After(p) /\ dirty' = IF After(p) = "draw" THEN {} ELSE dirty

\* A new shader: the four memories are sent one by one, then copied to gpu3d.
UploadShader(p) ==
  /\ at = p
  /\ "shader" \in dirty
  /\ live' = [live EXCEPT ![p] = Program(p)]
  /\ replay' = [replay EXCEPT ![p] = Program(p)]
  /\ shadow' = IF p = "PS_UNIFORMS"
               THEN [f \in Files |-> IF f \in Programs THEN Program(f) ELSE shadow[f]]
               ELSE shadow
  /\ Advance(p)
  /\ UNCHANGED << bound, fb, linked, surfaceVars, torn, calls >>

\* The same shader: only uniforms that changed.
UpdateUniforms(p) ==
  /\ at = p
  /\ "shader" \notin dirty
  /\ IF p \in {"VS_UNIFORMS", "PS_UNIFORMS"} /\ FlagOf(p) \in dirty /\ shadow[p] # Program(p)
     THEN /\ live' = [live EXCEPT ![p] = Program(p)]
          /\ replay' = [replay EXCEPT ![p] = Program(p)]
          /\ shadow' = [shadow EXCEPT ![p] = Program(p)]
     ELSE UNCHANGED << live, replay, shadow >>
  /\ Advance(p)
  /\ UNCHANGED << bound, fb, linked, surfaceVars, torn, calls >>

\* etna_draw_primitives, or a mismatch of elements and shader inputs: no draw.
EndDraw ==
  /\ at = "draw"
  /\ at' = "idle"
  /\ UNCHANGED << pipeVars, surfaceVars, gpuVars, calls >>

-----------------------------------------------------------------------------
(* etna_screen_flush_frontbuffer: the registers of the tile status are set  *)
(* for the source, in gpu3d too; the resolve runs; the pipe is flushed.     *)

ResolveValue(l, r) ==
  IF r = "TS_COLOR" THEN [ts_color |-> << l, clear_value[l] >>]
  ELSE [ts_mode |-> IF l \in TsLevels THEN "fast" ELSE "off"]
ResolveSets(l) == IF l \in TsLevels THEN {"TS_MEM_CONFIG", "TS_COLOR"} ELSE {"TS_MEM_CONFIG"}
Overlay(file, l) ==
  [f \in Files |-> IF f \in ResolveSets(l) THEN ResolveValue(l, f) ELSE file[f]]

StartResolve_NoShadow(l) ==
  /\ at = "idle"
  /\ live' = Overlay(live, l)
  /\ replay' = Overlay(replay, l)
  /\ dirty' = dirty \union {"ts"}
  /\ at' = l
  /\ UNCHANGED << bound, fb, linked, surfaceVars, shadow, torn, calls >>
StartResolve(l) ==
  /\ at = "idle"
  /\ shadow' = Overlay(shadow, l)
  /\ live' = Overlay(live, l)
  /\ replay' = Overlay(replay, l)
  /\ dirty' = dirty \union {"ts"}
  /\ at' = l
  /\ UNCHANGED << bound, fb, linked, surfaceVars, torn, calls >>

EndResolve ==
  /\ at \in Levels
  /\ FlushEffect(FALSE)
  /\ at' = "idle"
  /\ UNCHANGED << pipeVars, surfaceVars, calls >>

-----------------------------------------------------------------------------
SetState ==
  \/ \E s \in Changing, v \in Values : Bind(s, v)
  \/ \E s \in Surfaces : SetFramebuffer(s) \/ CreateSurface(s) \/ DestroySurface(s)
  \/ \E c \in Colors : Clear(c)

Draw ==
  \/ StartDraw \/ EmitElements \/ EmitRegisters \/ EndDraw
  \/ \E p \in Programs : UploadShader(p) \/ UpdateUniforms(p)

Resolve == EndResolve \/ \E l \in Levels : StartResolve(l)

Next == SetState \/ Draw \/ Resolve \/ Flush

Spec == Init /\ [][Next]_vars

-----------------------------------------------------------------------------
(* Properties. *)

\* Every variable has its type.
TypeOK ==
  /\ bound \in [Slots -> Values]
  /\ fb \in [surface : Surfaces, ts_mode : {"off", "fast", "auto"}, ts_color : Levels \X Colors]
  /\ fb.surface \in surfaces /\ surfaces \subseteq Surfaces
  /\ command \in [Surfaces -> Colors] /\ clear_value \in [Levels -> Colors]
  /\ asked \in [Surfaces -> Colors] /\ memory \in [Surfaces -> Colors]
  /\ linked \in [Shaders \union Constants -> Values \union {Reset}]
  /\ dirty \subseteq Flags
  /\ DOMAIN shadow = Files /\ DOMAIN live = Files /\ DOMAIN replay = Files
  /\ at \in Steps \union Levels
  /\ torn \in [live : BOOLEAN, replay : BOOLEAN]
  /\ calls \in 0..MaxCalls

\* A draw runs with every register as the bound state weaves it, whatever was
\* bound, cleared, resolved or flushed since the draw before, and whether or not
\* the context buffer runs first (sync_context: "merges all the compiled state
\* blocks under the context into one device register state").
DrawRegisters ==
  at = "draw" => \A r \in Registers : Used(r) => live[r] = Woven(r) /\ replay[r] = Woven(r)

\* A draw runs the bound shaders with the bound constants, unless the context
\* buffer before it was made while a shader was being uploaded.
DrawProgram ==
  at = "draw" => \A p \in Programs :
    /\ torn.live \/ live[p] = Program(p)
    /\ torn.replay \/ replay[p] = Program(p)

\* The same without the exception: the context buffer that a flush makes has the
\* "current register state" (reset_context), in the middle of an upload, too.
ProgramRestored ==
  at = "draw" => \A p \in Programs : live[p] = Program(p) /\ replay[p] = Program(p)

\* Between calls gpu3d is what the GPU has ("cached state of entire GPU"), and the
\* context buffer restores it.
ShadowTrue ==
  at = "idle" => \A r \in Registers : live[r] = shadow[r] /\ replay[r] = shadow[r]

\* A clear leaves the colour it was asked for: in the memory of a surface without
\* tile status, in the clear value a draw to a surface with tile status will use.
ClearsRight ==
  /\ \A s \in Surfaces : LevelOf[s] \notin TsLevels => memory[s] = asked[s]
  /\ LevelOf[fb.surface] \in TsLevels => fb.ts_color = << LevelOf[fb.surface], asked[fb.surface] >>

\* The resolve to the screen reads its source through the tile status of the
\* source, not of the bound framebuffer, on either side of a context switch.
ResolveRight ==
  at \in Levels =>
    \A file \in {live, replay} : \A r \in ResolveSets(at) : file[r] = ResolveValue(at, r)

\* A draw with auto-disable on finds the number of tiles of its surface, on either
\* side of a context switch (gpu3d: "cached state of entire GPU").
AutoDisableRestored ==
  at = "draw" /\ fb.ts_mode = "auto" =>
    \A file \in {live, replay} : file["TS_COLOR_AUTO_DISABLE_COUNT"] = LevelOf[fb.surface]

=============================================================================
