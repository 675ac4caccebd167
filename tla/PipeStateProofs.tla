---------------------------- MODULE PipeStateProofs ----------------------------
(***************************************************************************)
(* Proofs about PipeState, for all sets of values, colours, surfaces and   *)
(* levels, every number of calls and every way the flushes fall.           *)
(*                                                                         *)
(* The table of registers enters through TableFacts alone: a register is   *)
(* looked at under a flag of every state it is woven from.                 *)
(***************************************************************************)
EXTENDS PipeState, TLAPS

-----------------------------------------------------------------------------
(* The table. *)

FlagsOf(r) == Table[r].flags
SourcesOf(r) == Table[r].sources

LEMMA Names ==
  /\ Registers = DOMAIN Table
  /\ MsaaClobbers \subseteq Registers /\ Registers \subseteq Files /\ Programs \subseteq Files
  /\ Registers \intersect Programs = {} /\ Untracked \intersect (Registers \union Programs) = {}
  /\ "GL_MULTI_SAMPLE_CONFIG" \in Registers \ MsaaClobbers
  /\ "FE_VERTEX_ELEMENT_CONFIG" \in Registers \ MsaaClobbers
  /\ {"TS_MEM_CONFIG", "TS_COLOR"} \subseteq Registers \ MsaaClobbers
  BY DEF Registers, Table, MsaaClobbers, Files, Programs, Untracked

\* A register has a flag of every state it is woven from.
LEMMA TableFacts ==
  ASSUME NEW r \in Registers
  PROVE  /\ SourcesOf(r) \subseteq Plain \union {"surface", "ts_mode", "ts_color", "link", "temps"}
         /\ SourcesOf(r) \intersect Plain \subseteq FlagsOf(r)
         /\ "surface" \in SourcesOf(r) => "framebuffer" \in FlagsOf(r)
         /\ "ts_mode" \in SourcesOf(r) => {"framebuffer", "ts"} \subseteq FlagsOf(r)
         /\ "ts_color" \in SourcesOf(r) => {"framebuffer", "ts"} \subseteq FlagsOf(r)
         /\ "link" \in SourcesOf(r) => "shader" \in FlagsOf(r)
         /\ "temps" \in SourcesOf(r) => {"framebuffer", "shader"} \subseteq FlagsOf(r)
         /\ r \in MsaaClobbers => "framebuffer" \in FlagsOf(r)
         /\ r \in {"TS_MEM_CONFIG", "TS_COLOR"} => "ts" \in FlagsOf(r)
         /\ FlagsOf(r) \subseteq Flags
<1>1. SourcesOf(r) \subseteq Plain \union {"surface", "ts_mode", "ts_color", "link", "temps"}
  BY DEF Registers, Table, Row, SourcesOf, Plain
<1>2. ASSUME NEW s \in SourcesOf(r), s \in Plain PROVE s \in FlagsOf(r)
  <2>1. s \notin {"surface", "ts_mode", "ts_color", "link", "temps"}
    BY <1>2 DEF Plain
  <2>2. QED BY <2>1 DEF Registers, Table, Row, FlagsOf, SourcesOf
<1>3. /\ "surface" \in SourcesOf(r) => "framebuffer" \in FlagsOf(r)
      /\ "ts_mode" \in SourcesOf(r) => {"framebuffer", "ts"} \subseteq FlagsOf(r)
      /\ "ts_color" \in SourcesOf(r) => {"framebuffer", "ts"} \subseteq FlagsOf(r)
      /\ "link" \in SourcesOf(r) => "shader" \in FlagsOf(r)
      /\ "temps" \in SourcesOf(r) => {"framebuffer", "shader"} \subseteq FlagsOf(r)
  BY DEF Registers, Table, Row, FlagsOf, SourcesOf
<1>4. /\ r \in MsaaClobbers => "framebuffer" \in FlagsOf(r)
      /\ r \in {"TS_MEM_CONFIG", "TS_COLOR"} => "ts" \in FlagsOf(r)
  BY DEF Registers, Table, Row, FlagsOf, MsaaClobbers
<1>5. FlagsOf(r) \subseteq Flags
  BY DEF Registers, Table, Row, FlagsOf, Plain, Flags
<1>6. QED BY <1>1, <1>2, <1>3, <1>4, <1>5

LEMMA SpecialRows ==
  /\ FlagsOf("GL_MULTI_SAMPLE_CONFIG") = {"framebuffer", "sample_mask"}
  /\ SourcesOf("GL_MULTI_SAMPLE_CONFIG") = {"surface", "sample_mask"}
  /\ FlagsOf("TE_SAMPLER_SIZE_2") = {"sampler_views"}
  BY DEF Table, Row, FlagsOf, SourcesOf

\* A clear writes only a register that gpu3d does not have.
LEMMA ClearWrites ==
  ASSUME TypeOK, NEW c \in Colors, Clear(c)
  PROVE  /\ UNCHANGED << shadow, torn >> /\ DOMAIN live' = Files /\ DOMAIN replay' = Files
         /\ \A r \in Registers \union Programs : live'[r] = live[r] /\ replay'[r] = replay[r]
<1>1. UNCHANGED << shadow, torn >>
  BY DEF Clear
<1>2. DOMAIN live = Files /\ DOMAIN replay = Files
  BY DEF TypeOK
<1>3. CASE live' = live /\ replay' = replay
  BY <1>1, <1>2, <1>3
<1>4. ASSUME NEW l, live' = TilesCounted(live, l), replay' = TilesCounted(replay, l)
      PROVE  /\ DOMAIN live' = Files /\ DOMAIN replay' = Files
             /\ \A r \in Registers \union Programs : live'[r] = live[r] /\ replay'[r] = replay[r]
  <2>1. \A r \in Registers \union Programs : r # "TS_COLOR_AUTO_DISABLE_COUNT"
    BY Names DEF Untracked
  <2>2. QED BY <1>2, <1>4, <2>1 DEF TilesCounted
<1>5. QED BY <1>1, <1>3, <1>4 DEF Clear

-----------------------------------------------------------------------------
(* Type correctness. *)

LEMMA TypeInit == Init => TypeOK
<1> SUFFICES ASSUME Init PROVE TypeOK
  OBVIOUS
<1>1. PICK s \in Surfaces, c \in Colors :
        /\ surfaces = {s}
        /\ command = [t \in Surfaces |-> c] /\ clear_value = [l \in Levels |-> c]
        /\ asked = [t \in Surfaces |-> c] /\ memory = [t \in Surfaces |-> c]
        /\ fb = [surface |-> s, ts_color |-> << LevelOf[s], c >>,
                 ts_mode |-> IF LevelOf[s] \in TsLevels THEN "fast" ELSE "off"]
  BY DEF Init
<1>2. LevelOf[s] \in Levels
  BY SurfacesAssumption
<1>3. /\ bound \in [Slots -> Values] /\ dirty = Flags /\ calls = 0 /\ at = "idle"
      /\ linked \in [Shaders \union Constants -> Values \union {Reset}]
      /\ DOMAIN shadow = Files /\ DOMAIN live = Files /\ DOMAIN replay = Files
      /\ torn \in [live : BOOLEAN, replay : BOOLEAN]
  BY ValuesAssumption DEF Init
<1>4. QED BY <1>1, <1>2, <1>3, CallsAssumption DEF TypeOK, Steps

\* A step of the draw is followed by another.
LEMMA NextStep ==
  ASSUME NEW p \in Programs
  PROVE  /\ After(p) \in Steps \ {"idle", "elements", "registers", "VS_INST_MEM"}
         /\ After(p) = "draw" <=> p = "PS_UNIFORMS"
  BY DEF After, Programs, Steps

LEMMA TypePreserved == TypeOK /\ [Next]_vars => TypeOK'
<1> SUFFICES ASSUME TypeOK, [Next]_vars PROVE TypeOK'
  OBVIOUS
<1> USE DEF TypeOK
<1>1. ASSUME NEW s \in Slots, NEW v \in Values, Bind(s, v) PROVE TypeOK'
  <2>1. Raised(s) \subseteq Flags
    BY DEF Slots, Shaders, Constants, Raised, Flags, Plain
  <2>2. linked' \in [Shaders \union Constants -> Values \union {Reset}]
    BY <1>1 DEF Bind
  <2>3. calls' \in 0 .. MaxCalls
    BY <1>1, CallsAssumption DEF Bind, Call
  <2>4. QED BY <1>1, <2>1, <2>2, <2>3 DEF Bind, Call, surfaceVars, gpuVars
<1>2. ASSUME NEW s \in Surfaces, SetFramebuffer(s) PROVE TypeOK'
  <2>1. LevelOf[s] \in Levels /\ "framebuffer" \in Flags
    BY SurfacesAssumption DEF Flags
  <2>2. calls' \in 0 .. MaxCalls
    BY <1>2, CallsAssumption DEF SetFramebuffer, Call
  <2>3. /\ fb' \in [surface : Surfaces, ts_mode : {"off", "fast", "auto"}, ts_color : Levels \X Colors]
        /\ fb'.surface = s
    <3>1. fb.ts_color \in Levels \X Colors /\ << LevelOf[s], clear_value[LevelOf[s]] >> \in Levels \X Colors
      BY <2>1
    <3>2. QED BY <1>2, <3>1 DEF SetFramebuffer
  <2>4. QED BY <1>2, <2>1, <2>2, <2>3 DEF SetFramebuffer, Call, surfaceVars, gpuVars
<1>3. ASSUME NEW s \in Surfaces, CreateSurface(s) \/ DestroySurface(s) PROVE TypeOK'
  <2>1. LevelOf[s] \in Levels
    BY SurfacesAssumption
  <2>2. calls' \in 0 .. MaxCalls
    BY <1>3, CallsAssumption DEF CreateSurface, DestroySurface, Call
  <2>3. QED BY <1>3, <2>1, <2>2 DEF CreateSurface, DestroySurface, Call, pipeVars, gpuVars
<1>4. ASSUME NEW c \in Colors, Clear(c) PROVE TypeOK'
  <2>1. fb.surface \in Surfaces /\ LevelOf[fb.surface] \in Levels /\ "ts" \in Flags
    BY SurfacesAssumption DEF Flags
  <2>2. calls' \in 0 .. MaxCalls
    BY <1>4, CallsAssumption DEF Clear, Call
  <2>3. CASE LevelOf[fb.surface] \in TsLevels
    <3>1. /\ fb' = [fb EXCEPT !.ts_color = << LevelOf[fb.surface], c >>, !.ts_mode = "auto"]
          /\ command' = command /\ memory' = memory /\ dirty' = dirty \union {"ts"}
      BY <1>4, <2>3 DEF Clear
    <3>2. << LevelOf[fb.surface], c >> \in Levels \X Colors
      BY <2>1
    <3>3. /\ fb' \in [surface : Surfaces, ts_mode : {"off", "fast", "auto"}, ts_color : Levels \X Colors]
          /\ fb'.surface = fb.surface
      BY <3>1, <3>2
    <3>4. QED BY <1>4, <2>1, <2>2, <3>1, <3>3, ClearWrites DEF Clear, Call
  <2>4. CASE LevelOf[fb.surface] \notin TsLevels
    <3>1. command' \in [Surfaces -> Colors] /\ fb' = fb /\ dirty' = dirty
      BY <1>4, <2>1, <2>4 DEF Clear
    <3>2. memory' = [memory EXCEPT ![fb.surface] = command'[fb.surface]]
      BY <1>4, <2>4 DEF Clear
    <3>3. memory' \in [Surfaces -> Colors]
      BY <2>1, <3>1, <3>2
    <3>4. QED BY <1>4, <2>1, <2>2, <3>1, <3>3, ClearWrites DEF Clear, Call
  <2>5. QED BY <2>3, <2>4
<1>5. ASSUME Flush PROVE TypeOK'
  BY <1>5 DEF Flush, FlushEffect, ContextImage, pipeVars, surfaceVars, Uploading
<1>6. CASE StartDraw
  <2>1. Shaders \union Constants \subseteq Slots
    BY DEF Slots
  <2>2. linked' \in [Shaders \union Constants -> Values \union {Reset}]
    BY <1>6, <2>1 DEF StartDraw
  <2>3. DOMAIN shadow' = Files
    BY <1>6 DEF StartDraw
  <2>4. QED BY <1>6, <2>2, <2>3 DEF StartDraw, surfaceVars, Steps
<1>7. ASSUME EmitElements \/ EmitRegisters PROVE TypeOK'
  BY <1>7 DEF EmitElements, EmitRegisters, Emit, Written, pipeVars, surfaceVars, Steps, Programs
<1>8. ASSUME NEW p \in Programs, UploadShader(p) \/ UpdateUniforms(p) PROVE TypeOK'
  <2>1. at' \in Steps /\ dirty' \in SUBSET Flags
    BY <1>8, NextStep DEF UploadShader, UpdateUniforms, Advance
  <2>2. DOMAIN shadow' = Files /\ DOMAIN live' = Files /\ DOMAIN replay' = Files
    BY <1>8 DEF UploadShader, UpdateUniforms
  <2>3. QED BY <1>8, <2>1, <2>2 DEF UploadShader, UpdateUniforms, surfaceVars
<1>9. CASE EndDraw
  BY <1>9 DEF EndDraw, pipeVars, surfaceVars, gpuVars, Steps
<1>10. ASSUME NEW l \in Levels, StartResolve(l) PROVE TypeOK'
  BY <1>10 DEF StartResolve, Overlay, surfaceVars, Flags
<1>11. CASE EndResolve
  BY <1>11 DEF EndResolve, FlushEffect, ContextImage, pipeVars, surfaceVars, Steps
<1>12. CASE UNCHANGED vars
  BY <1>12 DEF vars, pipeVars, surfaceVars, gpuVars
<1>13. QED
  BY <1>1, <1>2, <1>3, <1>4, <1>5, <1>6, <1>7, <1>8, <1>9, <1>10, <1>11, <1>12, ChangingAssumption
     DEF Next, SetState, Draw, Resolve

\* Every reachable state is well typed.
THEOREM TypeCorrect == Spec => []TypeOK
<1>1. QED BY TypeInit, TypePreserved, PTL DEF Spec

-----------------------------------------------------------------------------
(* Clears. *)

\* Applications do not draw to several layers of a level, and no two surfaces
\* share the tile status of a level.
OneLayer ==
  /\ "layers" \notin Practices
  /\ \A s, t \in Surfaces : LevelOf[s] = LevelOf[t] /\ LevelOf[s] \in TsLevels => s = t

\* The clear value of a level is what its surface was last cleared to, and what
\* the clear command of the surface was made for.
ClearInv ==
  /\ \A s, t \in surfaces : LevelOf[s] = LevelOf[t] => s = t
  /\ \A s \in Surfaces :
       IF LevelOf[s] \in TsLevels THEN asked[s] = clear_value[LevelOf[s]]
       ELSE /\ memory[s] = asked[s]
            /\ s \in surfaces => command[s] = clear_value[LevelOf[s]]
  /\ LevelOf[fb.surface] \in TsLevels =>
       fb.ts_color = << LevelOf[fb.surface], clear_value[LevelOf[fb.surface]] >>

LEMMA ClearInit == Init => ClearInv
<1> SUFFICES ASSUME Init PROVE ClearInv
  OBVIOUS
<1>1. PICK s \in Surfaces, c \in Colors :
        /\ surfaces = {s}
        /\ command = [t \in Surfaces |-> c] /\ clear_value = [l \in Levels |-> c]
        /\ asked = [t \in Surfaces |-> c] /\ memory = [t \in Surfaces |-> c]
        /\ fb.surface = s /\ fb.ts_color = << LevelOf[s], c >>
  BY DEF Init
<1>2. \A t \in Surfaces : LevelOf[t] \in Levels
  BY SurfacesAssumption
<1>3. QED BY <1>1, <1>2 DEF ClearInv

LEMMA ClearPreserved ==
  ASSUME OneLayer, TypeOK, ClearInv, [Next]_vars
  PROVE  ClearInv'
<1>1. \A s \in Surfaces : LevelOf[s] \in Levels
  BY SurfacesAssumption
<1>2. ASSUME NEW s \in Slots, NEW v \in Values, Bind(s, v) PROVE ClearInv'
  BY <1>2 DEF Bind, surfaceVars, ClearInv
<1>3. ASSUME NEW s \in Surfaces, SetFramebuffer(s) PROVE ClearInv'
  <2>1. LevelOf[s] \in TsLevels => fb'.ts_color = << LevelOf[s], clear_value[LevelOf[s]] >>
    BY <1>3 DEF SetFramebuffer
  <2>2. fb'.surface = s
    BY <1>3 DEF SetFramebuffer
  <2>3. QED BY <1>3, <2>1, <2>2 DEF SetFramebuffer, surfaceVars, ClearInv
<1>4. ASSUME NEW s \in Surfaces, CreateSurface(s) PROVE ClearInv'
  <2>1. /\ surfaces' = surfaces \union {s} /\ \A t \in surfaces : LevelOf[t] # LevelOf[s]
        /\ command' = [command EXCEPT ![s] = clear_value[LevelOf[s]]]
        /\ UNCHANGED << fb, clear_value, asked, memory >>
    BY <1>4 DEF CreateSurface, OneLayer, pipeVars
  <2>2. command \in [Surfaces -> Colors] /\ surfaces \subseteq Surfaces
    BY DEF TypeOK
  <2>3. QED BY <2>1, <2>2 DEF ClearInv
<1>5. ASSUME NEW s \in Surfaces, DestroySurface(s) PROVE ClearInv'
  BY <1>5 DEF DestroySurface, pipeVars, ClearInv
<1>6. ASSUME NEW c \in Colors, Clear(c) PROVE ClearInv'
  <2> DEFINE f == fb.surface
             l == LevelOf[f]
  <2>1. /\ f \in Surfaces /\ f \in surfaces /\ surfaces \subseteq Surfaces /\ l \in Levels
        /\ clear_value \in [Levels -> Colors] /\ asked \in [Surfaces -> Colors]
        /\ command \in [Surfaces -> Colors] /\ memory \in [Surfaces -> Colors]
    BY <1>1 DEF TypeOK
  <2>2. /\ clear_value' = [clear_value EXCEPT ![l] = c] /\ asked' = [asked EXCEPT ![f] = c]
        /\ surfaces' = surfaces
    BY <1>6 DEF Clear
  <2>3. fb'.surface = f /\ (l \in TsLevels => fb'.ts_color = << l, c >>)
    <3>1. CASE l \in TsLevels
      <4>1. fb' = [fb EXCEPT !.ts_color = << l, c >>, !.ts_mode = "auto"]
        BY <1>6, <3>1 DEF Clear
      <4>2. QED BY <4>1 DEF TypeOK
    <3>2. CASE l \notin TsLevels
      BY <1>6, <3>2 DEF Clear
    <3>3. QED BY <3>1, <3>2
  <2>4. l \in TsLevels => command' = command /\ memory' = memory
    BY <1>6 DEF Clear
  <2>5. l \notin TsLevels =>
          /\ command' = IF c # clear_value[l] THEN [command EXCEPT ![f] = c] ELSE command
          /\ memory' = [memory EXCEPT ![f] = command'[f]]
    BY <1>6 DEF Clear
  <2> HIDE DEF f, l
  <2>6. l = LevelOf[f] /\ f = fb.surface
    BY DEF f, l
  <2>7. \A s, t \in surfaces' : LevelOf[s] = LevelOf[t] => s = t
    BY <2>2 DEF ClearInv
  <2>8. ASSUME NEW s \in Surfaces
        PROVE  IF LevelOf[s] \in TsLevels THEN asked'[s] = clear_value'[LevelOf[s]]
               ELSE /\ memory'[s] = asked'[s]
                    /\ s \in surfaces' => command'[s] = clear_value'[LevelOf[s]]
    <3>1. CASE s = f
      BY <2>1, <2>2, <2>4, <2>5, <2>6, <3>1 DEF ClearInv
    <3>2. CASE s # f
      <4>1. LevelOf[s] = l => s \notin surfaces /\ l \notin TsLevels
        BY <2>1, <2>6, <3>2 DEF ClearInv, OneLayer
      <4>2. asked'[s] = asked[s] /\ memory'[s] = memory[s] /\ command'[s] = command[s]
        BY <2>1, <2>2, <2>4, <2>5, <3>2
      <4>3. LevelOf[s] # l => clear_value'[LevelOf[s]] = clear_value[LevelOf[s]]
        BY <1>1, <2>1, <2>2
      <4>4. QED BY <2>2, <4>1, <4>2, <4>3 DEF ClearInv
    <3>3. QED BY <3>1, <3>2
  <2>9. clear_value'[l] = c
    BY <2>1, <2>2
  <2>10. QED BY <2>3, <2>6, <2>7, <2>8, <2>9 DEF ClearInv
<1>7. CASE UNCHANGED << fb, surfaceVars >>
  BY <1>7 DEF surfaceVars, ClearInv
<1>8. ASSUME Draw \/ Resolve \/ Flush \/ UNCHANGED vars PROVE UNCHANGED << fb, surfaceVars >>
  BY <1>8 DEF Draw, Resolve, Flush, StartDraw, EmitElements, EmitRegisters, UploadShader,
              UpdateUniforms, EndDraw, StartResolve, EndResolve, vars, pipeVars
<1>9. QED BY <1>2, <1>3, <1>4, <1>5, <1>6, <1>7, <1>8, ChangingAssumption DEF Next, SetState

\* A clear leaves the colour it was asked for, for applications that draw to one
\* layer of a level at a time.
THEOREM ClearsKept == OneLayer /\ Spec => []ClearsRight
<1>1. TypeOK /\ ClearInv => ClearsRight
  BY DEF TypeOK, ClearInv, ClearsRight
<1>2. OneLayer /\ TypeOK /\ ClearInv /\ [Next]_vars => ClearInv'
  BY ClearPreserved
<1>3. CASE OneLayer
  BY <1>1, <1>2, <1>3, ClearInit, TypeCorrect, PTL DEF Spec
<1>4. CASE ~OneLayer
  BY <1>4, PTL
<1>5. QED BY <1>3, <1>4

-----------------------------------------------------------------------------
(* The shadow and the registers. *)

SampleConfig == "GL_MULTI_SAMPLE_CONFIG"
Multisampled == LevelOf[fb.surface] \in MsaaLevels

\* A sampler register is written only for a sampler in use: as many samplers as
\* views must be bound.
Needed(r) ==
  r = "TE_SAMPLER_SIZE_2" => "samplers" \notin Practices /\ bound["sampler_views"] > 1

\* A register none of whose flags is up has the bound state in its shadow, and so
\* has every register once sync_context has written them.
ShadowFresh ==
  \A r \in Registers :
    Needed(r) /\ (FlagsOf(r) \intersect dirty = {} \/ at \in Programs) => shadow[r] = Woven(r)

\* sync_context knows when the number of samples is about to change, and makes
\* the registers the GPU will spoil look different.
SamplesKnown ==
  /\ "framebuffer" \notin dirty => (Msaa(shadow[SampleConfig]) <=> Multisampled)
  /\ at \in {"elements", "registers"} /\ (Msaa(shadow[SampleConfig]) <=> ~Multisampled) =>
       \A r \in MsaaClobbers : shadow[r] = Clobbered

\* Both register files are as the shadow says, but for the registers made to look
\* different and not written yet.
Doubted(r) ==
  /\ at \in {"elements", "registers"} /\ r \in MsaaClobbers
  /\ Msaa(shadow[SampleConfig]) <=> ~Multisampled
FilesFollow ==
  \A r \in Registers : Doubted(r) \/ (live[r] = shadow[r] /\ replay[r] = shadow[r])

DrawInv ==
  /\ at = "draw" => dirty = {}
  /\ at \in Steps \ {"idle"} /\ "samplers" \notin Practices =>
       bound["samplers"] = bound["sampler_views"]
  /\ at = "registers" => shadow["FE_VERTEX_ELEMENT_CONFIG"] = Woven("FE_VERTEX_ELEMENT_CONFIG")

RegisterInv == ShadowFresh /\ SamplesKnown /\ FilesFollow /\ DrawInv

\* What a register is woven from stays if its states stay.
LEMMA WovenKept ==
  ASSUME NEW r \in Registers,
         \A s \in Plain \intersect SourcesOf(r) : bound'[s] = bound[s],
         "surface" \in SourcesOf(r) => fb'.surface = fb.surface,
         "ts_mode" \in SourcesOf(r) => fb'.ts_mode = fb.ts_mode,
         "ts_color" \in SourcesOf(r) => fb'.ts_color = fb.ts_color,
         "link" \in SourcesOf(r) => linked'.vs = linked.vs /\ linked'.fs = linked.fs,
         "temps" \in SourcesOf(r) => linked'.fs = linked.fs /\ fb'.surface = fb.surface
  PROVE  Woven(r)' = Woven(r)
<1>1. ASSUME NEW s \in SourcesOf(r) PROVE Source(s)' = Source(s)
  <2>1. s \in Plain \union {"surface", "ts_mode", "ts_color", "link", "temps"}
    BY TableFacts
  <2>2. CASE s \in {"surface", "ts_mode", "ts_color", "link", "temps"}
    BY <2>2 DEF Source
  <2>3. CASE s \in Plain /\ s \notin {"surface", "ts_mode", "ts_color", "link", "temps"}
    <3>1. Source(s) = bound[s] /\ Source(s)' = bound'[s]
      BY <2>3 DEF Source
    <3>2. QED BY <2>3, <3>1
  <2>4. QED BY <2>1, <2>2, <2>3
<1>2. Table[r].sources = SourcesOf(r)
  BY DEF SourcesOf
<1>3. QED BY <1>1, <1>2, Zenon DEF Woven

\* A call that changes state raises the flags of what it changes.
LEMMA CallKeeps ==
  ASSUME TypeOK, RegisterInv, at = "idle", at' = "idle", UNCHANGED shadow,
         \A r \in Registers : live'[r] = live[r] /\ replay'[r] = replay[r],
         dirty \subseteq dirty',
         \A r \in Registers : FlagsOf(r) \intersect dirty' = {} => Woven(r)' = Woven(r),
         "sampler_views" \notin dirty' => bound'["sampler_views"] = bound["sampler_views"],
         "framebuffer" \notin dirty' => fb'.surface = fb.surface
  PROVE  RegisterInv'
<1>1. ShadowFresh'
  <2> SUFFICES ASSUME NEW r \in Registers, Needed(r)', FlagsOf(r) \intersect dirty' = {}
               PROVE  shadow[r] = Woven(r)'
    BY DEF ShadowFresh, Programs
  <2>1. FlagsOf(r) \intersect dirty = {}
    OBVIOUS
  <2>2. Needed(r)
    BY SpecialRows DEF Needed
  <2>3. QED BY <2>1, <2>2 DEF RegisterInv, ShadowFresh
<1>2. SamplesKnown'
  BY DEF RegisterInv, SamplesKnown, Msaa, Multisampled
<1>3. FilesFollow'
  BY DEF RegisterInv, FilesFollow, Doubted
<1>4. DrawInv'
  BY DEF DrawInv
<1>5. QED BY <1>1, <1>2, <1>3, <1>4 DEF RegisterInv

LEMMA BindKeeps ==
  ASSUME TypeOK, RegisterInv, NEW slot \in Slots, NEW v \in Values, Bind(slot, v)
  PROVE  RegisterInv'
<1>1. /\ at = "idle" /\ at' = "idle" /\ UNCHANGED << shadow, live, replay, fb >>
      /\ bound' = [bound EXCEPT ![slot] = v] /\ dirty' = dirty \union Raised(slot)
      /\ linked' = IF slot \in Constants THEN [linked EXCEPT ![slot] = v] ELSE linked
  BY DEF Bind, Call, gpuVars
<1>2. linked'.vs = linked.vs /\ linked'.fs = linked.fs
  BY <1>1 DEF Constants, TypeOK
<1>3. \A s \in Plain : s \notin Raised(slot) => bound'[s] = bound[s]
  <2>1. slot \in Plain => Raised(slot) = {slot}
    BY DEF Raised, Plain
  <2>2. Plain \subseteq Slots
    BY DEF Slots
  <2>3. QED BY <1>1, <2>1, <2>2 DEF TypeOK
<1>4. ASSUME NEW r \in Registers, FlagsOf(r) \intersect dirty' = {} PROVE Woven(r)' = Woven(r)
  <2>1. \A s \in Plain \intersect SourcesOf(r) : bound'[s] = bound[s]
    BY <1>1, <1>3, <1>4, TableFacts
  <2>2. QED BY <1>1, <1>2, <2>1, WovenKept
<1>5. "sampler_views" \notin dirty' => bound'["sampler_views"] = bound["sampler_views"]
  BY <1>1, <1>3 DEF Plain
<1>6. dirty \subseteq dirty'
  BY <1>1
<1>7. QED BY <1>1, <1>4, <1>5, <1>6, CallKeeps

LEMMA FramebufferKeeps ==
  ASSUME TypeOK, RegisterInv,
         (\E s \in Surfaces : SetFramebuffer(s)) \/ (\E c \in Colors : Clear(c))
  PROVE  RegisterInv'
<1>1. /\ at = "idle" /\ at' = "idle" /\ UNCHANGED << shadow, bound, linked >>
      /\ dirty \subseteq dirty' /\ \A r \in Registers : live'[r] = live[r] /\ replay'[r] = replay[r]
  BY ClearWrites DEF SetFramebuffer, Clear, Call, gpuVars
<1>2. \/ "framebuffer" \in dirty'
      \/ "ts" \in dirty' /\ fb'.surface = fb.surface
      \/ fb' = fb
  <2>1. ASSUME NEW s \in Surfaces, SetFramebuffer(s) PROVE "framebuffer" \in dirty'
    BY <2>1 DEF SetFramebuffer
  <2>2. ASSUME NEW c \in Colors, Clear(c), LevelOf[fb.surface] \in TsLevels
        PROVE  "ts" \in dirty' /\ fb'.surface = fb.surface
    <3>1. fb' = [fb EXCEPT !.ts_color = << LevelOf[fb.surface], c >>, !.ts_mode = "auto"]
      BY <2>2 DEF Clear
    <3>2. QED BY <2>2, <3>1 DEF Clear, TypeOK
  <2>3. ASSUME NEW c \in Colors, Clear(c), LevelOf[fb.surface] \notin TsLevels PROVE fb' = fb
    BY <2>3 DEF Clear
  <2>4. QED BY <2>1, <2>2, <2>3
<1>3. ASSUME NEW r \in Registers, FlagsOf(r) \intersect dirty' = {} PROVE Woven(r)' = Woven(r)
  BY <1>1, <1>2, <1>3, TableFacts, WovenKept
<1>4. QED BY <1>1, <1>2, <1>3, CallKeeps

LEMMA SurfaceKeeps ==
  ASSUME RegisterInv,
         (\E s \in Surfaces : CreateSurface(s) \/ DestroySurface(s)) \/ EndDraw \/ UNCHANGED vars
  PROVE  RegisterInv'
<1>1. UNCHANGED << pipeVars, gpuVars >> /\ (at' = at \/ (at = "draw" /\ at' = "idle"))
  BY DEF CreateSurface, DestroySurface, EndDraw, Call, vars
<1>2. \A r : Woven(r)' = Woven(r) /\ (Needed(r)' <=> Needed(r))
  BY <1>1 DEF Woven, Source, Needed, pipeVars
<1>3. ShadowFresh'
  BY <1>1, <1>2 DEF RegisterInv, ShadowFresh, pipeVars, gpuVars, Programs
<1>4. SamplesKnown' /\ FilesFollow'
  BY <1>1 DEF RegisterInv, SamplesKnown, FilesFollow, Doubted, Msaa, Multisampled, pipeVars, gpuVars
<1>5. DrawInv'
  BY <1>1, <1>2 DEF RegisterInv, DrawInv, pipeVars, gpuVars
<1>6. QED BY <1>3, <1>4, <1>5 DEF RegisterInv

LEMMA RegisterInit == Init => RegisterInv
<1> SUFFICES ASSUME Init PROVE RegisterInv
  OBVIOUS
<1>1. /\ at = "idle" /\ dirty = Flags /\ live = shadow /\ replay = shadow
      /\ "framebuffer" \in dirty
  BY DEF Init, Flags
<1>2. ASSUME NEW r \in Registers PROVE FlagsOf(r) \intersect dirty # {}
  <2>1. \/ "framebuffer" \in FlagsOf(r) \/ "shader" \in FlagsOf(r) \/ "rasterizer" \in FlagsOf(r)
        \/ "vertex_elements" \in FlagsOf(r) \/ "vertex_buffers" \in FlagsOf(r)
        \/ "index_buffer" \in FlagsOf(r) \/ "viewport" \in FlagsOf(r) \/ "dsa" \in FlagsOf(r)
        \/ "stencil_ref" \in FlagsOf(r) \/ "blend_color" \in FlagsOf(r) \/ "blend" \in FlagsOf(r)
        \/ "sampler_views" \in FlagsOf(r)
    BY DEF Registers, Table, Row, FlagsOf
  <2>2. QED BY <1>1, <2>1, TableFacts
<1>3. ShadowFresh
  BY <1>1, <1>2 DEF ShadowFresh, Programs
<1>4. SamplesKnown /\ FilesFollow /\ DrawInv
  BY <1>1 DEF SamplesKnown, FilesFollow, DrawInv
<1>5. QED BY <1>3, <1>4 DEF RegisterInv

\* The samples configured are those of the bound surface.
LEMMA WovenSample ==
  ASSUME TypeOK
  PROVE  Msaa(Woven(SampleConfig)) <=> Multisampled
<1>1. Woven(SampleConfig) = [s \in {"surface", "sample_mask"} |-> Source(s)]
  BY SpecialRows DEF Woven, SourcesOf, SampleConfig
<1>2. Source("surface") = fb.surface /\ Source("sample_mask") = bound["sample_mask"]
  BY DEF Source
<1>3. fb.surface \in Surfaces /\ bound["sample_mask"] \in Values
  BY DEF TypeOK, Slots, Plain
<1>4. \A s \in {"surface", "sample_mask"} : Source(s) \in Surfaces \union Values
  BY <1>2, <1>3
<1>5. Woven(SampleConfig) \in [{"surface", "sample_mask"} -> Surfaces \union Values]
  BY <1>1, <1>4
<1>6. Woven(SampleConfig) # Reset
  BY <1>5, NamesAssumption
<1>7. Woven(SampleConfig)["surface"] = fb.surface
  BY <1>1, <1>2
<1>8. QED BY <1>6, <1>7 DEF Msaa, Multisampled

LEMMA FlushKeeps ==
  ASSUME TypeOK, RegisterInv, Flush \/ EndResolve
  PROVE  RegisterInv'
<1>1. /\ UNCHANGED << pipeVars, shadow >> /\ (live' = live \/ live' = replay) /\ replay' = shadow
      /\ at' = at \/ (at' = "idle" /\ at \in Levels)
  BY DEF Flush, EndResolve, FlushEffect, ContextImage
<1>2. \A r : Woven(r)' = Woven(r) /\ (Needed(r)' <=> Needed(r))
  BY <1>1 DEF Woven, Source, Needed, pipeVars
<1>3. ShadowFresh'
  BY <1>1, <1>2 DEF RegisterInv, ShadowFresh, pipeVars, Programs
<1>4. SamplesKnown'
  BY <1>1 DEF RegisterInv, SamplesKnown, Msaa, Multisampled, pipeVars
<1>5. FilesFollow'
  <2>1. at \in Levels => at \notin {"elements", "registers"}
    BY NamesAssumption DEF Steps
  <2>2. \A r : Doubted(r) <=> Doubted(r)'
    BY <1>1, <2>1 DEF Doubted, Msaa, Multisampled, pipeVars
  <2>3. QED BY <1>1, <2>2 DEF RegisterInv, FilesFollow
<1>6. DrawInv'
  BY <1>1, <1>2 DEF RegisterInv, DrawInv, pipeVars
<1>7. QED BY <1>3, <1>4, <1>5, <1>6 DEF RegisterInv

LEMMA StartDrawKeeps ==
  ASSUME TypeOK, RegisterInv, StartDraw
  PROVE  RegisterInv'
<1>1. /\ at = "idle" /\ at' = "elements" /\ UNCHANGED << bound, fb, dirty, live, replay >>
      /\ "shader" \notin dirty => linked' = linked
      /\ "samplers" \notin Practices => bound["samplers"] = bound["sampler_views"]
  BY DEF StartDraw
<1> DEFINE Spoils == "framebuffer" \in dirty /\ (Msaa(shadow[SampleConfig]) <=> ~Multisampled)
<1>2. shadow' = IF Spoils THEN [f \in Files |-> IF f \in MsaaClobbers THEN Clobbered ELSE shadow[f]]
                ELSE shadow
  BY DEF StartDraw, Msaa, Multisampled, SampleConfig
<1> HIDE DEF Spoils
<1>3. \A r \in Registers : r \notin MsaaClobbers => shadow'[r] = shadow[r]
  BY <1>2, Names
<1>4. shadow'[SampleConfig] = shadow[SampleConfig]
  BY <1>3, Names DEF SampleConfig
<1>5. ShadowFresh'
  <2> SUFFICES ASSUME NEW r \in Registers, Needed(r)', FlagsOf(r) \intersect dirty = {}
               PROVE  shadow'[r] = Woven(r)'
    BY <1>1 DEF ShadowFresh, Programs
  <2>1. shadow'[r] = shadow[r]
    BY <1>2, <1>3, TableFacts DEF Spoils
  <2>2. Woven(r)' = Woven(r)
    BY <1>1, TableFacts, WovenKept
  <2>3. Needed(r)
    BY <1>1 DEF Needed
  <2>4. QED BY <2>1, <2>2, <2>3 DEF RegisterInv, ShadowFresh
<1>6. Multisampled' <=> Multisampled
  BY <1>1 DEF Multisampled
<1>7. Msaa(shadow[SampleConfig])' <=> Msaa(shadow[SampleConfig])
  BY <1>4 DEF Msaa
<1>8. (Msaa(shadow[SampleConfig]) <=> ~Multisampled) => Spoils
  BY DEF RegisterInv, SamplesKnown, Spoils
<1>9. Spoils => \A r \in MsaaClobbers : shadow'[r] = Clobbered
  BY <1>2, Names
<1>10. SamplesKnown'
  BY <1>1, <1>6, <1>7, <1>8, <1>9 DEF RegisterInv, SamplesKnown
<1>11. FilesFollow'
  <2> SUFFICES ASSUME NEW r \in Registers, ~Doubted(r)'
               PROVE  live'[r] = shadow'[r] /\ replay'[r] = shadow'[r]
    BY DEF FilesFollow
  <2>1. r \notin MsaaClobbers \/ ~Spoils
    BY <1>1, <1>6, <1>7 DEF Doubted, Spoils
  <2>2. shadow'[r] = shadow[r]
    BY <1>2, <1>3, <2>1
  <2>3. QED BY <1>1, <2>2 DEF RegisterInv, FilesFollow, Doubted
<1>12. DrawInv'
  BY <1>1 DEF DrawInv
<1>13. QED BY <1>5, <1>10, <1>11, <1>12 DEF RegisterInv

LEMMA ElementsKeep ==
  ASSUME TypeOK, RegisterInv, EmitElements
  PROVE  RegisterInv'
<1> DEFINE element == "FE_VERTEX_ELEMENT_CONFIG"
           regs == {r \in {element} : Stale(r)}
<1>1. /\ at = "elements" /\ at' = "registers" /\ UNCHANGED << bound, fb, dirty, linked >>
      /\ live' = Written(live, regs) /\ replay' = Written(replay, regs)
      /\ shadow' = [f \in Files |-> IF f \in regs THEN Woven(f) ELSE shadow[f]]
  BY DEF EmitElements, Emit, pipeVars
<1>2. \A r : Woven(r)' = Woven(r) /\ (Needed(r)' <=> Needed(r))
  BY <1>1 DEF Woven, Source, Needed
<1>3. regs \subseteq {element} /\ "GL_MULTI_SAMPLE_CONFIG" \notin regs /\ regs \intersect MsaaClobbers = {}
  BY DEF MsaaClobbers
<1>4. regs # {} <=> FlagsOf(element) \intersect dirty # {} /\ shadow[element] # Woven(element)
  BY DEF Stale, FlagsOf
<1>5. element \in Registers \ MsaaClobbers
  BY Names
<1> HIDE DEF regs
<1>6. ASSUME NEW r \in Registers
      PROVE  /\ r \in regs => shadow'[r] = Woven(r) /\ live'[r] = Woven(r) /\ replay'[r] = Woven(r)
             /\ r \notin regs => shadow'[r] = shadow[r] /\ live'[r] = live[r] /\ replay'[r] = replay[r]
  BY <1>1, <1>3, Names DEF Written
<1>7. ShadowFresh'
  BY <1>1, <1>2, <1>6 DEF RegisterInv, ShadowFresh, Programs
<1>8. shadow'[SampleConfig] = shadow[SampleConfig] /\ \A r \in MsaaClobbers : shadow'[r] = shadow[r]
  BY <1>3, <1>6, Names DEF SampleConfig
<1>9. (Multisampled' <=> Multisampled) /\ (Msaa(shadow[SampleConfig])' <=> Msaa(shadow[SampleConfig]))
  BY <1>1, <1>8 DEF Multisampled, Msaa
<1>10. SamplesKnown'
  BY <1>1, <1>8, <1>9 DEF RegisterInv, SamplesKnown
<1>11. FilesFollow'
  <2>1. ASSUME NEW r \in Registers PROVE Doubted(r) => Doubted(r)'
    BY <1>1, <1>9 DEF Doubted
  <2>2. QED BY <1>6, <2>1 DEF RegisterInv, FilesFollow
<1>12. DrawInv'
  <2>1. shadow'[element] = Woven(element)
    <3>1. CASE element \in regs
      BY <1>5, <1>6, <3>1
    <3>2. CASE element \notin regs
      <4>1. shadow'[element] = shadow[element]
        BY <1>5, <1>6, <3>2
      <4>2. regs = {}
        BY <1>3, <3>2
      <4>3. FlagsOf(element) \intersect dirty = {} => shadow[element] = Woven(element)
        BY <1>5 DEF RegisterInv, ShadowFresh, Needed
      <4>4. QED BY <1>4, <4>1, <4>2, <4>3
    <3>3. QED BY <3>1, <3>2
  <2>2. QED BY <1>1, <1>2, <2>1 DEF RegisterInv, DrawInv, Steps
<1>13. QED BY <1>7, <1>10, <1>11, <1>12 DEF RegisterInv

LEMMA RegistersKeep ==
  ASSUME TypeOK, RegisterInv, EmitRegisters
  PROVE  RegisterInv'
<1> DEFINE element == "FE_VERTEX_ELEMENT_CONFIG"
           regs == {r \in Registers \ {element} : Stale(r) /\ Used(r)}
<1>1. /\ at = "registers" /\ at' = "VS_INST_MEM" /\ UNCHANGED << bound, fb, dirty, linked >>
      /\ live' = Written(live, regs) /\ replay' = Written(replay, regs)
      /\ shadow' = [f \in Files |-> IF f \in regs THEN Woven(f) ELSE shadow[f]]
  BY DEF EmitRegisters, Emit, pipeVars
<1>2. \A r : Woven(r)' = Woven(r) /\ (Needed(r)' <=> Needed(r))
  BY <1>1 DEF Woven, Source, Needed
<1>3. ASSUME NEW r \in Registers, r # element
      PROVE  r \in regs <=> (FlagsOf(r) \intersect dirty # {} /\ shadow[r] # Woven(r) /\ Used(r))
  BY <1>3 DEF Stale, FlagsOf
<1>4. SampleConfig \in Registers /\ SampleConfig # element /\ SampleConfig \notin MsaaClobbers
  BY Names DEF SampleConfig
<1>5. element \notin regs
  OBVIOUS
<1> HIDE DEF regs
<1>6. ASSUME NEW r \in Registers PROVE shadow'[r] = IF r \in regs THEN Woven(r) ELSE shadow[r]
  BY <1>1, Names
<1>7. ASSUME NEW r \in Registers, Needed(r) PROVE shadow'[r] = Woven(r)
  <2>1. CASE r = element
    BY <1>1, <1>5, <1>6, <2>1 DEF RegisterInv, DrawInv
  <2>2. CASE r # element
    <3>1. Used(r)
      <4>1. "samplers" \notin Practices => bound["samplers"] = bound["sampler_views"]
        BY <1>1 DEF RegisterInv, DrawInv, Steps
      <4>2. QED BY <1>7, <4>1 DEF Used, Needed, Active
    <3>2. FlagsOf(r) \intersect dirty = {} => shadow[r] = Woven(r)
      BY <1>7 DEF RegisterInv, ShadowFresh
    <3>3. QED BY <1>3, <1>6, <2>2, <3>1, <3>2
  <2>3. QED BY <2>1, <2>2
<1>8. ShadowFresh'
  BY <1>1, <1>2, <1>7 DEF ShadowFresh
<1>9. SamplesKnown'
  <2>1. shadow'[SampleConfig] = Woven(SampleConfig)
    BY <1>4, <1>7 DEF Needed, SampleConfig
  <2>2. Msaa(shadow'[SampleConfig]) <=> Multisampled
    BY <2>1, WovenSample
  <2>3. (Multisampled' <=> Multisampled) /\ (Msaa(shadow[SampleConfig])' <=> Msaa(shadow'[SampleConfig]))
    BY <1>1 DEF Multisampled, Msaa
  <2>4. QED BY <1>1, <2>2, <2>3 DEF SamplesKnown
<1>10. ASSUME NEW r \in MsaaClobbers, Msaa(shadow[SampleConfig]) <=> ~Multisampled, r \notin regs
       PROVE  shadow[r] = Clobbered /\ SampleConfig \in regs
  <2>1. "framebuffer" \in dirty /\ shadow[r] = Clobbered
    BY <1>1, <1>10 DEF RegisterInv, SamplesKnown
  <2>2. shadow[SampleConfig] # Woven(SampleConfig)
    BY <1>10, WovenSample
  <2>3. FlagsOf(SampleConfig) \intersect dirty # {} /\ Used(SampleConfig)
    BY <2>1, SpecialRows DEF Used, SampleConfig
  <2>4. QED BY <1>3, <1>4, <2>1, <2>2, <2>3
<1>11. ASSUME NEW file, NEW r \in Registers,
              file[SampleConfig] = shadow[SampleConfig], Doubted(r) \/ file[r] = shadow[r]
       PROVE  Written(file, regs)[r] = shadow'[r]
  <2>1. r \in Files
    BY Names
  <2>2. CASE r \in regs
    BY <1>6, <2>1, <2>2 DEF Written
  <2>3. CASE r \notin regs
    <3>1. shadow'[r] = shadow[r]
      BY <1>6, <2>3
    <3>2. Msaa(file[SampleConfig]) <=> Msaa(shadow[SampleConfig])
      BY <1>11 DEF Msaa
    <3>3. CASE r \in MsaaClobbers /\ (Msaa(shadow[SampleConfig]) <=> ~Multisampled)
      <4>1. shadow[r] = Clobbered /\ "GL_MULTI_SAMPLE_CONFIG" \in regs
        BY <1>10, <2>3, <3>3 DEF SampleConfig
      <4>2. Msaa(Woven("GL_MULTI_SAMPLE_CONFIG")) # Msaa(file["GL_MULTI_SAMPLE_CONFIG"])
        BY <3>2, <3>3, WovenSample DEF SampleConfig
      <4>3. Written(file, regs)[r] = Clobbered
        BY <2>1, <2>3, <3>3, <4>1, <4>2 DEF Written
      <4>4. QED BY <3>1, <4>1, <4>3
    <3>4. CASE r \in MsaaClobbers /\ (Msaa(shadow[SampleConfig]) <=> Multisampled)
      <4>1. Msaa(Woven("GL_MULTI_SAMPLE_CONFIG")) = Msaa(file["GL_MULTI_SAMPLE_CONFIG"])
        <5>1. Msaa(Woven("GL_MULTI_SAMPLE_CONFIG")) <=> Msaa(file["GL_MULTI_SAMPLE_CONFIG"])
          BY <3>2, <3>4, WovenSample DEF SampleConfig
        <5>2. QED BY <5>1 DEF Msaa
      <4>2. Written(file, regs)[r] = file[r]
        BY <2>1, <2>3, <4>1 DEF Written
      <4>3. ~Doubted(r)
        BY <3>4 DEF Doubted
      <4>4. QED BY <1>11, <3>1, <4>2, <4>3
    <3>5. CASE r \notin MsaaClobbers
      BY <1>11, <2>1, <2>3, <3>1, <3>5 DEF Written, Doubted
    <3>6. QED BY <3>3, <3>4, <3>5
  <2>4. QED BY <2>2, <2>3
<1>12. FilesFollow'
  <2>1. live[SampleConfig] = shadow[SampleConfig] /\ replay[SampleConfig] = shadow[SampleConfig]
    BY <1>4 DEF RegisterInv, FilesFollow, Doubted
  <2>2. ASSUME NEW r \in Registers PROVE live'[r] = shadow'[r] /\ replay'[r] = shadow'[r]
    BY <1>1, <1>11, <2>1 DEF RegisterInv, FilesFollow
  <2>3. QED BY <2>2 DEF FilesFollow
<1>13. DrawInv'
  BY <1>1 DEF RegisterInv, DrawInv, Steps
<1>14. QED BY <1>8, <1>9, <1>12, <1>13 DEF RegisterInv

LEMMA ShaderKeeps ==
  ASSUME TypeOK, RegisterInv, NEW p \in Programs, UploadShader(p) \/ UpdateUniforms(p)
  PROVE  RegisterInv'
<1>1. /\ at = p /\ at' = After(p) /\ UNCHANGED << bound, fb, linked >>
      /\ dirty' = IF After(p) = "draw" THEN {} ELSE dirty
  BY DEF UploadShader, UpdateUniforms, Advance
<1>2. ASSUME NEW r \in Registers
      PROVE  shadow'[r] = shadow[r] /\ live'[r] = live[r] /\ replay'[r] = replay[r]
  <2>1. r \in Files /\ r \notin Programs
    BY Names
  <2>2. QED BY <2>1 DEF UploadShader, UpdateUniforms, TypeOK
<1>3. \A r : Woven(r)' = Woven(r) /\ (Needed(r)' <=> Needed(r))
  BY <1>1 DEF Woven, Source, Needed
<1>4. \A r \in Registers : Needed(r) => shadow[r] = Woven(r)
  BY <1>1 DEF RegisterInv, ShadowFresh
<1>5. ShadowFresh'
  BY <1>2, <1>3, <1>4 DEF ShadowFresh
<1>6. at' \in Steps \ {"idle", "elements", "registers"}
  BY <1>1, NextStep
<1>7. SamplesKnown'
  <2>1. shadow'[SampleConfig] = Woven(SampleConfig)
    BY <1>2, <1>4, Names DEF SampleConfig, Needed
  <2>2. Msaa(shadow'[SampleConfig]) <=> Multisampled
    BY <2>1, WovenSample
  <2>3. (Multisampled' <=> Multisampled) /\ (Msaa(shadow[SampleConfig])' <=> Msaa(shadow'[SampleConfig]))
    BY <1>1 DEF Multisampled, Msaa
  <2>4. QED BY <1>6, <2>2, <2>3 DEF SamplesKnown
<1>8. FilesFollow'
  BY <1>1, <1>2 DEF RegisterInv, FilesFollow, Doubted, Programs
<1>9. DrawInv'
  BY <1>1, <1>6 DEF RegisterInv, DrawInv, Steps, Programs
<1>10. QED BY <1>5, <1>7, <1>8, <1>9 DEF RegisterInv

LEMMA ResolveKeeps ==
  ASSUME TypeOK, RegisterInv, NEW l \in Levels, StartResolve(l)
  PROVE  RegisterInv'
<1>1. /\ at = "idle" /\ at' = l /\ UNCHANGED << bound, fb, linked >>
      /\ dirty' = dirty \union {"ts"}
      /\ shadow' = Overlay(shadow, l) /\ live' = Overlay(live, l) /\ replay' = Overlay(replay, l)
  BY DEF StartResolve
<1>2. l \notin Steps
  BY NamesAssumption
<1>3. \A r : Woven(r)' = Woven(r) /\ (Needed(r)' <=> Needed(r))
  BY <1>1 DEF Woven, Source, Needed
<1>4. ASSUME NEW r \in Registers, "ts" \notin FlagsOf(r) PROVE shadow'[r] = shadow[r]
  BY <1>1, <1>4, TableFacts, Names DEF Overlay, ResolveSets
<1>5. ShadowFresh'
  BY <1>1, <1>2, <1>3, <1>4 DEF RegisterInv, ShadowFresh, Steps
<1>6. SamplesKnown'
  <2>1. shadow'[SampleConfig] = shadow[SampleConfig]
    BY <1>4, Names, SpecialRows DEF SampleConfig
  <2>2. QED BY <1>1, <1>2, <2>1 DEF RegisterInv, SamplesKnown, Msaa, Multisampled, Steps
<1>7. FilesFollow'
  BY <1>1, Names DEF RegisterInv, FilesFollow, Doubted, Overlay
<1>8. DrawInv'
  BY <1>1, <1>2 DEF DrawInv, Steps
<1>9. QED BY <1>5, <1>6, <1>7, <1>8 DEF RegisterInv

LEMMA RegisterPreserved ==
  ASSUME TypeOK, RegisterInv, [Next]_vars
  PROVE  RegisterInv'
  BY BindKeeps, FramebufferKeeps, SurfaceKeeps, FlushKeeps, StartDrawKeeps, ElementsKeep,
     RegistersKeep, ShaderKeeps, ResolveKeeps, ChangingAssumption
     DEF Next, SetState, Draw, Resolve

\* gpu3d is what the GPU has whenever no call is in progress.
THEOREM ShadowKept == Spec => []ShadowTrue
<1>1. RegisterInv => ShadowTrue
  BY DEF RegisterInv, FilesFollow, Doubted, ShadowTrue
<1>2. QED BY <1>1, RegisterInit, RegisterPreserved, TypeCorrect, PTL DEF Spec

\* A draw finds every register as the bound state weaves it, for applications that
\* bind as many samplers as views.
THEOREM RegistersRight == "samplers" \notin Practices /\ Spec => []DrawRegisters
<1>1. ASSUME "samplers" \notin Practices, RegisterInv PROVE DrawRegisters
  <2> SUFFICES ASSUME at = "draw", NEW r \in Registers, Used(r)
               PROVE  live[r] = Woven(r) /\ replay[r] = Woven(r)
    BY DEF DrawRegisters
  <2>1. dirty = {} /\ bound["samplers"] = bound["sampler_views"]
    BY <1>1 DEF RegisterInv, DrawInv, Steps
  <2>2. Needed(r)
    BY <1>1, <2>1 DEF Used, Needed, Active
  <2>3. shadow[r] = Woven(r)
    BY <1>1, <2>1, <2>2 DEF RegisterInv, ShadowFresh
  <2>4. QED BY <1>1, <2>3 DEF RegisterInv, FilesFollow, Doubted
<1>2. CASE "samplers" \notin Practices
  BY <1>1, <1>2, RegisterInit, RegisterPreserved, TypeCorrect, PTL DEF Spec
<1>3. CASE ~("samplers" \notin Practices)
  BY <1>3, PTL
<1>4. QED BY <1>2, <1>3

-----------------------------------------------------------------------------
(* The resolve to the screen. *)

\* The shadow holds the tile status of the source too, for the context buffer.
ResolveInv ==
  at \in Levels =>
    \A r \in ResolveSets(at) :
      /\ shadow[r] = ResolveValue(at, r)
      /\ live[r] = ResolveValue(at, r) /\ replay[r] = ResolveValue(at, r)

LEMMA ResolvePreserved ==
  ASSUME TypeOK, ResolveInv, [Next]_vars
  PROVE  ResolveInv'
<1>1. Steps \intersect Levels = {}
  BY NamesAssumption
<1>2. ASSUME at' \in Steps PROVE ResolveInv'
  BY <1>1, <1>2 DEF ResolveInv
<1>3. CASE SetState
  <2>1. at' = "idle"
    BY <1>3 DEF SetState, Bind, SetFramebuffer, CreateSurface, DestroySurface, Clear, Call
  <2>2. QED BY <1>2, <2>1 DEF Steps
<1>4. CASE Draw
  <2>1. at' \in Steps
    BY <1>4, NextStep DEF Draw, StartDraw, EmitElements, EmitRegisters, EndDraw, UploadShader,
                          UpdateUniforms, Advance, Steps, Programs
  <2>2. QED BY <1>2, <2>1
<1>5. ASSUME NEW l \in Levels, StartResolve(l) PROVE ResolveInv'
  <2>1. /\ at' = l /\ clear_value' = clear_value /\ shadow' = Overlay(shadow, l)
        /\ live' = Overlay(live, l) /\ replay' = Overlay(replay, l)
    BY <1>5 DEF StartResolve, surfaceVars
  <2>2. ResolveSets(l) \subseteq Files
    BY Names DEF ResolveSets
  <2>3. \A r : ResolveValue(l, r)' = ResolveValue(l, r)
    BY <2>1 DEF ResolveValue
  <2>4. ASSUME NEW file, NEW r \in ResolveSets(l) PROVE Overlay(file, l)[r] = ResolveValue(l, r)
    BY <2>2 DEF Overlay
  <2>5. QED BY <2>1, <2>3, <2>4 DEF ResolveInv
<1>6. CASE EndResolve
  BY <1>2, <1>6 DEF EndResolve, Steps
<1>7. CASE Flush
  <2>1. /\ at' = at /\ clear_value' = clear_value /\ shadow' = shadow
        /\ (live' = live \/ live' = replay) /\ replay' = shadow
    BY <1>7 DEF Flush, FlushEffect, ContextImage, surfaceVars
  <2>2. \A r : ResolveValue(at, r)' = ResolveValue(at, r)
    BY <2>1 DEF ResolveValue
  <2>3. QED BY <2>1, <2>2 DEF ResolveInv, ResolveSets
<1>8. CASE UNCHANGED vars
  BY <1>8 DEF ResolveInv, ResolveSets, ResolveValue, vars, surfaceVars, gpuVars
<1>9. QED BY <1>3, <1>4, <1>5, <1>6, <1>7, <1>8 DEF Next, Resolve

\* The resolve to the screen reads its source through the tile status of the
\* source, whether or not the context buffer runs in between.
THEOREM ResolveSound == Spec => []ResolveRight
<1>1. Init => ResolveInv
  <2>1. "idle" \notin Levels
    BY NamesAssumption DEF Steps
  <2>2. QED BY <2>1 DEF Init, ResolveInv
<1>2. ResolveInv => ResolveRight
  BY DEF ResolveInv, ResolveRight
<1>3. QED BY <1>1, <1>2, ResolvePreserved, TypeCorrect, PTL DEF Spec

-----------------------------------------------------------------------------
(* The shaders and their uniforms. *)

\* What the upload of a shader has sent.
Sent ==
  CASE at = "PS_INST_MEM" -> {"VS_INST_MEM"}
    [] at = "VS_UNIFORMS" -> {"VS_INST_MEM", "PS_INST_MEM"}
    [] at = "PS_UNIFORMS" -> {"VS_INST_MEM", "PS_INST_MEM", "VS_UNIFORMS"}
    [] OTHER -> {}

Expected(p) == IF Uploading /\ p \in Sent THEN Program(p) ELSE shadow[p]

\* Each register file has what was sent of the shader and the shadow for the rest,
\* or comes from a context buffer made halfway; with the shader flag down the
\* shadow has the program, and the constants whose flag is down or that
\* sync_context has passed.
ProgramInv ==
  /\ \A p \in Programs : /\ torn.live \/ live[p] = Expected(p)
                         /\ torn.replay \/ replay[p] = Expected(p)
  /\ "shader" \notin dirty => shadow["VS_INST_MEM"] = linked.vs /\ shadow["PS_INST_MEM"] = linked.fs
  /\ "shader" \notin dirty /\ ("vs_uniforms" \notin dirty \/ at = "PS_UNIFORMS") =>
       shadow["VS_UNIFORMS"] = << linked.vs, linked.vs_const >>
  /\ "shader" \notin dirty /\ "ps_uniforms" \notin dirty =>
       shadow["PS_UNIFORMS"] = << linked.fs, linked.fs_const >>

LEMMA ProgramInit == Init => ProgramInv
<1> SUFFICES ASSUME Init PROVE ProgramInv
  OBVIOUS
<1>1. /\ at = "idle" /\ "shader" \in dirty /\ live = shadow /\ replay = shadow
  BY DEF Init, Flags
<1>2. ~Uploading
  BY <1>1 DEF Uploading, Programs
<1>3. QED BY <1>1, <1>2 DEF ProgramInv, Expected

\* A call that changes state changes the constants of a stage with its flag, and
\* no linked shader.
LEMMA CallKeepsProgram ==
  ASSUME ProgramInv, at = "idle", at' \notin Programs, UNCHANGED torn,
         dirty \subseteq dirty',
         \A p \in Programs : /\ shadow'[p] = shadow[p]
                             /\ live'[p] = live[p] /\ replay'[p] = replay[p],
         linked'.vs = linked.vs, linked'.fs = linked.fs,
         "vs_uniforms" \notin dirty' => linked'.vs_const = linked.vs_const,
         "ps_uniforms" \notin dirty' => linked'.fs_const = linked.fs_const
  PROVE  ProgramInv'
<1>1. ~Uploading /\ ~Uploading'
  BY DEF Uploading, Programs
<1>2. \A p \in Programs : Expected(p) = shadow[p] /\ Expected(p)' = shadow'[p]
  BY <1>1 DEF Expected
<1>3. QED BY <1>2 DEF ProgramInv, Programs

LEMMA BindKeepsProgram ==
  ASSUME TypeOK, ProgramInv, NEW slot \in Slots, NEW v \in Values, Bind(slot, v)
  PROVE  ProgramInv'
<1>1. /\ at = "idle" /\ at' = "idle" /\ UNCHANGED << shadow, live, replay, torn >>
      /\ dirty' = dirty \union Raised(slot)
      /\ linked' = IF slot \in Constants THEN [linked EXCEPT ![slot] = v] ELSE linked
  BY DEF Bind, Call, gpuVars
<1>2. linked'.vs = linked.vs /\ linked'.fs = linked.fs
  BY <1>1 DEF Constants, TypeOK
<1>3. /\ "vs_uniforms" \notin dirty' => linked'.vs_const = linked.vs_const
      /\ "ps_uniforms" \notin dirty' => linked'.fs_const = linked.fs_const
  BY <1>1 DEF Constants, Raised, TypeOK
<1>4. QED BY <1>1, <1>2, <1>3, CallKeepsProgram DEF Programs

LEMMA StartKeepsProgram ==
  ASSUME TypeOK, ProgramInv, StartDraw
  PROVE  ProgramInv'
<1>1. /\ at = "idle" /\ at' = "elements" /\ UNCHANGED << dirty, live, replay, torn >>
      /\ "shader" \notin dirty => linked' = linked
  BY DEF StartDraw
<1>2. \A p \in Programs : shadow'[p] = shadow[p]
  BY Names DEF StartDraw
<1>3. ~Uploading /\ ~Uploading'
  BY <1>1 DEF Uploading, Programs
<1>4. \A p \in Programs : Expected(p) = shadow[p] /\ Expected(p)' = shadow[p]
  BY <1>2, <1>3 DEF Expected
<1>5. QED BY <1>1, <1>2, <1>4 DEF ProgramInv, Programs

LEMMA EmitKeepsProgram ==
  ASSUME TypeOK, ProgramInv, EmitElements \/ EmitRegisters
  PROVE  ProgramInv'
<1>1. /\ UNCHANGED << dirty, linked, torn >> /\ at' \in {"registers", "VS_INST_MEM"}
      /\ at \in {"elements", "registers"}
  BY DEF EmitElements, EmitRegisters, pipeVars
<1>2. ASSUME NEW p \in Programs
      PROVE  shadow'[p] = shadow[p] /\ live'[p] = live[p] /\ replay'[p] = replay[p]
  <2>1. p \notin Registers /\ p \notin MsaaClobbers /\ p \in Files
    BY Names
  <2>2. "FE_VERTEX_ELEMENT_CONFIG" \in Registers
    BY Names
  <2>3. PICK regs \in SUBSET Registers : Emit(regs)
    BY <2>2 DEF EmitElements, EmitRegisters
  <2>4. QED BY <2>1, <2>3 DEF Emit, Written
<1>3. ~Uploading /\ ~Uploading'
  BY <1>1 DEF Uploading, Programs
<1>4. \A p \in Programs : Expected(p) = shadow[p] /\ Expected(p)' = shadow[p]
  BY <1>2, <1>3 DEF Expected
<1>5. QED BY <1>1, <1>2, <1>4 DEF ProgramInv, Programs

LEMMA FlushKeepsProgram ==
  ASSUME TypeOK, ProgramInv, Flush \/ EndResolve
  PROVE  ProgramInv'
<1>1. /\ UNCHANGED << dirty, linked, shadow >> /\ replay' = shadow
      /\ at' = at \/ (at' = "idle" /\ at \in Levels)
  BY DEF Flush, EndResolve, FlushEffect, ContextImage, pipeVars
<1>2. /\ torn'.replay = Uploading
      /\ \/ live' = live /\ torn'.live = torn.live
         \/ live' = replay /\ torn'.live = torn.replay
  <2>1. at \in Levels => ~Uploading
    BY NamesAssumption DEF Uploading, Steps
  <2>2. PICK up \in {Uploading, FALSE} : FlushEffect(up) /\ (up <=> Uploading)
    BY <2>1 DEF Flush, EndResolve
  <2>3. PICK switched \in BOOLEAN :
           /\ live' = IF switched THEN replay ELSE live
           /\ torn' = [live |-> IF switched THEN torn.replay ELSE torn.live, replay |-> up]
    BY <2>2 DEF FlushEffect
  <2>4. (up = Uploading)
    BY <2>1, <2>2 DEF Uploading
  <2>5. QED BY <2>3, <2>4
<1>3. (Uploading' <=> Uploading) /\ \A p \in Programs : Expected(p)' = Expected(p)
  <2>1. at \in Levels => at \notin Programs
    BY NamesAssumption DEF Steps
  <2>2. Uploading' <=> Uploading
    BY <1>1, <2>1 DEF Uploading, Programs
  <2>3. Uploading => at' = at
    BY <1>1, <2>1 DEF Uploading
  <2>4. QED BY <1>1, <2>2, <2>3 DEF Expected, Sent, Program
<1>4. ~Uploading => \A p \in Programs : Expected(p) = shadow[p]
  BY DEF Expected
<1>5. ASSUME NEW p \in Programs
      PROVE  /\ torn'.live \/ live'[p] = Expected(p)'
             /\ torn'.replay \/ replay'[p] = Expected(p)'
  <2>1. torn'.live \/ live'[p] = Expected(p)
    BY <1>2 DEF ProgramInv
  <2>2. torn'.replay \/ replay'[p] = Expected(p)
    BY <1>1, <1>2, <1>4
  <2>3. QED BY <1>3, <2>1, <2>2
<1>6. at' = "PS_UNIFORMS" => at = "PS_UNIFORMS"
  BY <1>1
<1>7. QED BY <1>1, <1>5, <1>6 DEF ProgramInv

LEMMA UploadKeepsProgram ==
  ASSUME TypeOK, ProgramInv, NEW p \in Programs, UploadShader(p)
  PROVE  ProgramInv'
<1>1. /\ at = p /\ at' = After(p) /\ UNCHANGED << linked, torn >>
      /\ "shader" \in dirty /\ dirty' = IF After(p) = "draw" THEN {} ELSE dirty
      /\ live' = [live EXCEPT ![p] = Program(p)] /\ replay' = [replay EXCEPT ![p] = Program(p)]
      /\ shadow' = IF p = "PS_UNIFORMS"
                   THEN [f \in Files |-> IF f \in Programs THEN Program(f) ELSE shadow[f]]
                   ELSE shadow
  BY DEF UploadShader, Advance
<1>2. \A q : Program(q)' = Program(q)
  BY <1>1 DEF Program
<1>3. ASSUME NEW q \in Programs, q # p PROVE Expected(q) = IF q \in Sent THEN Program(q) ELSE shadow[q]
  BY <1>1 DEF Expected, Uploading, Sent, Programs
<1>4. CASE p = "PS_UNIFORMS"
  <2>1. at' = "draw" /\ dirty' = {}
    BY <1>1, <1>4 DEF After
  <2>2. \A q \in Programs : shadow'[q] = Program(q)
    BY <1>1, <1>4, Names
  <2>3. \A q \in Programs : q # p => q \in Sent
    BY <1>1, <1>4 DEF Sent, Programs
  <2>4. \A q \in Programs : Expected(q)' = Program(q)
    BY <2>1, <2>2 DEF Expected, Uploading, Programs
  <2>5. ASSUME NEW q \in Programs
        PROVE  (torn.live \/ live'[q] = Program(q)) /\ (torn.replay \/ replay'[q] = Program(q))
    <3>1. CASE q = p
      BY <1>1, <3>1, Names DEF TypeOK
    <3>2. CASE q # p
      BY <1>1, <1>3, <2>3, <3>2 DEF ProgramInv
    <3>3. QED BY <3>1, <3>2
  <2>6. /\ shadow'["VS_INST_MEM"] = linked.vs /\ shadow'["PS_INST_MEM"] = linked.fs
        /\ shadow'["VS_UNIFORMS"] = << linked.vs, linked.vs_const >>
        /\ shadow'["PS_UNIFORMS"] = << linked.fs, linked.fs_const >>
    BY <2>2 DEF Program, Programs
  <2>7. QED BY <1>1, <2>4, <2>5, <2>6 DEF ProgramInv
<1>5. CASE p # "PS_UNIFORMS"
  <2>1. "shader" \in dirty' /\ shadow' = shadow /\ at' \in Programs \ {"VS_INST_MEM"}
    BY <1>1, <1>5 DEF After, Programs
  <2>2. Sent' = Sent \union {p} /\ Uploading'
    BY <1>1, <1>5, <2>1 DEF Sent, After, Uploading, Programs
  <2>3. ASSUME NEW q \in Programs
        PROVE  (torn.live \/ live'[q] = Expected(q)') /\ (torn.replay \/ replay'[q] = Expected(q)')
    <3>1. CASE q = p
      <4>1. Expected(q)' = Program(p)
        BY <1>2, <2>2, <3>1 DEF Expected
      <4>2. QED BY <1>1, <3>1, <4>1, Names DEF TypeOK
    <3>2. CASE q # p
      <4>1. Expected(q)' = Expected(q)
        BY <1>2, <1>3, <2>1, <2>2, <3>2 DEF Expected
      <4>2. QED BY <1>1, <3>2, <4>1 DEF ProgramInv
    <3>3. QED BY <3>1, <3>2
  <2>4. QED BY <1>1, <2>1, <2>3 DEF ProgramInv
<1>6. QED BY <1>4, <1>5

LEMMA UniformsKeepProgram ==
  ASSUME TypeOK, ProgramInv, NEW p \in Programs, UpdateUniforms(p)
  PROVE  ProgramInv'
<1>1. /\ at = p /\ at' = After(p) /\ UNCHANGED << linked, torn >>
      /\ "shader" \notin dirty /\ dirty' = IF After(p) = "draw" THEN {} ELSE dirty
  BY DEF UpdateUniforms, Advance
<1> DEFINE Sends == p \in {"VS_UNIFORMS", "PS_UNIFORMS"} /\ FlagOf(p) \in dirty /\ shadow[p] # Program(p)
<1>2. /\ Sends => /\ live' = [live EXCEPT ![p] = Program(p)]
                  /\ replay' = [replay EXCEPT ![p] = Program(p)]
                  /\ shadow' = [shadow EXCEPT ![p] = Program(p)]
      /\ ~Sends => UNCHANGED << live, replay, shadow >>
  BY DEF UpdateUniforms
<1> HIDE DEF Sends
<1>3. ~Uploading /\ ~Uploading'
  BY <1>1 DEF Uploading
<1>4. \A q \in Programs : Expected(q) = shadow[q] /\ Expected(q)' = shadow'[q]
  BY <1>3 DEF Expected
<1>5. ASSUME NEW q \in Programs
      PROVE  /\ torn.live \/ live'[q] = shadow'[q]
             /\ torn.replay \/ replay'[q] = shadow'[q]
             /\ q # p => shadow'[q] = shadow[q]
  BY <1>2, <1>4, Names DEF ProgramInv, TypeOK
<1>6. shadow'[p] = Program(p) \/ (shadow'[p] = shadow[p] /\ ~Sends)
  BY <1>2, Names DEF TypeOK
<1>7. shadow'["VS_INST_MEM"] = linked.vs /\ shadow'["PS_INST_MEM"] = linked.fs
  <2>1. shadow["VS_INST_MEM"] = linked.vs /\ shadow["PS_INST_MEM"] = linked.fs
    BY <1>1 DEF ProgramInv
  <2>2. QED BY <1>5, <1>6, <2>1 DEF Program, Programs
<1>8. p = "VS_UNIFORMS" => shadow'[p] = << linked.vs, linked.vs_const >>
  BY <1>1, <1>6 DEF Sends, FlagOf, Program, ProgramInv
<1>9. p = "PS_UNIFORMS" => shadow'[p] = << linked.fs, linked.fs_const >>
  BY <1>1, <1>6 DEF Sends, FlagOf, Program, ProgramInv
<1>10. /\ at' = "PS_UNIFORMS" <=> p = "VS_UNIFORMS"
       /\ After(p) = "draw" <=> p = "PS_UNIFORMS"
  BY <1>1 DEF After, Programs
<1>11. "vs_uniforms" \notin dirty' \/ at' = "PS_UNIFORMS" =>
         shadow'["VS_UNIFORMS"] = << linked.vs, linked.vs_const >>
  <2>1. CASE p = "VS_UNIFORMS"
    BY <1>8, <2>1
  <2>2. CASE p = "PS_UNIFORMS"
    BY <1>1, <1>5, <2>2 DEF ProgramInv, Programs
  <2>3. CASE p \notin {"VS_UNIFORMS", "PS_UNIFORMS"}
    BY <1>1, <1>5, <1>10, <2>3 DEF ProgramInv, Programs
  <2>4. QED BY <2>1, <2>2, <2>3
<1>12. "ps_uniforms" \notin dirty' => shadow'["PS_UNIFORMS"] = << linked.fs, linked.fs_const >>
  <2>1. CASE p = "PS_UNIFORMS"
    BY <1>9, <2>1
  <2>2. CASE p # "PS_UNIFORMS"
    BY <1>1, <1>5, <1>10, <2>2 DEF ProgramInv, Programs
  <2>3. QED BY <2>1, <2>2
<1>13. QED BY <1>1, <1>4, <1>5, <1>7, <1>11, <1>12 DEF ProgramInv

LEMMA ProgramPreserved ==
  ASSUME TypeOK, ProgramInv, [Next]_vars
  PROVE  ProgramInv'
<1>1. ASSUME NEW s \in Changing, NEW v \in Values, Bind(s, v) PROVE ProgramInv'
  BY <1>1, BindKeepsProgram, ChangingAssumption
<1>2. ASSUME NEW s \in Surfaces, SetFramebuffer(s) \/ CreateSurface(s) \/ DestroySurface(s)
      PROVE  ProgramInv'
  BY <1>2, CallKeepsProgram DEF SetFramebuffer, CreateSurface, DestroySurface, Call, pipeVars,
                                gpuVars, Programs
<1>3. ASSUME NEW c \in Colors, Clear(c) PROVE ProgramInv'
  <2>1. dirty \subseteq dirty'
    BY <1>3 DEF Clear
  <2>2. \A p \in Programs : /\ shadow'[p] = shadow[p]
                             /\ live'[p] = live[p] /\ replay'[p] = replay[p]
    BY <1>3, ClearWrites
  <2>3. QED BY <1>3, <2>1, <2>2, CallKeepsProgram DEF Clear, Call, Programs
<1>4. CASE Draw
  <2>1. CASE EndDraw
    <3>1. at = "draw" /\ at' = "idle" /\ UNCHANGED << pipeVars, gpuVars >>
      BY <2>1 DEF EndDraw
    <3>2. ~Uploading /\ ~Uploading'
      BY <3>1 DEF Uploading, Programs
    <3>3. QED BY <3>1, <3>2 DEF ProgramInv, Expected, pipeVars, gpuVars
  <2>2. QED BY <1>4, <2>1, StartKeepsProgram, EmitKeepsProgram, UploadKeepsProgram,
               UniformsKeepProgram DEF Draw
<1>5. ASSUME NEW l \in Levels, StartResolve(l) PROVE ProgramInv'
  <2>1. /\ at = "idle" /\ at' = l /\ UNCHANGED << linked, torn >> /\ dirty' = dirty \union {"ts"}
        /\ shadow' = Overlay(shadow, l) /\ live' = Overlay(live, l) /\ replay' = Overlay(replay, l)
    BY <1>5 DEF StartResolve
  <2>2. ASSUME NEW p \in Programs, NEW file PROVE Overlay(file, l)[p] = file[p]
    BY Names DEF Overlay, ResolveSets
  <2>3. l \notin Programs
    BY NamesAssumption DEF Steps
  <2>4. QED BY <2>1, <2>2, <2>3, CallKeepsProgram
<1>6. CASE EndResolve \/ Flush
  BY <1>6, FlushKeepsProgram
<1>7. CASE UNCHANGED vars
  BY <1>7 DEF ProgramInv, Expected, Uploading, Sent, Program, vars, pipeVars, gpuVars
<1>8. QED BY <1>1, <1>2, <1>3, <1>4, <1>5, <1>6, <1>7 DEF Next, SetState, Resolve

\* A draw runs the bound shaders with the bound constants, unless the context
\* buffer before it was made while a shader was being uploaded.
THEOREM ProgramRight == Spec => []DrawProgram
<1>1. ASSUME TypeOK, RegisterInv, ProgramInv PROVE DrawProgram
  <2> SUFFICES ASSUME at = "draw", NEW p \in Programs
               PROVE  (torn.live \/ live[p] = Program(p)) /\ (torn.replay \/ replay[p] = Program(p))
    BY DEF DrawProgram
  <2>1. dirty = {} /\ ~Uploading
    BY <1>1 DEF RegisterInv, DrawInv, Uploading, Programs
  <2>2. shadow[p] = Program(p)
    BY <1>1, <2>1 DEF ProgramInv, Program, Programs
  <2>3. QED BY <1>1, <2>1, <2>2 DEF ProgramInv, Expected
<1>2. QED BY <1>1, RegisterInit, RegisterPreserved, ProgramInit, ProgramPreserved, TypeCorrect,
             PTL DEF Spec

=============================================================================
