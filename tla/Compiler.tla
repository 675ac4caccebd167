------------------------------- MODULE Compiler -------------------------------
(***************************************************************************)
(* The shader compiler: src/attic/driver/etna_compiler.c.                  *)
(*                                                                         *)
(* A shader in the intermediate language TGSI has input, output, temporary *)
(* and constant registers.  The hardware has temporaries, in which inputs  *)
(* arrive and outputs are left, and uniforms.  The passes give registers   *)
(* temporaries, shared where the uses allow it, drop moves that sharing    *)
(* makes void, and generate instructions with branches whose targets are   *)
(* filled in at the end.                                                   *)
(*                                                                         *)
(* Registers stand for all their components.  An operation includes its    *)
(* modifiers: MOV_SAT saturates, MOV_NEG and MOV_ABS have Negate and       *)
(* Absolute on their source.  A swizzling move is the operation SWZ.       *)
(* Values are terms over inputs and constants: both the shader and its     *)
(* translation are run on terms, for every outcome of the conditions, and  *)
(* compared.                                                               *)
(***************************************************************************)
EXTENDS Integers, Sequences, FiniteSets, SequencesExt, FiniteSetsExt, TLC

CONSTANTS
  Programs,    \* shaders: sequences of [op, dst, src]
  Processors,  \* subset of {"vertex", "fragment"}
  Inputs, Outputs, Temps, Consts,  \* TGSI files: sequences of names; the
               \* immediates of a shader follow its constants
  Positions,   \* registers with the semantic POSITION
  DeclaresUnwritten,  \* shaders declare the outputs they do not write, too
  NeedZDiv,    \* specs->vs_need_z_div
  MaxRegisters, MaxInstructions,  \* specs->max_registers, max_instructions
  MaxVsUniforms, MaxPsUniforms, MaxVaryings  \* specs->max_vs_uniforms, ...

Files == << Inputs, Outputs, Temps, Consts >>
ASSUME FilesAssumption ==
  /\ \A f \in DOMAIN Files : Files[f] \in Seq(ToSet(Files[f])) /\ IsInjective(Files[f])
  /\ \A f, g \in DOMAIN Files : f # g => ToSet(Files[f]) \intersect ToSet(Files[g]) = {}
  /\ Positions \intersect ToSet(Temps) = {}
  /\ \A r, s \in Positions \intersect ToSet(Inputs) : r = s
  /\ \A r, s \in Positions \intersect ToSet(Outputs) : r = s
ASSUME LimitsAssumption ==
  /\ {MaxRegisters, MaxInstructions, MaxVsUniforms, MaxPsUniforms, MaxVaryings} \subseteq Nat
  /\ {NeedZDiv, DeclaresUnwritten} \subseteq BOOLEAN

None == -1
Registers == ToSet(Inputs) \union ToSet(Outputs) \union ToSet(Temps)
Operands == Registers \union ToSet(Consts)

\* IF blocks that an instruction is in, one that begins or ends there included.
Count(p, op, n) == Cardinality({j \in 1 .. n : p[j].op = op})
Depth(p, i) == Count(p, "IF", i) - Count(p, "ENDIF", i - 1)

\* The operations with the opcode MOV.
MovOps == {"MOV", "MOV_SAT", "MOV_NEG", "MOV_ABS"}

\* Blocks are nested, with one ELSE at most; IF, ELSE and ENDIF have no destination.
ASSUME ProgramsAssumption ==
  \A p \in Programs :
    /\ p \in Seq([op : STRING, dst : Registers \union {""}, src : Seq(Operands)])
    /\ Count(p, "IF", Len(p)) = Count(p, "ENDIF", Len(p))
    /\ \A i \in DOMAIN p :
         /\ Len(p[i].src) <= 3   \* ETNA_NUM_SRC
         /\ p[i].op \notin {"BRANCH", "BRANCH_EQ"}   \* of the hardware, not of TGSI
         /\ p[i].op \in MovOps \union {"LIT", "SIN", "IF"} => Len(p[i].src) = 1
         /\ p[i].op \in {"ELSE", "ENDIF"} => Depth(p, i) > 0
    /\ \A i, j \in DOMAIN p :
         i < j /\ p[i].op = "ELSE" /\ p[j].op = "ELSE" /\ Depth(p, i) = Depth(p, j) =>
           \E k \in i .. j : p[k].op = "ENDIF" /\ Depth(p, k) = Depth(p, i)

VARIABLES
  program, processor,
  pass,      \* the pass that is next
  at,        \* instruction a pass over the program is at
  native,    \* temporary each register is assigned, or None
  kept,      \* temporaries not to be shared for the rest of the shader
  dead,      \* dead_inst
  inout_rest, temp_rest,  \* inputs or outputs and temporaries from inout_ptr, temp_ptr
  next_free, \* next_free_native
  inner,     \* inner_temp, or None
  code,      \* instructions generated
  usage,     \* lbl_usage: label marked at an instruction
  labels,    \* inst_idx of each label, or None
  frames     \* frame_stack: labels of ELSE and ENDIF

vars == << program, processor, pass, at, native, kept, dead, inout_rest, temp_rest, next_free,
           inner, code, usage, labels, frames >>
shader == << program, processor >>
walk == << inout_rest, temp_rest >>
output == << code, usage, labels, frames, inner >>

-----------------------------------------------------------------------------
\* etna_compile_pass_check_usage; instructions count from 1.
Uses(r) == {i \in DOMAIN program : program[i].dst = r \/ r \in ToSet(program[i].src)}
Active(file) == {r \in ToSet(file) : Uses(r) # {}}
FirstUse(r) == Min(Uses(r))
LastUse(r) == IF r \in kept THEN Len(program) + 1 ELSE Max(Uses(r))

\* Operands and instructions of the hardware.  The immediates the compiler adds
\* share one uniform register behind the constants and are told apart by "swiz".
Temp(t) == [uniform |-> FALSE, reg |-> t, swiz |-> ""]
Uniform(c) == [uniform |-> TRUE, reg |-> CHOOSE i \in DOMAIN Consts : Consts[i] = c, swiz |-> ""]
Imm(value) == [uniform |-> TRUE, reg |-> Len(Consts) + 1, swiz |-> value]
Inst(op, dst, src) == [op |-> op, dst |-> dst, src |-> src, target |-> 0]

\* assign_special_inputs
Fixed(r) == processor = "fragment" /\ r \in Positions

Init ==
  /\ program \in Programs
  /\ processor \in Processors
  /\ pass = "temporaries" /\ at = 1
  /\ native = [r \in Registers |-> IF Fixed(r) /\ Uses(r) # {} THEN 0 ELSE None]
  /\ kept = {} /\ dead = {} /\ inout_rest = {} /\ temp_rest = {}
  /\ next_free = IF processor = "fragment" THEN 1 ELSE 0
  /\ code = << >> /\ usage = << >> /\ labels = << >> /\ frames = << >> /\ inner = None

\* alloc_new_native_reg, for every declared temporary in turn.
AssignTemporaries ==
  /\ pass = "temporaries"
  /\ native' = [r \in Registers |->
                  IF r \in ToSet(Temps) THEN next_free + (CHOOSE i \in DOMAIN Temps : Temps[i] = r) - 1
                  ELSE native[r]]
  /\ next_free' = next_free + Len(Temps)
  /\ pass' = "optimize"
  /\ UNCHANGED << shader, at, kept, dead, walk, output >>

-----------------------------------------------------------------------------
(* etna_compile_pass_optimize_outputs: of a MOV, only the opcode, the        *)
(* registers and the swizzle are looked at, not its modifiers.               *)

Current == program[at]
FromTemp ==
  /\ Current.dst \in ToSet(Outputs) /\ Current.src[1] \in ToSet(Temps)
  /\ native[Current.dst] = None
  /\ LastUse(Current.src[1]) = at
FromInput ==
  /\ Current.dst \in ToSet(Outputs) /\ Current.src[1] \in ToSet(Inputs)
  /\ native[Current.dst] = None /\ native[Current.src[1]] = None
  /\ Uses(Current.dst) = {at}

Optimize(change) ==
  /\ pass = "optimize"
  /\ at <= Len(program)
  /\ at' = at + 1
  /\ change
  /\ UNCHANGED << shader, pass, walk, output >>

ShareTemp ==
  /\ Current.op \in MovOps /\ FromTemp
  /\ native' = [native EXCEPT ![Current.dst] = native[Current.src[1]]]
  /\ kept' = kept \union {Current.src[1]}
  /\ dead' = dead \union {at}
  /\ UNCHANGED next_free

ShareInput ==
  /\ Current.op \in MovOps /\ FromInput
  /\ native' = [native EXCEPT ![Current.dst] = next_free, ![Current.src[1]] = next_free]
  /\ next_free' = next_free + 1
  /\ dead' = dead \union {at}
  /\ UNCHANGED kept

ShareNothing ==
  /\ ~(Current.op \in MovOps /\ (FromTemp \/ FromInput))
  /\ UNCHANGED << native, next_free, kept, dead >>

OptimizeOutputs == Optimize(ShareTemp) \/ Optimize(ShareInput) \/ Optimize(ShareNothing)

EndOptimize ==
  /\ pass = "optimize" /\ at > Len(program)
  /\ pass' = "inputs"
  /\ inout_rest' = Active(Inputs) /\ temp_rest' = Active(Temps)
  /\ UNCHANGED << shader, at, native, kept, dead, next_free, output >>

-----------------------------------------------------------------------------
(* assign_inouts_to_temporaries walks through the inputs, later the outputs,  *)
(* and the temporaries side by side, each sorted.  qsort leaves the order of  *)
(* equal keys open: any register with the least key is next.                  *)

InoutKey(r) == IF pass = "inputs" THEN LastUse(r) ELSE FirstUse(r)
TempKey(t) == IF pass = "inputs" THEN FirstUse(t) ELSE LastUse(t)
NextInout(r) == r \in inout_rest /\ \A s \in inout_rest : InoutKey(r) <= InoutKey(s)
NextTemp(t) == t \in temp_rest /\ \A s \in temp_rest : TempKey(t) <= TempKey(s)

InputMayShare(r, t) == LastUse(r) <= FirstUse(t)
OutputMayShare_Before(r, t) == FirstUse(r) + 1 >= LastUse(t)
OutputMayShare(r, t) == FirstUse(r) >= LastUse(t)
MayShare(r, t) == IF pass = "inputs" THEN InputMayShare(r, t) ELSE OutputMayShare(r, t)

SkipAssigned(r) ==
  /\ NextInout(r) /\ native[r] # None
  /\ inout_rest' = inout_rest \ {r}
  /\ UNCHANGED << native, next_free, temp_rest >>

ShareNext(r, t) ==
  /\ NextInout(r) /\ native[r] = None
  /\ NextTemp(t) /\ MayShare(r, t)
  /\ native' = [native EXCEPT ![r] = native[t]]
  /\ inout_rest' = inout_rest \ {r} /\ temp_rest' = temp_rest \ {t}
  /\ UNCHANGED next_free

SkipTemp(r, t) ==
  /\ NextInout(r) /\ native[r] = None
  /\ NextTemp(t) /\ ~MayShare(r, t)
  /\ temp_rest' = temp_rest \ {t}
  /\ UNCHANGED << native, next_free, inout_rest >>

\* New temporaries for those left over.
AllocNext(r) ==
  /\ NextInout(r) /\ native[r] = None
  /\ temp_rest = {}
  /\ native' = [native EXCEPT ![r] = next_free]
  /\ next_free' = next_free + 1
  /\ inout_rest' = inout_rest \ {r}
  /\ UNCHANGED temp_rest

AssignInouts ==
  /\ pass \in {"inputs", "outputs"}
  /\ \E r \in inout_rest :
       \/ SkipAssigned(r) \/ AllocNext(r)
       \/ \E t \in temp_rest : ShareNext(r, t) \/ SkipTemp(r, t)
  /\ UNCHANGED << shader, pass, at, kept, dead, output >>

EndInputs ==
  /\ pass = "inputs" /\ inout_rest = {}
  /\ pass' = "outputs"
  /\ inout_rest' = Active(Outputs) /\ temp_rest' = Active(Temps)
  /\ UNCHANGED << shader, at, native, kept, dead, next_free, output >>

EndOutputs ==
  /\ pass = "outputs" /\ inout_rest = {}
  /\ pass' = IF processor = "fragment" THEN "permute" ELSE "generate"
  /\ at' = 1
  /\ temp_rest' = {}
  /\ UNCHANGED << shader, native, kept, dead, next_free, inout_rest, output >>

-----------------------------------------------------------------------------
(* permute_ps_inputs, one input at a time; t0 is for POSITION. *)

SwapNative_Copy(to, from) == [r \in Registers |-> IF native[r] = from THEN to ELSE native[r]]
SwapNative(to, from) ==
  [r \in Registers |->
     IF native[r] = from THEN to ELSE IF native[r] = to THEN from ELSE native[r]]

Varying(i) == Uses(Inputs[i]) # {} /\ Inputs[i] \notin Positions
NativeIdx(i) == 1 + Cardinality({j \in 1 .. i - 1 : Varying(j)})

PermuteInputs ==
  /\ pass = "permute"
  /\ at <= Len(Inputs)
  /\ native' = IF Varying(at) THEN SwapNative(NativeIdx(at), native[Inputs[at]]) ELSE native
  /\ at' = at + 1
  /\ UNCHANGED << shader, pass, kept, dead, walk, next_free, output >>

EndPermute ==
  /\ pass = "permute"
  /\ at > Len(Inputs)
  /\ next_free' = IF NativeIdx(at) > next_free THEN NativeIdx(at) ELSE next_free
  /\ pass' = "generate" /\ at' = 1
  /\ UNCHANGED << shader, native, kept, dead, walk, output >>

-----------------------------------------------------------------------------
(* etna_compile_pass_generate_code *)

\* The inner temporary is allocated when first needed.
InnerReg == IF inner = None THEN next_free ELSE inner
NeedInner_Reuse(needed) ==
  /\ inner' = IF needed THEN InnerReg ELSE inner
  /\ UNCHANGED next_free
NeedInner(needed) ==
  /\ inner' = IF needed THEN InnerReg ELSE inner
  /\ next_free' = IF needed /\ inner = None THEN next_free + 1 ELSE next_free

\* emit_inst: every uniform after the first distinct one is moved to the inner
\* temporary.
Clashes(inst) ==
  LET uniforms == {k \in DOMAIN inst.src : inst.src[k].uniform}
  IN  {k \in uniforms : inst.src[k].reg # inst.src[Min(uniforms)].reg}
Emit_Unchecked(inst) == << inst >>
Emit(inst) ==
  FlattenSeq([k \in DOMAIN inst.src |->
    IF k \in Clashes(inst) THEN << Inst("MOV", InnerReg, << inst.src[k] >>) >> ELSE << >>])
  \o << [inst EXCEPT !.src = [k \in DOMAIN inst.src |->
                                IF k \in Clashes(inst) THEN Temp(InnerReg) ELSE inst.src[k]]] >>

Operand(r) == IF r \in Registers THEN Temp(native[r]) ELSE Uniform(r)

\* What one TGSI instruction becomes.  The factor of SIN, 2.0f/M_PI, is passed as a
\* uint32_t: it is converted to 0, the bits of 0.0.
Translation ==
  LET dst == IF Current.dst \in Registers THEN native[Current.dst] ELSE None
      src == [k \in DOMAIN Current.src |-> Operand(Current.src[k])] IN
  CASE Current.op = "LIT" ->
         << Inst("LOG", InnerReg, << src[1] >>), Inst("MUL", InnerReg, << Temp(InnerReg), src[1] >>),
            Inst("LITP", dst, << src[1], src[1], Temp(InnerReg) >>) >>
    [] Current.op = "SIN" ->
         << Inst("MUL", dst, << src[1], Imm("0.0") >>), Inst("SIN", dst, << Temp(dst) >>) >>
    [] Current.op = "IF" -> << Inst("BRANCH_EQ", None, << src[1], Imm("0.0") >>) >>
    [] Current.op = "ELSE" -> << Inst("BRANCH", None, << >>) >>
    [] Current.op = "ENDIF" -> << >>
    [] OTHER -> << Inst(Current.op, dst, src) >>

Generated ==
  IF at \in dead THEN << >> ELSE FlattenSeq([i \in DOMAIN Translation |-> Emit(Translation[i])])
NeedsInner ==
  /\ at \notin dead
  /\ Current.op = "LIT" \/ \E i \in DOMAIN Translation : Clashes(Translation[i]) # {}

\* alloc_new_label, label_mark_use, label_place: addresses count from 0.
NewLabel == Len(labels) + 1
Frame == Last(frames)
MarkUse ==
  usage' = [i \in DOMAIN usage \union {Len(code)} |-> IF i = Len(code) THEN NewLabel ELSE usage[i]]
Labels ==
  CASE Current.op = "IF" ->
         /\ labels' = Append(labels, None)
         /\ frames' = Append(frames, [else |-> NewLabel, endif |-> None])
         /\ MarkUse
    [] Current.op = "ELSE" ->
         /\ labels' = Append([labels EXCEPT ![Frame.else] = Len(code) + 1], None)
         /\ frames' = Append(Front(frames), [Frame EXCEPT !.endif = NewLabel])
         /\ MarkUse
    [] Current.op = "ENDIF" ->
         /\ labels' = [labels EXCEPT ![IF Frame.endif # None THEN Frame.endif ELSE Frame.else] = Len(code)]
         /\ frames' = Front(frames)
         /\ UNCHANGED usage
    [] OTHER -> UNCHANGED << labels, frames, usage >>

Generate ==
  /\ pass = "generate"
  /\ at <= Len(program)
  /\ code' = code \o Generated
  /\ NeedInner(NeedsInner)
  /\ Labels
  /\ at' = at + 1
  /\ UNCHANGED << shader, pass, native, kept, dead, walk >>

\* etna_compile_add_z_div_if_needed, _add_nop_if_needed, _fill_in_labels and
\* _check_limits.  The output declared as POSITION is divided; if it was not
\* written its native.id is 0, whatever t0 holds.
ZDivided(r) ==
  processor = "vertex" /\ NeedZDiv /\ r \in Positions /\ (Uses(r) # {} \/ DeclaresUnwritten)
ZDiv ==
  LET pos == {r \in ToSet(Outputs) : ZDivided(r)} IN
  IF pos = {} THEN << >>
  ELSE LET r == CHOOSE r \in pos : TRUE
           t == IF Uses(r) = {} THEN 0 ELSE native[r] IN
       << Inst("ADD", t, << Temp(t), Temp(t) >>), Inst("MUL", t, << Temp(t), Imm("0.5") >>) >>
Nop(insts) ==
  IF insts = << >> \/ Len(insts) - 1 \in ToSet(labels) THEN << Inst("NOP", None, << >>) >> ELSE << >>
FilledIn_FromOne(insts) ==
  [i \in DOMAIN insts |->
     IF i \in DOMAIN usage THEN [insts[i] EXCEPT !.target = labels[usage[i]]] ELSE insts[i]]
FilledIn(insts) ==
  [i \in DOMAIN insts |->
     IF i - 1 \in DOMAIN usage THEN [insts[i] EXCEPT !.target = labels[usage[i - 1]]] ELSE insts[i]]

\* The immediates that were added come four to a uniform; only permute_ps_inputs
\* counts varyings.
Immediates(insts) == {o \in UNION {ToSet(inst.src) : inst \in ToSet(insts)} : o.swiz # ""}
NumUniforms(insts) == Len(Consts) + (Cardinality(Immediates(insts)) + 3) \div 4
NumVaryings == IF processor = "fragment" THEN NativeIdx(Len(Inputs) + 1) - 1 ELSE 0
WithinLimits(insts) ==
  /\ Len(insts) <= MaxInstructions /\ next_free <= MaxRegisters
  /\ NumUniforms(insts) <= IF processor = "vertex" THEN MaxVsUniforms ELSE MaxPsUniforms
  /\ NumVaryings <= MaxVaryings

Finish ==
  /\ pass = "generate"
  /\ at > Len(program)
  /\ LET insts == code \o ZDiv IN code' = FilledIn(insts \o Nop(insts))
  /\ pass' = IF WithinLimits(code') THEN "done" ELSE "rejected"
  /\ UNCHANGED << shader, at, native, kept, dead, walk, next_free, usage, labels, frames, inner >>

-----------------------------------------------------------------------------
Assign == AssignTemporaries \/ OptimizeOutputs \/ EndOptimize \/ AssignInouts \/ EndInputs \/ EndOutputs
Permute == PermuteInputs \/ EndPermute

Next == Assign \/ Permute \/ Generate \/ Finish

Spec == Init /\ [][Next]_vars

-----------------------------------------------------------------------------
(* What a shader computes.  A value is a term in prefix notation.  A run has *)
(* the values of registers, the conditions met and the next instruction;    *)
(* "chosen" gives the outcome of each condition.                            *)

Undefined == << "undefined" >>
Apply(op, args) ==
  IF Undefined \in ToSet(args) THEN Undefined ELSE << op >> \o FlattenSeq(args)

Conditions == Cardinality({i \in DOMAIN program : program[i].op = "IF"})
Outcomes == [1 .. Conditions -> BOOLEAN]

MovesValue == {"MOV"}
Value(op, args) ==
  CASE op \in MovesValue -> args[1]
    [] op = "LIT" ->
         Apply("LITP", << args[1], args[1], Apply("MUL", << Apply("LOG", args), args[1] >>) >>)
    [] OTHER -> Apply(op, args)

\* TGSI.  Where IF and ELSE go on when they do not go to the next instruction.
Partner(i) ==
  Min({j \in i + 1 .. Len(program) : program[j].op \in {"ELSE", "ENDIF"} /\ Depth(program, j) = Depth(program, i)})

ShaderStep(run, chosen) ==
  LET i == program[run.pc]
      args == [k \in DOMAIN i.src |-> run.value[i.src[k]]]
      next == [run EXCEPT !.pc = @ + 1] IN
  CASE i.op = "IF" ->
         [next EXCEPT !.met = Append(@, args[1]),
                      !.pc = IF chosen[Len(run.met) + 1] THEN @ ELSE Partner(run.pc) + 1]
    [] i.op = "ELSE" -> [next EXCEPT !.pc = Partner(run.pc)]
    [] i.op = "ENDIF" -> next
    [] i.op = "SIN" -> [next EXCEPT !.value[i.dst] =
                          Apply("SIN", << Apply("MUL", << args[1], << "2/pi" >> >>) >>)]
    [] OTHER -> [next EXCEPT !.value[i.dst] = Value(i.op, args)]

ShaderRun(chosen) ==
  FoldLeftDomain(LAMBDA run, n : IF run.pc > Len(program) THEN run ELSE ShaderStep(run, chosen),
    [pc |-> 1, met |-> << >>,
     value |-> [r \in Operands |->
                  IF r \in ToSet(Inputs) \union ToSet(Consts) THEN << r >> ELSE Undefined]],
    program)

\* The hardware.
Content(run, o) ==
  IF ~o.uniform THEN run.value[o.reg]
  ELSE IF o.reg \in DOMAIN Consts THEN << Consts[o.reg] >> ELSE << o.swiz >>

CodeStep(run, chosen) ==
  LET i == code[run.pc]
      args == [k \in DOMAIN i.src |-> Content(run, i.src[k])]
      next == [run EXCEPT !.pc = @ + 1] IN
  CASE i.op = "BRANCH_EQ" ->
         [next EXCEPT !.met = Append(@, args[1]),
                      !.pc = IF chosen[Len(run.met) + 1] THEN @ ELSE i.target + 1]
    [] i.op = "BRANCH" -> [next EXCEPT !.pc = i.target + 1]
    [] i.op = "NOP" -> next
    [] OTHER -> [next EXCEPT !.value[i.dst] = Value(i.op, args)]

\* A run that goes back to an earlier instruction does not end in time.
CodeRun(chosen) ==
  FoldLeftDomain(LAMBDA run, n : IF run.pc > Len(code) THEN run ELSE CodeStep(run, chosen),
    [pc |-> 1, met |-> << >>,
     value |-> [t \in 0 .. next_free |->
                  IF \E r \in Active(Inputs) : native[r] = t
                  THEN << CHOOSE r \in Active(Inputs) : native[r] = t >> ELSE Undefined]],
    code)

-----------------------------------------------------------------------------
(* Properties. *)

\* Every variable has its type; what is assigned and emitted uses registers that
\* were allocated (or t0 for a POSITION that has none); a shader that is not rejected
\* keeps to the limits, and no branch in it is left without a target.
Allocated(t) == t < next_free \/ (t = 0 /\ DeclaresUnwritten)
TypeOK ==
  /\ processor \in Processors
  /\ pass \in {"temporaries", "optimize", "inputs", "outputs", "permute", "generate", "done",
               "rejected"}
  /\ at \in 1 .. Len(program) + Len(Inputs) + 1
  /\ \A r \in Registers : native[r] \in None .. next_free - 1
  /\ inner \in None .. next_free - 1
  /\ inout_rest \subseteq Registers /\ temp_rest \subseteq Active(Temps)
  /\ kept \subseteq ToSet(Temps) /\ dead \subseteq DOMAIN program
  /\ \A i \in DOMAIN code :
       /\ Allocated(code[i].dst)
       /\ \A k \in DOMAIN code[i].src : code[i].src[k].uniform \/ Allocated(code[i].src[k].reg)
  /\ \A i \in DOMAIN labels : labels[i] \in None .. Len(code)
  /\ pass = "done" =>
       /\ frames = << >> /\ None \notin ToSet(labels)
       /\ WithinLimits(code)

\* The translation computes what the shader computes: for every outcome of its
\* conditions it meets the same conditions and leaves the same values in the
\* outputs, though registers share temporaries and moves are gone.  The limits are
\* looked at last: it is so for a shader that is rejected, too.
ResultsMatch ==
  pass \in {"done", "rejected"} =>
    \A chosen \in Outcomes :
      LET source == ShaderRun(chosen)
          target == CodeRun(chosen) IN
      /\ target.pc > Len(code)
      /\ target.met = source.met
      /\ \A r \in Active(Outputs) :
           source.value[r] # Undefined =>
             target.value[native[r]] =
               IF ZDivided(r)
               THEN Apply("MUL", << Apply("ADD", << source.value[r], source.value[r] >>), << "0.5" >> >>)
               ELSE source.value[r]

\* No instruction reads two uniforms (check_uniforms: "An instruction can only
\* read from one distinct uniform").
OneUniform == \A i \in DOMAIN code : Clashes(code[i]) = {}

\* Every branch goes forward, and not beyond the end: the code ends.  The branch of an
\* IF on a constant is left out, its label is marked on a move (see README).
Branches(inst) == inst.op = "BRANCH" \/ (inst.op = "BRANCH_EQ" /\ ~inst.src[1].uniform)
BranchesForward ==
  pass \in {"done", "rejected"} =>
    \A i \in DOMAIN code : Branches(code[i]) => code[i].target \in i .. Len(code)

\* No branch goes behind the last instruction ("add a NOP to the shader if [...] there is a
\* label at the end of the shader").
BranchesInside ==
  pass \in {"done", "rejected"} =>
    \A i \in DOMAIN code : Branches(code[i]) => code[i].target < Len(code)

\* What emit_inst and the labels are to make sure of.
CodeWellFormed == OneUniform /\ BranchesForward

\* The inputs of a fragment shader arrive in the temporaries from t1 in the order
\* of their declaration, t0 is for POSITION alone, and no two inputs share.
InputsInOrder ==
  pass \in {"done", "rejected"} =>
    /\ processor = "fragment" =>
         /\ \A i \in DOMAIN Inputs : Varying(i) => native[Inputs[i]] = NativeIdx(i)
         /\ \A r \in Active(Temps) \union Active(Outputs) : native[r] = 0 => Fixed(r)
    /\ \A r, s \in Active(Inputs) : native[r] = native[s] => r = s

\* Registers r and s are in one temporary.  That is sound if r is dead when s comes,
\* or s is another name of r after a move that was dropped.  The compiler also allows
\* it for an output that was assigned before that move, and for both POSITIONs (see
\* README).
Shared(r, s) == native[r] = native[s] /\ native[r] # None
Before(r, s) == Max(Uses(r)) <= FirstUse(s)
Renamed(r, s) ==
  \E i \in dead : program[i].src = << r >> /\ program[i].dst = s /\ Uses(s) = {i}
Rewritten(s) == \E i \in dead : program[i].dst = s /\ FirstUse(s) < i
Passed(r, s) == Before(r, s) \/ Renamed(r, s) \/ Rewritten(s)
BothFixed(r, s) == Fixed(r) /\ Fixed(s)

\* Registers share a temporary one after the other only, however they came to: by a
\* dropped move, by the walk through the inputs, through the outputs, or by two of
\* these; and after the permutation still.
SharedAfterUse ==
  \A r, s \in Registers :
    r # s /\ Uses(r) # {} /\ Uses(s) # {} /\ Shared(r, s) =>
      Passed(r, s) \/ Passed(s, r) \/ BothFixed(r, s)

RegistersPlaced == InputsInOrder /\ SharedAfterUse

=============================================================================
