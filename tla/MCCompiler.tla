------------------------------ MODULE MCCompiler ------------------------------
(* Small shaders for TLC: all shaders of some shapes. *)
EXTENDS Compiler

MCInputs == << "IN1", "IN2" >>
MCOutputs == << "OUT1", "OUT2" >>
MCTemps == << "TEMP1", "TEMP2" >>
MCConsts == << "CONST1", "CONST2" >>
MCPositions == {"OUT2"}

Defined(p) == {p[i].dst : i \in DOMAIN p}
Used(p) == UNION {ToSet(p[i].src) : i \in DOMAIN p}

\* An instruction reads a temporary only after an assignment.
Sources(p) == ToSet(MCInputs) \union ToSet(MCConsts) \union (Defined(p) \intersect ToSet(MCTemps))

\* TEMP2 comes after TEMP1.  An output is written once at most, or once in each
\* branch of an IF.
Ops(p) == [i \in DOMAIN p |-> p[i].op]
ThisBranch(p) ==
  IF "ELSE" \in ToSet(Ops(p)) /\ "ENDIF" \notin ToSet(Ops(p))
  THEN SelectInSeq(Ops(p), LAMBDA op : op = "ELSE") ELSE 0
BeforeIf(p) ==
  IF ThisBranch(p) = 0 THEN << >>
  ELSE SubSeq(p, 1, SelectInSeq(Ops(p), LAMBDA op : op = "IF"))
Written(p) == Defined(BeforeIf(p)) \union Defined(SubSeq(p, ThisBranch(p) + 1, Len(p)))
Targets(p) ==
  (ToSet(MCTemps) \ (IF "TEMP1" \in Defined(p) THEN {} ELSE {"TEMP2"}))
    \union (ToSet(MCOutputs) \ Written(p))

\* LOAD and STORE are moves to a temporary and to an output, LOAD_SAT saturates.
Instructions(op, dsts, srcs) == [op : {op}, dst : dsts, src : srcs]
Arity(op) == CASE op = "ADD" -> 2 [] op = "MAD" -> 3 [] OTHER -> 1
Step(p, op) ==
  CASE op \in {"ELSE", "ENDIF"} -> Instructions(op, {""}, {<< >>})
    [] op = "IF" -> Instructions(op, {""}, [1 .. 1 -> Sources(p) \ ToSet(MCConsts)])
    [] op = "IFCONST" -> Instructions("IF", {""}, [1 .. 1 -> ToSet(MCConsts)])
    [] op = "LOAD" -> Instructions("MOV", Targets(p) \intersect ToSet(MCTemps), [1 .. 1 -> Sources(p)])
    [] op = "LOAD_SAT" ->
         Instructions("MOV_SAT", Targets(p) \intersect ToSet(MCTemps), [1 .. 1 -> Sources(p)])
    [] op = "STORE" -> Instructions("MOV", Targets(p) \intersect ToSet(MCOutputs), [1 .. 1 -> Sources(p)])
    [] OTHER -> Instructions(op, Targets(p), [1 .. Arity(op) -> Sources(p)])

\* No temporary is computed for nothing, and some output is written.
Sensible(p) ==
  /\ Defined(p) \intersect ToSet(MCTemps) \subseteq Used(p)
  /\ Defined(p) \intersect ToSet(MCOutputs) # {}

Shaders(shape) ==
  LET upTo[n \in 0 .. Len(shape)] ==
        IF n = 0 THEN {<< >>}
        ELSE UNION {{Append(p, i) : i \in Step(p, shape[n])} : p \in upTo[n - 1]}
  IN  {p \in upTo[Len(shape)] : Sensible(p)}

MCPrograms ==
  UNION {Shaders(shape) : shape \in
    { << "LOAD", "LOAD", "STORE", "STORE" >>,
      << "LOAD", "STORE", "LOAD", "STORE" >>,
      << "MOV", "ADD", "STORE" >>,
      << "MAD", "SWZ" >>,
      << "LIT", "RCP", "STORE" >>,
      << "LOAD_SAT", "ADD", "STORE" >>,
      << "IF", "MOV", "ELSE", "MOV", "ENDIF", "STORE" >>,
      << "LOAD", "IF", "RCP", "ENDIF" >>,
      << "IF", "IF", "MOV", "ENDIF", "ELSE", "STORE", "ENDIF" >> }}

\* A condition that is a constant.
UniformConditions == Shaders(<< "IFCONST", "MOV", "ENDIF" >>)

\* An instruction that reads three constants.
ThreeConsts == << "CONST1", "CONST2", "CONST3" >>
ThreeUniforms ==
  {<< [op |-> "MAD", dst |-> "OUT1", src |-> s] >> : s \in [1 .. 3 -> ToSet(ThreeConsts)]}

\* A sine.
Sines == Shaders(<< "SIN" >>)

\* Moves with a modifier, of a temporary or an input to an output.
ModifiedMoves ==
  UNION {Shaders(shape) : shape \in {<< "ADD", "MOV_SAT" >>, << "MOV_NEG" >>, << "MOV_ABS" >>}}

\* A temporary that is moved to an output which was written before.
WrittenTwice ==
  {<< [op |-> "RCP", dst |-> "TEMP1", src |-> << r >>], [op |-> "RCP", dst |-> "OUT1", src |-> << s >>],
      [op |-> "MOV", dst |-> "OUT1", src |-> << "TEMP1" >>] >> : r, s \in ToSet(MCInputs)}

\* A block that ends with the shader.
BlockLast == Shaders(<< "IF", "MOV", "ENDIF" >>)

\* Shaders that write an output each.
OneOutput == Shaders(<< "RCP", "STORE" >>)
=============================================================================
