------------------------------ MODULE CompilerProofs ------------------------------
(***************************************************************************)
(* Proofs about Compiler for every shader whose blocks are nested, and any *)
(* register files: what is assigned and emitted uses registers that were   *)
(* allocated, registers share one only one after the other, inputs are     *)
(* where the hardware leaves them, no instruction reads two uniforms, and  *)
(* every branch goes forward.                                              *)
(*                                                                         *)
(* Swapping the registers of an input must not disturb the ones in place   *)
(* already.  It does not since no two inputs share a temporary, and they do*)
(* not since an input gets a new one or that of a temporary which the walk *)
(* then leaves behind.  That there is a register to swap with follows by   *)
(* counting: the inputs still have different ones.                         *)
(***************************************************************************)
EXTENDS Compiler, FiniteSetTheorems, SequenceTheorems, TLAPS

-----------------------------------------------------------------------------
(* The invariant. *)

Numbers(n) == None .. n - 1

\* Strings; the provers are told of those the compiler writes.
Names == STRING \union {"", "0.0", "0.5", "MOV", "LOG", "MUL", "LITP", "SIN", "BRANCH_EQ", "BRANCH",
                        "ADD", "NOP"}

\* Temporaries below n, and t0 where a POSITION that is not written is scaled; operands
\* and instructions that use them; instructions that emit_inst has done with.
Usable(n) == {t \in Int : t < n \/ (t = 0 /\ DeclaresUnwritten)}
Opnds(n) == {o \in [uniform : BOOLEAN, reg : Int, swiz : Names] : o.uniform \/ o.reg \in Usable(n)}
Drafts(n) == [op : Names, dst : Usable(n), src : Seq(Opnds(n)), target : Int]
Insts(n) == {i \in Drafts(n) : Clashes(i) = {}}

Passes == {"temporaries", "optimize", "inputs", "outputs", "permute", "generate", "done", "rejected"}

Types ==
  /\ program \in Programs /\ processor \in Processors
  /\ pass \in Passes /\ (pass = "permute" => processor = "fragment")
  /\ at \in Nat \ {0}
  /\ at <= (IF pass = "permute" THEN Len(Inputs) ELSE Len(program)) + 1
  /\ next_free \in Nat
  /\ native \in [Registers -> Numbers(next_free)]
  /\ inner \in Numbers(next_free)
  /\ kept \subseteq ToSet(Temps)
  /\ dead \subseteq {i \in DOMAIN program : program[i].op \in MovOps}
  /\ inout_rest \subseteq Registers /\ temp_rest \subseteq Active(Temps)
  /\ code \in Seq(Insts(next_free))

\* A label that is not placed is awaited by a frame, and the ELSE of a frame that has
\* two labels was in this block.
Awaits(frame) == IF frame.endif # None THEN frame.endif ELSE frame.else
ElseSeen(d) ==
  \E i \in 1 .. at - 1 :
    /\ program[i].op = "ELSE" /\ Depth(program, i) = d
    /\ \A k \in i .. at - 1 : program[k].op = "ENDIF" => Depth(program, k) # d
Blocks ==
  /\ \A l \in DOMAIN labels : labels[l] = None => \E d \in DOMAIN frames : Awaits(frames[d]) = l
  /\ \A d \in DOMAIN frames : frames[d].endif # None => ElseSeen(d)

\* As many frames as blocks are open.
Frames ==
  /\ labels \in Seq(None .. Len(code))
  /\ usage \in [DOMAIN usage -> 1 .. Len(labels)]
  /\ frames \in Seq([else : 1 .. Len(labels), endif : (1 .. Len(labels)) \union {None}])
  /\ IF pass = "generate"
     THEN Len(frames) = Count(program, "IF", at - 1) - Count(program, "ENDIF", at - 1)
     ELSE frames = << >>
  /\ Blocks
  /\ pass = "done" => WithinLimits(code)

\* No two inputs share a temporary, and an input shares only with a TGSI temporary
\* that the walk has passed.
Apart ==
  /\ \A r, s \in Active(Inputs) : native[r] = native[s] /\ native[r] # None => r = s
  /\ pass = "temporaries" => \A r \in Registers : native[r] \in {None, 0}
  /\ pass \in {"optimize", "inputs", "outputs"} => \A t \in ToSet(Temps) : native[t] # None
  /\ pass \in {"optimize", "inputs"} =>
       /\ \A s, t \in ToSet(Temps) : native[s] = native[t] => s = t
       /\ \A r \in Active(Inputs), t \in ToSet(Temps) :
            native[r] = native[t] => pass = "inputs" /\ t \notin temp_rest
  /\ pass = "inputs" => inout_rest \subseteq Active(Inputs)
  /\ pass = "outputs" => inout_rest \subseteq Active(Outputs)
  /\ pass \notin {"temporaries", "optimize"} =>
       \A r \in Active(Inputs) : native[r] = None => pass = "inputs" /\ r \in inout_rest

\* In a fragment shader t0 is for POSITION, and the inputs permuted so far are in
\* their places.
Places ==
  processor = "fragment" =>
    /\ next_free > 0
    /\ \A r \in Registers : native[r] = 0 => Fixed(r)
    /\ pass \in {"permute", "generate", "done", "rejected"} =>
         \A i \in DOMAIN Inputs : Varying(i) /\ (pass = "permute" => i < at) =>
           native[Inputs[i]] = NativeIdx(i)

Inv == Types /\ Frames /\ Apart /\ Places

-----------------------------------------------------------------------------
(* What the assumptions give. *)

LEMMA FilesFacts ==
  /\ Inputs \in Seq(ToSet(Inputs)) /\ Outputs \in Seq(ToSet(Outputs))
  /\ Temps \in Seq(ToSet(Temps)) /\ Consts \in Seq(ToSet(Consts))
  /\ IsInjective(Inputs) /\ IsInjective(Temps)
  /\ ToSet(Inputs) \intersect ToSet(Outputs) = {} /\ ToSet(Inputs) \intersect ToSet(Temps) = {}
  /\ ToSet(Outputs) \intersect ToSet(Temps) = {}
  /\ Positions \intersect ToSet(Temps) = {}
  /\ \A r, s \in Positions \intersect ToSet(Inputs) : r = s
<1>1. /\ Files[1] = Inputs /\ Files[2] = Outputs /\ Files[3] = Temps /\ Files[4] = Consts
      /\ {1, 2, 3, 4} \subseteq DOMAIN Files
  BY DEF Files
<1>2. /\ \A f \in {1, 2, 3, 4} : Files[f] \in Seq(ToSet(Files[f])) /\ IsInjective(Files[f])
      /\ \A f, g \in {1, 2, 3, 4} : f # g => ToSet(Files[f]) \intersect ToSet(Files[g]) = {}
  BY <1>1, FilesAssumption
<1>3. ToSet(Files[1]) \intersect ToSet(Files[2]) = {} /\ ToSet(Files[1]) \intersect ToSet(Files[3]) = {}
      /\ ToSet(Files[2]) \intersect ToSet(Files[3]) = {}
  BY <1>2
<1>4. QED BY <1>1, <1>2, <1>3, FilesAssumption

LEMMA FileFacts ==
  ASSUME NEW file \in {Inputs, Outputs, Temps}
  PROVE  Len(file) \in Nat /\ DOMAIN file = 1 .. Len(file) /\ Active(file) \subseteq ToSet(file)
         /\ ToSet(file) \subseteq Registers /\ \A i \in 1 .. Len(file) : file[i] \in ToSet(file)
<1>1. file \in Seq(ToSet(file))
  BY FilesFacts
<1>2. Len(file) \in Nat /\ DOMAIN file = 1 .. Len(file)
  BY <1>1, LenProperties
<1>3. QED BY <1>2 DEF Active, Registers, ToSet

LEMMA ProgramFacts ==
  ASSUME program \in Programs
  PROVE  /\ Len(program) \in Nat /\ DOMAIN program = 1 .. Len(program)
         /\ Count(program, "IF", Len(program)) = Count(program, "ENDIF", Len(program))
         /\ \A i \in 1 .. Len(program) :
              /\ program[i].op \in Names /\ program[i].src \in Seq(Operands)
              /\ Len(program[i].src) \in 0 .. 3
              /\ program[i].op \in MovOps \union {"LIT", "SIN", "IF"} =>
                   Len(program[i].src) = 1 /\ program[i].src[1] \in Operands
              /\ program[i].op \in {"ELSE", "ENDIF"} => Depth(program, i) > 0
              /\ program[i].op \notin {"BRANCH", "BRANCH_EQ"}
         /\ \A i, j \in 1 .. Len(program) :
              i < j /\ program[i].op = "ELSE" /\ program[j].op = "ELSE"
                /\ Depth(program, i) = Depth(program, j) =>
                  \E k \in i .. j : program[k].op = "ENDIF" /\ Depth(program, k) = Depth(program, i)
<1> DEFINE D == [op : STRING, dst : Registers \union {""}, src : Seq(Operands)]
<1>1. program \in Seq(D)
  BY ProgramsAssumption
<1>2. Len(program) \in Nat /\ DOMAIN program = 1 .. Len(program)
  BY <1>1, LenProperties
<1>3. ASSUME NEW i \in 1 .. Len(program)
      PROVE  /\ program[i].op \in Names /\ program[i].src \in Seq(Operands)
             /\ Len(program[i].src) \in 0 .. 3
             /\ program[i].op \in MovOps \union {"LIT", "SIN", "IF"} =>
                  Len(program[i].src) = 1 /\ program[i].src[1] \in Operands
             /\ program[i].op \in {"ELSE", "ENDIF"} => Depth(program, i) > 0
             /\ program[i].op \notin {"BRANCH", "BRANCH_EQ"}
  <2> DEFINE src == program[i].src
  <2>1. program[i] \in D
    <3> HIDE DEF D
    <3>1. QED BY <1>1, <1>2
  <2>2. program[i].op \in Names /\ program[i].src \in Seq(Operands)
    BY <2>1 DEF Names
  <2>3. /\ Len(program[i].src) <= 3
        /\ program[i].op \in MovOps \union {"LIT", "SIN", "IF"} => Len(program[i].src) = 1
        /\ program[i].op \in {"ELSE", "ENDIF"} => Depth(program, i) > 0
        /\ program[i].op \notin {"BRANCH", "BRANCH_EQ"}
    BY <1>2, ProgramsAssumption
  <2> HIDE DEF D, src
  <2>4. Len(src) \in Nat /\ \A k \in 1 .. Len(src) : src[k] \in Operands
    BY <2>2, LenProperties DEF src
  <2> DEFINE len == Len(src)
  <2>5. Len(src) \in 0 .. 3 /\ (Len(src) = 1 => src[1] \in Operands)
    <3>1. len <= 3
      BY <2>3 DEF src
    <3>2. len \in Nat /\ \A k \in 1 .. len : src[k] \in Operands
      BY <2>4
    <3> HIDE DEF len
    <3>3. len \in 0 .. 3 /\ (len = 1 => src[1] \in Operands)
      BY <3>1, <3>2
    <3>4. QED BY <3>3 DEF len
  <2>6. QED BY <2>2, <2>3, <2>5 DEF src
<1>4. Count(program, "IF", Len(program)) = Count(program, "ENDIF", Len(program))
  BY ProgramsAssumption
<1>5. \A i, j \in 1 .. Len(program) :
        i < j /\ program[i].op = "ELSE" /\ program[j].op = "ELSE"
          /\ Depth(program, i) = Depth(program, j) =>
            \E k \in i .. j : program[k].op = "ENDIF" /\ Depth(program, k) = Depth(program, i)
  BY <1>2, ProgramsAssumption
<1>6. QED BY <1>2, <1>3, <1>4, <1>5

\* What depends on the shader only does not change.
LEMMA ShaderSame ==
  ASSUME UNCHANGED shader
  PROVE  /\ program' = program /\ processor' = processor
         /\ \A r : Uses(r)' = Uses(r) /\ Fixed(r)' = Fixed(r)
         /\ Active(Inputs)' = Active(Inputs) /\ Active(Outputs)' = Active(Outputs)
         /\ Active(Temps)' = Active(Temps)
         /\ \A i : Varying(i)' = Varying(i)
<1>1. program' = program /\ processor' = processor
  BY DEF shader
<1>2. \A r : Uses(r)' = Uses(r) /\ Fixed(r)' = Fixed(r)
  BY <1>1 DEF Uses, Fixed
<1>3. QED BY <1>1, <1>2 DEF Active, Varying

LEMMA NumbersOf ==
  ASSUME NEW n \in Nat, NEW m \in Nat, n <= m
  PROVE  /\ Numbers(n) \subseteq Numbers(m) /\ None \in Numbers(n) /\ n \in Numbers(m + 1)
         /\ n \notin Numbers(n) /\ Seq(Opnds(n)) \subseteq Seq(Opnds(m))
         /\ Numbers(n) \subseteq Usable(n) /\ Usable(n) \subseteq Usable(m)
         /\ Seq(Insts(n)) \subseteq Seq(Insts(m))
<1>1. Numbers(n) \subseteq Numbers(m) /\ None \in Numbers(n) /\ n \in Numbers(m + 1) /\ n \notin Numbers(n)
  BY DEF Numbers, None
<1>7. Numbers(n) \subseteq Usable(n) /\ Usable(n) \subseteq Usable(m)
  BY DEF Numbers, Usable, None
<1>2. Opnds(n) \subseteq Opnds(m)
  BY <1>7 DEF Opnds
<1>3. Seq(Opnds(n)) \subseteq Seq(Opnds(m))
  BY <1>2
<1>4. Insts(n) \subseteq Insts(m)
  BY <1>3, <1>7 DEF Insts, Drafts
<1>5. Seq(Insts(n)) \subseteq Seq(Insts(m))
  BY <1>4
<1>6. QED BY <1>1, <1>3, <1>5, <1>7

-----------------------------------------------------------------------------
(* The passes that assign registers. *)

LEMMA TypesKept ==
  ASSUME Types, UNCHANGED << shader, output >>, pass' \in Passes,
         pass' = "permute" => processor = "fragment", at' \in Nat \ {0},
         at' <= (IF pass' = "permute" THEN Len(Inputs) ELSE Len(program)) + 1,
         next_free' \in Nat, next_free <= next_free', native' \in [Registers -> Numbers(next_free')],
         kept' \subseteq ToSet(Temps), dead' \subseteq {i \in DOMAIN program : program[i].op \in MovOps},
         inout_rest' \subseteq Registers, temp_rest' \subseteq Active(Temps)
  PROVE  Types'
<1>1. UNCHANGED << shader, code, inner >>
  BY DEF output
<1>2. code \in Seq(Insts(next_free')) /\ inner \in Numbers(next_free')
  BY NumbersOf DEF Types
<1>3. QED BY <1>1, <1>2, ShaderSame DEF Types

LEMMA NoneOpen ==
  ASSUME program \in Programs, NEW op
  PROVE  Count(program, op, 0) = 0
<1>1. 1 .. 0 = {}
  OBVIOUS
<1>2. {j \in 1 .. 0 : program[j].op = op} = {}
  BY <1>1
<1>3. QED BY <1>2, FS_EmptySet DEF Count

LEMMA FramesKept ==
  ASSUME Types, Frames, UNCHANGED << shader, output >>, pass \notin {"generate", "done", "rejected"},
         pass' # "done", pass' = "generate" => at' = 1
  PROVE  Frames'
<1>1. UNCHANGED << program, code, usage, labels, frames >>
  BY DEF output, shader
<1>2. frames = << >> /\ Len(frames) = 0
  BY DEF Frames
<1>3. ASSUME pass' = "generate"
      PROVE  (Len(frames) = Count(program, "IF", at - 1) - Count(program, "ENDIF", at - 1))'
  <2>1. at' - 1 = 0
    BY <1>3
  <2>2. Count(program', "IF", at' - 1) = 0 /\ Count(program', "ENDIF", at' - 1) = 0
    BY <1>1, <2>1, NoneOpen DEF Types
  <2>3. QED BY <1>1, <1>2, <2>2
<1>4. DOMAIN frames = {}
  BY <1>2
<1>5. Blocks'
  BY <1>1, <1>4 DEF Frames, Blocks
<1>6. QED BY <1>1, <1>2, <1>3, <1>5 DEF Frames

\* An input is fixed at most.
LEMMA InitInv == Init => Inv
<1> SUFFICES ASSUME Init PROVE Inv
  OBVIOUS
<1>1. /\ program \in Programs /\ processor \in Processors /\ pass = "temporaries" /\ at = 1
      /\ kept = {} /\ dead = {} /\ inout_rest = {} /\ temp_rest = {} /\ inner = None
      /\ code = << >> /\ usage = << >> /\ labels = << >> /\ frames = << >>
      /\ next_free = (IF processor = "fragment" THEN 1 ELSE 0)
      /\ native = [r \in Registers |-> IF Fixed(r) /\ Uses(r) # {} THEN 0 ELSE None]
  BY DEF Init
<1>2. next_free \in Nat /\ None \in Numbers(next_free) /\ (processor = "fragment" => 0 \in Numbers(next_free))
  BY <1>1 DEF Numbers, None
<1>3. \A r \in Registers : /\ native[r] \in {None, 0} \intersect Numbers(next_free)
                           /\ native[r] # None => Fixed(r)
  BY <1>1, <1>2 DEF Fixed
<1>4. Types
  <2>1. native \in [Registers -> Numbers(next_free)]
    BY <1>1, <1>3
  <2>2. Len(program) \in Nat
    BY <1>1, ProgramFacts
  <2>3. QED BY <1>1, <1>2, <2>1, <2>2 DEF Types, Passes
<1>5. Frames
  BY <1>1 DEF Frames, Blocks
<1>6. Apart
  <2>1. ASSUME NEW r \in Active(Inputs), NEW s \in Active(Inputs), native[r] = native[s], native[r] # None
        PROVE  r = s
    <3>1. r \in Registers /\ s \in Registers /\ r \in ToSet(Inputs) /\ s \in ToSet(Inputs)
      BY FileFacts
    <3>2. r \in Positions /\ s \in Positions
      BY <1>3, <2>1, <3>1 DEF Fixed
    <3>3. QED BY <3>1, <3>2, FilesFacts
  <2>2. QED BY <1>1, <1>3, <2>1 DEF Apart
<1>7. Places
  BY <1>1, <1>3 DEF Places, None
<1>8. QED BY <1>4, <1>5, <1>6, <1>7 DEF Inv

\* Where a register of the temporaries is.
LEMMA TempIndex ==
  ASSUME NEW t \in ToSet(Temps)
  PROVE  LET i == CHOOSE i \in DOMAIN Temps : Temps[i] = t
         IN  i \in 1 .. Len(Temps) /\ Temps[i] = t
<1>1. DOMAIN Temps = 1 .. Len(Temps)
  BY FileFacts
<1>2. \E i \in DOMAIN Temps : Temps[i] = t
  BY DEF ToSet
<1>3. QED BY <1>1, <1>2

LEMMA TemporariesInv == Inv /\ AssignTemporaries => Inv'
<1> SUFFICES ASSUME Inv, AssignTemporaries PROVE Inv'
  OBVIOUS
<1> DEFINE index(t) == CHOOSE i \in DOMAIN Temps : Temps[i] = t
<1>1. /\ pass = "temporaries" /\ pass' = "optimize" /\ next_free' = next_free + Len(Temps)
      /\ native' = [r \in Registers |-> IF r \in ToSet(Temps) THEN next_free + index(r) - 1
                                        ELSE native[r]]
      /\ UNCHANGED << shader, at, kept, dead, inout_rest, temp_rest, output >>
  BY DEF AssignTemporaries, walk
<1>2. \A t \in ToSet(Temps) : index(t) \in 1 .. Len(Temps) /\ Temps[index(t)] = t /\ t \in Registers
  BY TempIndex, FileFacts
<1> HIDE DEF index
<1>3. next_free \in Nat /\ Len(Temps) \in Nat /\ native \in [Registers -> Numbers(next_free)]
  BY FileFacts DEF Inv, Types
<1> DEFINE len == Len(Temps)
<1>4. ASSUME NEW t \in ToSet(Temps)
      PROVE  native'[t] = next_free + index(t) - 1 /\ native'[t] \in Nat /\ native'[t] >= next_free
             /\ native'[t] < next_free'
  <2>1. native'[t] = next_free + index(t) - 1 /\ index(t) \in 1 .. len /\ len \in Nat /\ next_free \in Nat
        /\ next_free' = next_free + len
    BY <1>1, <1>2, <1>3
  <2> HIDE DEF len
  <2>2. QED BY <2>1
<1>5. \A r \in Registers \ ToSet(Temps) : native'[r] = native[r]
  BY <1>1
<1>6. next_free' \in Nat /\ next_free <= next_free'
  BY <1>1, <1>3
<1>7. native' \in [Registers -> Numbers(next_free')]
  <2>1. ASSUME NEW r \in Registers PROVE native'[r] \in Numbers(next_free')
    <3>1. CASE r \in ToSet(Temps)
      BY <1>4, <1>6, <3>1 DEF Numbers, None
    <3>2. CASE r \notin ToSet(Temps)
      BY <1>3, <1>5, <1>6, <3>2, NumbersOf
    <3>3. QED BY <3>1, <3>2
  <2>2. native' = [r \in Registers |-> native'[r]]
    BY <1>1
  <2>3. QED BY <2>1, <2>2
<1>8. Types'
  BY <1>1, <1>6, <1>7, TypesKept DEF Inv, Types, Passes
<1>9. Frames'
  BY <1>1, FramesKept DEF Inv
<1>10. \A r \in Active(Inputs) : r \in Registers \ ToSet(Temps) /\ native'[r] = native[r]
                                /\ native[r] \in {None, 0} /\ native[r] < next_free
  <2>1. \A r \in Active(Inputs) : r \in Registers \ ToSet(Temps)
    BY FileFacts, FilesFacts
  <2>2. QED BY <1>1, <1>3, <1>5, <2>1 DEF Inv, Apart, Numbers, None
<1>11. Apart'
  <2>1. ASSUME NEW s \in ToSet(Temps), NEW t \in ToSet(Temps), native'[s] = native'[t]
        PROVE  s = t
    <3>1. index(s) = index(t)
      BY <1>2, <1>3, <1>4, <2>1
    <3>2. QED BY <1>2, <3>1
  <2>2. \A s \in ToSet(Temps) : native'[s] # None
    BY <1>4 DEF None
  <2>3. \A r \in Active(Inputs), t \in ToSet(Temps) : native'[r] # native'[t]
    BY <1>3, <1>4, <1>10 DEF None
  <2>4. \A r, s \in Active(Inputs) : native'[r] = native'[s] /\ native'[r] # None => r = s
    BY <1>10 DEF Inv, Apart
  <2>5. Active(Inputs)' = Active(Inputs)
    BY <1>1, ShaderSame
  <2>6. QED BY <1>1, <2>1, <2>2, <2>3, <2>4, <2>5 DEF Apart
<1>12. Places'
  <2>1. ASSUME processor = "fragment" PROVE next_free' > 0 /\ \A r \in Registers : native'[r] = 0 => Fixed(r)
    <3>1. next_free > 0 /\ \A r \in Registers : native[r] = 0 => Fixed(r)
      BY <2>1 DEF Inv, Places
    <3>2. \A t \in ToSet(Temps) : native'[t] # 0
      BY <1>3, <1>4, <3>1
    <3>3. next_free' > 0
      BY <1>3, <1>6, <3>1
    <3>4. QED BY <1>5, <3>1, <3>2, <3>3
  <2>2. processor' = processor /\ \A r : Fixed(r)' = Fixed(r)
    BY <1>1, ShaderSame
  <2>3. QED BY <1>1, <2>1, <2>2 DEF Places
<1>13. QED BY <1>8, <1>9, <1>11, <1>12 DEF Inv

\* The registers of inputs and temporaries stay.
LEMMA ApartKept ==
  ASSUME Apart, UNCHANGED shader, pass' = pass, pass # "temporaries",
         \A s \in ToSet(Inputs) \union ToSet(Temps) : native'[s] = native[s],
         inout_rest' \subseteq inout_rest, temp_rest' \subseteq temp_rest,
         \A r \in inout_rest \ inout_rest' : pass = "inputs" => native[r] # None
  PROVE  Apart'
<1>1. Active(Inputs)' = Active(Inputs) /\ Active(Outputs)' = Active(Outputs)
  BY ShaderSame
<1>2. \A s \in Active(Inputs) : native'[s] = native[s]
  BY FileFacts
<1>3. QED BY <1>1, <1>2 DEF Apart

\* An input gets a register that no other has, nor a temporary still to come.
LEMMA ApartSet ==
  ASSUME Apart, UNCHANGED shader, pass' = pass, pass \in {"optimize", "inputs"},
         NEW r \in Active(Inputs), NEW v, native'[r] = v, v # None, native[r] = None,
         \A s \in (ToSet(Inputs) \union ToSet(Temps)) \ {r} : native'[s] = native[s],
         inout_rest' \subseteq inout_rest, temp_rest' \subseteq temp_rest,
         inout_rest \ inout_rest' \subseteq {r},
         \A s \in Active(Inputs) : native[s] # v,
         \A t \in ToSet(Temps) : native[t] = v => pass = "inputs" /\ t \notin temp_rest'
  PROVE  Apart'
<1>1. Active(Inputs)' = Active(Inputs) /\ Active(Outputs)' = Active(Outputs)
  BY ShaderSame
<1>2. \A s \in Active(Inputs) \ {r} : native'[s] = native[s]
  BY FileFacts
<1>3. \A t \in ToSet(Temps) : native'[t] = native[t] /\ t # r
  BY FileFacts, FilesFacts
<1>4. QED BY <1>1, <1>2, <1>3 DEF Apart

LEMMA PlacesKept ==
  ASSUME Places, UNCHANGED shader, pass' \notin {"permute", "generate", "done", "rejected"},
         next_free \in Nat, next_free' \in Nat, next_free <= next_free',
         processor = "fragment" => \A r \in Registers : native'[r] = 0 => Fixed(r)
  PROVE  Places'
<1>1. processor' = processor /\ \A r : Fixed(r)' = Fixed(r)
  BY ShaderSame
<1>2. QED BY <1>1 DEF Places

\* Temporaries have registers, never t0 of a fragment shader.
LEMMA TempRegister ==
  ASSUME Inv, pass \in {"optimize", "inputs", "outputs"}, NEW t \in ToSet(Temps)
  PROVE  native[t] \in Numbers(next_free) /\ native[t] # None /\ (processor = "fragment" => native[t] # 0)
<1>1. t \in Registers
  BY FileFacts
<1>2. t \notin Positions
  BY FilesFacts
<1>3. QED BY <1>1, <1>2 DEF Inv, Types, Apart, Places, Fixed

LEMMA OptimizeInv == Inv /\ OptimizeOutputs => Inv'
<1> SUFFICES ASSUME Inv, OptimizeOutputs PROVE Inv'
  OBVIOUS
<1> DEFINE dst == Current.dst
           src == Current.src[1]
<1>1. /\ pass = "optimize" /\ at <= Len(program) /\ at' = at + 1 /\ pass' = pass
      /\ UNCHANGED << shader, inout_rest, temp_rest, output >>
      /\ ShareTemp \/ ShareInput \/ ShareNothing
  BY DEF OptimizeOutputs, Optimize, walk
<1>2. /\ next_free \in Nat /\ native \in [Registers -> Numbers(next_free)] /\ at \in 1 .. Len(program)
      /\ kept \subseteq ToSet(Temps) /\ dead \subseteq {i \in DOMAIN program : program[i].op \in MovOps}
      /\ program \in Programs /\ Len(program) \in Nat /\ DOMAIN program = 1 .. Len(program)
  BY <1>1, ProgramFacts DEF Inv, Types
<1>3. ASSUME next_free' \in Nat, next_free <= next_free', native' \in [Registers -> Numbers(next_free')],
             kept' \subseteq ToSet(Temps), dead' \subseteq dead \union {at},
             at \in dead' => Current.op \in MovOps \/ at \in dead
      PROVE  Types' /\ Frames'
  <2>1. at' \in Nat \ {0} /\ at' <= Len(program) + 1
    BY <1>1, <1>2
  <2>2. dead' \subseteq {i \in DOMAIN program : program[i].op \in MovOps}
    BY <1>2, <1>3 DEF Current
  <2>3. Types'
    BY <1>1, <1>3, <2>1, <2>2, TypesKept DEF Inv, Types, Passes
  <2>4. QED BY <1>1, <2>3, FramesKept DEF Inv
<1>4. CASE ShareTemp
  <2>1. /\ Current.op \in MovOps /\ dst \in ToSet(Outputs) /\ src \in ToSet(Temps) /\ native[dst] = None
        /\ native' = [native EXCEPT ![dst] = native[src]] /\ kept' = kept \union {src}
        /\ dead' = dead \union {at} /\ next_free' = next_free
    BY <1>4 DEF ShareTemp, FromTemp
  <2> HIDE DEF dst, src
  <2>2. dst \in Registers /\ native[src] \in Numbers(next_free)
        /\ (processor = "fragment" => native[src] # 0)
    BY <1>1, <2>1, FileFacts, TempRegister
  <2>3. native' \in [Registers -> Numbers(next_free')]
    BY <1>2, <2>1, <2>2
  <2>4. Types' /\ Frames'
    BY <1>2, <1>3, <2>1, <2>3
  <2>5. \A s \in ToSet(Inputs) \union ToSet(Temps) : native'[s] = native[s]
    <3>1. \A s \in ToSet(Inputs) \union ToSet(Temps) : s \in Registers /\ s # dst
      BY <2>1, FileFacts, FilesFacts
    <3>2. QED BY <1>2, <2>1, <3>1
  <2>6. Apart'
    BY <1>1, <2>5, ApartKept DEF Inv
  <2>7. Places'
    <3>1. processor = "fragment" => \A r \in Registers : native'[r] = 0 => Fixed(r)
      BY <1>2, <2>1, <2>2 DEF Inv, Places
    <3>2. QED BY <1>1, <1>2, <2>1, <3>1, PlacesKept DEF Inv
  <2>8. QED BY <2>4, <2>6, <2>7 DEF Inv
<1>5. CASE ShareInput
  <2>1. /\ Current.op \in MovOps /\ dst \in ToSet(Outputs) /\ src \in ToSet(Inputs) /\ native[src] = None
        /\ native' = [native EXCEPT ![dst] = next_free, ![src] = next_free]
        /\ dead' = dead \union {at} /\ next_free' = next_free + 1 /\ kept' = kept
    BY <1>5 DEF ShareInput, FromInput
  <2>2. src \in Active(Inputs)
    <3>1. Len(Current.src) = 1 /\ DOMAIN Current.src = {1}
      <4>1. Current.src \in Seq(Operands) /\ Len(Current.src) = 1
        BY <1>2, <2>1, ProgramFacts DEF Current
      <4>2. QED BY <4>1
    <3>2. src \in ToSet(Current.src)
      BY <3>1 DEF ToSet
    <3>3. at \in Uses(src)
      BY <1>2, <3>2 DEF Uses, Current
    <3>4. QED BY <2>1, <3>3 DEF Active
  <2> HIDE DEF dst, src
  <2>3. dst \in Registers /\ src \in Registers /\ next_free \in Numbers(next_free')
        /\ next_free' \in Nat /\ next_free <= next_free'
    BY SMTT(30), <1>2, <2>1, FileFacts, NumbersOf
  <2>4. native \in [Registers -> Numbers(next_free')]
    BY <1>2, <2>3, NumbersOf
  <2>5. native' \in [Registers -> Numbers(next_free')]
    BY <2>1, <2>3, <2>4
  <2>6. Types' /\ Frames'
    BY <1>2, <1>3, <2>1, <2>3, <2>5
  <2>7. \A s \in (ToSet(Inputs) \union ToSet(Temps)) \ {src} : native'[s] = native[s]
    <3>1. \A s \in (ToSet(Inputs) \union ToSet(Temps)) \ {src} : s \in Registers /\ s # dst
      BY <2>1, FileFacts, FilesFacts
    <3>2. QED BY <1>2, <2>1, <3>1
  <2>8. \A r \in Registers : native[r] # next_free
    BY <1>2, NumbersOf
  <2>9. Apart'
    <3>1. native'[src] = next_free /\ next_free # None
      BY <1>2, <2>1, <2>3 DEF None
    <3>2. \A s \in ToSet(Inputs) \union ToSet(Temps) : native[s] # next_free
      BY <2>8, FileFacts
    <3>3. \A s \in Active(Inputs) : native[s] # next_free
      BY <3>2, FileFacts
    <3>4. QED BY <1>1, <2>1, <2>2, <2>7, <3>1, <3>2, <3>3, ApartSet DEF Inv
  <2>10. Places'
    <3>1. processor = "fragment" => \A r \in Registers : native'[r] = 0 => Fixed(r)
      BY <1>2, <2>1, <2>3 DEF Inv, Places
    <3>2. QED BY <1>1, <1>2, <2>3, <3>1, PlacesKept DEF Inv
  <2>11. QED BY <2>6, <2>9, <2>10 DEF Inv
<1>6. CASE ShareNothing
  <2>1. UNCHANGED << native, next_free, kept, dead >>
    BY <1>6 DEF ShareNothing
  <2>2. Types' /\ Frames'
    BY <1>2, <1>3, <2>1
  <2>3. Apart'
    BY <1>1, <2>1, ApartKept DEF Inv
  <2>4. Places'
    <3>1. processor = "fragment" => \A r \in Registers : native'[r] = 0 => Fixed(r)
      BY <2>1 DEF Inv, Places
    <3>2. QED BY <1>1, <1>2, <2>1, <3>1, PlacesKept DEF Inv
  <2>5. QED BY <2>2, <2>3, <2>4 DEF Inv
<1>7. QED BY <1>1, <1>4, <1>5, <1>6

\* The walk.
LEMMA InoutsInv == Inv /\ AssignInouts => Inv'
<1> SUFFICES ASSUME Inv, AssignInouts PROVE Inv'
  OBVIOUS
<1>1. PICK r \in inout_rest : \/ SkipAssigned(r) \/ AllocNext(r)
                              \/ \E t \in temp_rest : ShareNext(r, t) \/ SkipTemp(r, t)
  BY DEF AssignInouts
<1>2. /\ pass \in {"inputs", "outputs"} /\ pass' = pass /\ at' = at /\ kept' = kept /\ dead' = dead
      /\ UNCHANGED << shader, output >>
  BY DEF AssignInouts
<1>3. /\ next_free \in Nat /\ native \in [Registers -> Numbers(next_free)] /\ r \in Registers
      /\ inout_rest \subseteq Registers /\ temp_rest \subseteq Active(Temps)
  BY <1>1 DEF Inv, Types
<1>4. /\ pass = "inputs" => r \in Active(Inputs) /\ r \in ToSet(Inputs)
      /\ pass = "outputs" => r \in ToSet(Outputs) /\ r \notin ToSet(Inputs) \union ToSet(Temps)
  BY <1>1, FileFacts, FilesFacts DEF Inv, Apart
<1>5. ASSUME next_free' \in Nat, next_free <= next_free', native' \in [Registers -> Numbers(next_free')],
             inout_rest' \subseteq inout_rest, temp_rest' \subseteq temp_rest,
             processor = "fragment" => \A s \in Registers : native'[s] = 0 => Fixed(s)
      PROVE  Types' /\ Frames' /\ Places'
  <2>1. Types'
    BY <1>2, <1>5, TypesKept DEF Inv, Types
  <2>2. Frames'
    BY <1>2, FramesKept DEF Inv
  <2>3. Places'
    BY <1>2, <1>3, <1>5, PlacesKept DEF Inv
  <2>4. QED BY <2>1, <2>2, <2>3
<1>6. CASE native' = native /\ next_free' = next_free /\ inout_rest' \subseteq inout_rest
           /\ temp_rest' \subseteq temp_rest /\ \A s \in inout_rest \ inout_rest' : native[s] # None
  <2>1. Types' /\ Frames' /\ Places'
    BY <1>3, <1>5, <1>6 DEF Inv, Places
  <2>2. Apart'
    BY <1>2, <1>6, ApartKept DEF Inv
  <2>3. QED BY <2>1, <2>2 DEF Inv
\* A register is given.
<1>7. ASSUME NEW v \in Numbers(next_free'), v # None, native[r] = None,
             native' = [native EXCEPT ![r] = v], next_free' \in Nat, next_free <= next_free',
             processor = "fragment" => v # 0, inout_rest' = inout_rest \ {r},
             temp_rest' \subseteq temp_rest,
             pass = "inputs" =>
               /\ \A s \in Active(Inputs) : native[s] # v
               /\ \A t \in ToSet(Temps) : native[t] = v => t \notin temp_rest'
      PROVE  Inv'
  <2>1. native' \in [Registers -> Numbers(next_free')] /\ native'[r] = v
        /\ \A s \in Registers \ {r} : native'[s] = native[s]
    <3>1. native \in [Registers -> Numbers(next_free')]
      BY <1>3, <1>7, NumbersOf
    <3>2. QED BY <1>3, <1>7, <3>1
  <2>2. processor = "fragment" => \A s \in Registers : native'[s] = 0 => Fixed(s)
    BY <1>7, <2>1 DEF Inv, Places
  <2>3. Types' /\ Frames' /\ Places'
    BY <1>5, <1>7, <2>1, <2>2
  <2>4. \A s \in (ToSet(Inputs) \union ToSet(Temps)) \ {r} : native'[s] = native[s]
    BY <2>1, FileFacts
  <2>5. CASE pass = "inputs"
    <3>1. inout_rest' \subseteq inout_rest /\ inout_rest \ inout_rest' \subseteq {r}
      BY <1>7
    <3>2. Apart'
      BY <1>2, <1>4, <1>7, <2>1, <2>4, <2>5, <3>1, ApartSet DEF Inv
    <3>3. QED BY <2>3, <3>2 DEF Inv
  <2>6. CASE pass = "outputs"
    <3>1. \A s \in ToSet(Inputs) \union ToSet(Temps) : native'[s] = native[s]
      BY <1>4, <2>4, <2>6
    <3>2. Apart'
      BY <1>2, <1>7, <2>6, <3>1, ApartKept DEF Inv
    <3>3. QED BY <2>3, <3>2 DEF Inv
  <2>7. QED BY <1>2, <2>5, <2>6
<1>8. CASE SkipAssigned(r)
  BY <1>6, <1>8 DEF SkipAssigned
<1>9. CASE AllocNext(r)
  <2>1. /\ native[r] = None /\ native' = [native EXCEPT ![r] = next_free]
        /\ next_free' = next_free + 1 /\ inout_rest' = inout_rest \ {r} /\ temp_rest' = temp_rest
    BY <1>9 DEF AllocNext
  <2>2. next_free \in Numbers(next_free') /\ next_free # None /\ next_free' \in Nat
        /\ next_free <= next_free'
    BY <1>3, <2>1, NumbersOf DEF None
  <2>3. \A s \in Registers : native[s] # next_free
    BY <1>3, NumbersOf
  <2>4. \A s \in Active(Inputs) \union ToSet(Temps) : native[s] # next_free
    BY <2>3, FileFacts
  <2>5. processor = "fragment" => next_free # 0
    BY <1>3 DEF Inv, Places
  <2>6. /\ \A s \in Active(Inputs) : native[s] # next_free
        /\ \A t \in ToSet(Temps) : native[t] = next_free => t \notin temp_rest'
    BY <2>4
  <2> DEFINE v == next_free
  <2> HIDE DEF v
  <2>7. QED BY <1>7, <2>1, <2>2, <2>5, <2>6 DEF v
<1>10. ASSUME NEW t \in temp_rest, ShareNext(r, t) PROVE Inv'
  <2>1. /\ native[r] = None /\ native' = [native EXCEPT ![r] = native[t]]
        /\ next_free' = next_free /\ inout_rest' = inout_rest \ {r} /\ temp_rest' = temp_rest \ {t}
    BY <1>10 DEF ShareNext
  <2>2. t \in ToSet(Temps)
    BY <1>3, <1>10, FileFacts
  <2>3. native[t] \in Numbers(next_free') /\ native[t] # None /\ (processor = "fragment" => native[t] # 0)
    BY <1>2, <2>1, <2>2, TempRegister
  <2>4. ASSUME pass = "inputs"
        PROVE  /\ \A s \in Active(Inputs) : native[s] # native[t]
               /\ \A u \in ToSet(Temps) : native[u] = native[t] => u \notin temp_rest'
    BY <1>10, <2>1, <2>2, <2>4 DEF Inv, Apart
  <2>5. next_free' \in Nat /\ next_free <= next_free' /\ temp_rest' \subseteq temp_rest
    BY <1>3, <2>1
  <2> DEFINE v == native[t]
  <2> HIDE DEF v
  <2>6. QED BY <1>7, <2>1, <2>3, <2>4, <2>5 DEF v
<1>11. ASSUME NEW t \in temp_rest, SkipTemp(r, t) PROVE Inv'
  BY <1>6, <1>11 DEF SkipTemp
<1>12. QED BY <1>1, <1>8, <1>9, <1>10, <1>11

LEMMA EndsInv == Inv /\ (EndOptimize \/ EndInputs \/ EndOutputs) => Inv'
<1> SUFFICES ASSUME Inv, EndOptimize \/ EndInputs \/ EndOutputs PROVE Inv'
  OBVIOUS
<1>1. /\ UNCHANGED << shader, native, kept, dead, next_free, output >>
      /\ \/ /\ pass = "optimize" /\ pass' = "inputs" /\ at' = at
            /\ inout_rest' = Active(Inputs) /\ temp_rest' = Active(Temps)
         \/ /\ pass = "inputs" /\ inout_rest = {} /\ pass' = "outputs" /\ at' = at
            /\ inout_rest' = Active(Outputs) /\ temp_rest' = Active(Temps)
         \/ /\ pass = "outputs" /\ at' = 1 /\ inout_rest' = inout_rest /\ temp_rest' = {}
            /\ pass' = (IF processor = "fragment" THEN "permute" ELSE "generate")
  BY DEF EndOptimize, EndInputs, EndOutputs
<1>2. /\ next_free \in Nat /\ native \in [Registers -> Numbers(next_free)]
      /\ kept \subseteq ToSet(Temps) /\ dead \subseteq {i \in DOMAIN program : program[i].op \in MovOps}
      /\ inout_rest \subseteq Registers /\ at \in Nat \ {0}
      /\ Len(program) \in Nat /\ Len(Inputs) \in Nat
      /\ at <= Len(program) + 1
  BY <1>1, ProgramFacts, FileFacts DEF Inv, Types
<1>3. /\ Active(Inputs) \subseteq Registers /\ Active(Outputs) \subseteq Registers
  BY FileFacts
<1>4. Types'
  <2>1. pass' \in Passes /\ at' \in Nat \ {0} /\ inout_rest' \subseteq Registers
        /\ temp_rest' \subseteq Active(Temps)
    BY <1>1, <1>2, <1>3 DEF Passes
  <2>2. at' <= (IF pass' = "permute" THEN Len(Inputs) ELSE Len(program)) + 1
    BY <1>1, <1>2
  <2>3. QED BY <1>1, <1>2, <2>1, <2>2, TypesKept DEF Inv
<1>5. Frames'
  BY <1>1, FramesKept DEF Inv
<1>6. /\ Active(Inputs)' = Active(Inputs) /\ Active(Outputs)' = Active(Outputs)
      /\ processor' = processor /\ \A r : Fixed(r)' = Fixed(r)
  BY <1>1, ShaderSame
<1>7. Apart'
  BY <1>1, <1>6 DEF Inv, Apart
<1>8. Places'
  <2>1. processor = "fragment" => next_free > 0 /\ \A r \in Registers : native[r] = 0 => Fixed(r)
    BY DEF Inv, Places
  <2>2. pass' = "permute" /\ at' = 1 => \A i \in DOMAIN Inputs : ~(i < at')
    BY FileFacts
  <2>3. QED BY <1>1, <1>6, <2>1, <2>2 DEF Places
<1>9. QED BY <1>4, <1>5, <1>7, <1>8 DEF Inv

-----------------------------------------------------------------------------
(* permute_ps_inputs. *)

\* The numbers of varyings ascend from 1.
LEMMA IdxFacts ==
  ASSUME NEW i \in Nat \ {0}
  PROVE  /\ NativeIdx(i) \in Nat \ {0} /\ IsFiniteSet({j \in 1 .. i - 1 : Varying(j)})
         /\ \A j \in 1 .. i - 1 : Varying(j) => NativeIdx(j) < NativeIdx(i)
         /\ Varying(i) => Cardinality({j \in 1 .. i : Varying(j)}) = NativeIdx(i)
                          /\ IsFiniteSet({j \in 1 .. i : Varying(j)})
<1> DEFINE before(k) == {j \in 1 .. k - 1 : Varying(j)}
<1>1. ASSUME NEW k \in Nat \ {0}
      PROVE  IsFiniteSet(before(k)) /\ Cardinality(before(k)) \in Nat
  <2>1. IsFiniteSet(1 .. k - 1)
    BY FS_Interval
  <2>2. QED BY <2>1, FS_Subset, FS_CardinalityType
<1>2. ASSUME NEW k \in Nat \ {0}, Varying(k)
      PROVE  Cardinality(before(k + 1)) = Cardinality(before(k)) + 1
  <2>1. before(k + 1) = before(k) \union {k} /\ k \notin before(k)
    BY <1>2
  <2> HIDE DEF before
  <2>2. QED BY <1>1, <2>1, FS_AddElement
<1>3. ASSUME NEW j \in 1 .. i - 1, Varying(j) PROVE NativeIdx(j) < NativeIdx(i)
  <2>1. before(j + 1) \subseteq before(i) /\ j \in Nat \ {0} /\ j + 1 \in Nat \ {0}
    OBVIOUS
  <2>2. NativeIdx(j) = 1 + Cardinality(before(j)) /\ NativeIdx(i) = 1 + Cardinality(before(i))
    BY DEF NativeIdx
  <2> HIDE DEF before
  <2>3. Cardinality(before(j + 1)) <= Cardinality(before(i))
    BY <1>1, <2>1, FS_Subset
  <2>4. Cardinality(before(j + 1)) = Cardinality(before(j)) + 1
    BY <1>2, <1>3, <2>1
  <2>5. Cardinality(before(j)) \in Nat /\ Cardinality(before(i)) \in Nat
    BY <1>1, <2>1
  <2>6. QED BY <2>2, <2>3, <2>4, <2>5
<1>4. NativeIdx(i) = 1 + Cardinality(before(i))
  BY DEF NativeIdx
<1>5. {j \in 1 .. i : Varying(j)} = before(i + 1) /\ i + 1 \in Nat \ {0}
  OBVIOUS
<1>6. {j \in 1 .. i - 1 : Varying(j)} = before(i)
  OBVIOUS
<1> HIDE DEF before
<1>7. QED BY <1>1, <1>2, <1>3, <1>4, <1>5, <1>6

\* While inputs are permuted: they have different registers above t0.
LEMMA Inplace ==
  ASSUME Inv, processor = "fragment", pass = "permute", NEW i \in 1 .. Len(Inputs), Varying(i)
  PROVE  /\ Inputs[i] \in Active(Inputs) /\ Inputs[i] \in Registers
         /\ native[Inputs[i]] \in 1 .. next_free - 1
         /\ \A j \in 1 .. Len(Inputs) : Varying(j) /\ native[Inputs[j]] = native[Inputs[i]] => i = j
<1>1. \A j \in 1 .. Len(Inputs) : Varying(j) => Inputs[j] \in Active(Inputs) /\ Inputs[j] \in Registers
  BY FileFacts DEF Active, Varying
<1>2. native[Inputs[i]] # None /\ native[Inputs[i]] \in Numbers(next_free) /\ next_free \in Nat
  BY <1>1 DEF Inv, Types, Apart
<1>3. native[Inputs[i]] # 0
  BY <1>1 DEF Inv, Places, Fixed, Varying
<1>4. native[Inputs[i]] \in 1 .. next_free - 1
  BY <1>2, <1>3 DEF Numbers, None
<1>5. ASSUME NEW j \in 1 .. Len(Inputs), Varying(j), native[Inputs[j]] = native[Inputs[i]]
      PROVE  i = j
  <2>1. Inputs[i] = Inputs[j]
    BY <1>1, <1>2, <1>5 DEF Inv, Apart
  <2>2. i \in DOMAIN Inputs /\ j \in DOMAIN Inputs
    BY FileFacts
  <2>3. QED BY <2>1, <2>2, FilesFacts DEF IsInjective
<1>6. QED BY <1>1, <1>4, <1>5

\* So there are as many registers as varyings.
LEMMA Room ==
  ASSUME Inv, processor = "fragment", pass = "permute", at \in 1 .. Len(Inputs), Varying(at)
  PROVE  NativeIdx(at) < next_free
<1> DEFINE S == {j \in 1 .. at : Varying(j)}
           T == 1 .. next_free - 1
           f == [j \in S |-> native[Inputs[j]]]
<1>1. Cardinality(S) = NativeIdx(at) /\ IsFiniteSet(S) /\ NativeIdx(at) \in Nat
  <2>1. at \in Nat \ {0}
    BY FileFacts
  <2>2. QED BY <2>1, IdxFacts
<1>2. next_free \in Nat /\ next_free > 0
  BY DEF Inv, Types, Places
<1>3. IsFiniteSet(T) /\ Cardinality(T) = next_free - 1
  BY <1>2, FS_Interval
<1>4. \A j \in S : j \in 1 .. Len(Inputs) /\ Varying(j)
  BY FileFacts
<1>5. f \in Injection(S, T)
  <2>1. \A j \in S : f[j] \in T
    BY <1>4, Inplace
  <2>2. \A i, j \in S : f[i] = f[j] => i = j
    BY <1>4, Inplace
  <2> HIDE DEF S, T
  <2>3. f \in [S -> T]
    BY <2>1
  <2>4. QED BY <2>2, <2>3 DEF Injection, IsInjective
<1> HIDE DEF S, T, f
<1>6. Cardinality(S) <= Cardinality(T)
  BY <1>1, <1>3, <1>5, FS_Injection DEF ExistsInjection
<1>7. QED BY <1>1, <1>2, <1>3, <1>6

LEMMA PermuteInv == Inv /\ PermuteInputs => Inv'
<1> SUFFICES ASSUME Inv, PermuteInputs PROVE Inv'
  OBVIOUS
<1> DEFINE x == Inputs[at]
           to == NativeIdx(at)
           from == native[x]
<1>1. /\ pass = "permute" /\ pass' = pass /\ at \in 1 .. Len(Inputs) /\ at' = at + 1
      /\ native' = (IF Varying(at) THEN SwapNative(to, from) ELSE native)
      /\ UNCHANGED << shader, kept, dead, inout_rest, temp_rest, next_free, output >>
  BY FileFacts DEF PermuteInputs, walk, Inv, Types
<1>2. /\ next_free \in Nat /\ native \in [Registers -> Numbers(next_free)]
      /\ kept \subseteq ToSet(Temps) /\ dead \subseteq {i \in DOMAIN program : program[i].op \in MovOps}
      /\ inout_rest \subseteq Registers /\ temp_rest \subseteq Active(Temps)
      /\ Len(Inputs) \in Nat
  BY FileFacts DEF Inv, Types
<1>3. /\ Active(Inputs)' = Active(Inputs) /\ processor' = processor
      /\ \A r : Fixed(r)' = Fixed(r) /\ \A i : Varying(i)' = Varying(i)
      /\ \A i : NativeIdx(i)' = NativeIdx(i)
  <2>1. \A i : Varying(i)' = Varying(i)
    BY <1>1, ShaderSame
  <2>2. \A i : NativeIdx(i)' = NativeIdx(i)
    BY <2>1 DEF NativeIdx
  <2>3. QED BY <1>1, <2>1, <2>2, ShaderSame
<1>4. processor = "fragment" /\ next_free > 0
  BY <1>1 DEF Inv, Types, Places
<1>5. ASSUME native' \in [Registers -> Numbers(next_free)],
             \A r \in Registers : /\ native'[r] = None => native[r] = None
                                  /\ native'[r] = 0 => native[r] = 0,
             \A r, s \in Active(Inputs) : native'[r] = native'[s] /\ native'[r] # None => r = s,
             \A i \in 1 .. at : Varying(i) => native'[Inputs[i]] = NativeIdx(i)
      PROVE  Inv'
  <2>1. Types'
    BY <1>1, <1>2, <1>4, <1>5, TypesKept DEF Inv, Types
  <2>2. Frames'
    BY <1>1, FramesKept DEF Inv
  <2>3. Active(Inputs) \subseteq Registers
    BY FileFacts
  <2>4. \A r \in Active(Inputs) : native'[r] # None
    BY <1>1, <1>5, <2>3 DEF Inv, Apart
  <2>5. Apart'
    BY <1>1, <1>3, <1>5, <2>4 DEF Apart
  <2>6. \A i \in DOMAIN Inputs : i < at' => i \in 1 .. at
    BY <1>1, <1>2, FileFacts
  <2>7. \A r \in Registers : native'[r] = 0 => Fixed(r)
    BY <1>4, <1>5 DEF Inv, Places
  <2>8. \A i \in DOMAIN Inputs : Varying(i) /\ i < at' => native'[Inputs[i]] = NativeIdx(i)
    BY <1>5, <2>6
  <2>9. Places'
    BY <1>1, <1>3, <1>4, <2>7, <2>8 DEF Places
  <2>10. QED BY <2>1, <2>2, <2>5, <2>9 DEF Inv
<1>6. \A i \in 1 .. Len(Inputs) : Varying(i) /\ i < at => native[Inputs[i]] = NativeIdx(i)
  BY <1>1, <1>4, FileFacts DEF Inv, Places
<1>7. CASE ~Varying(at)
  <2>1. native' = native
    BY <1>1, <1>7
  <2>2. \A i \in 1 .. at : Varying(i) => native[Inputs[i]] = NativeIdx(i)
    BY <1>1, <1>2, <1>6, <1>7
  <2>3. \A r, s \in Active(Inputs) : native[r] = native[s] /\ native[r] # None => r = s
    BY DEF Inv, Apart
  <2>4. QED BY <1>2, <1>5, <2>1, <2>2, <2>3
<1>8. CASE Varying(at)
  <2>1. /\ x \in Registers /\ from \in 1 .. next_free - 1
        /\ \A j \in 1 .. Len(Inputs) : Varying(j) /\ native[Inputs[j]] = from => at = j
    BY <1>1, <1>4, <1>8, Inplace
  <2>2. to \in Nat \ {0} /\ to < next_free /\ \A j \in 1 .. at - 1 : Varying(j) => NativeIdx(j) < to
    <3>1. at \in Nat \ {0}
      BY <1>1, <1>2
    <3>2. to < next_free
      BY <1>1, <1>4, <1>8, Room
    <3>3. QED BY <3>1, <3>2, IdxFacts
  <2>3. native' = [r \in Registers |->
                     IF native[r] = from THEN to ELSE IF native[r] = to THEN from ELSE native[r]]
    BY <1>1, <1>8 DEF SwapNative
  <2> HIDE DEF x, from, to
  <2>4. \A r \in Registers :
          native'[r] = (IF native[r] = from THEN to ELSE IF native[r] = to THEN from ELSE native[r])
    BY <2>3
  <2>5. from \in Numbers(next_free) /\ to \in Numbers(next_free) /\ from # None /\ to # None
        /\ from # 0 /\ to # 0
    BY <1>2, <2>1, <2>2 DEF Numbers, None
  <2>6. native' \in [Registers -> Numbers(next_free)]
    BY <1>2, <2>3, <2>5
  <2>7. \A r \in Registers : /\ native'[r] = None => native[r] = None
                             /\ native'[r] = 0 => native[r] = 0
    BY <2>4, <2>5
  <2>8. ASSUME NEW r \in Active(Inputs), NEW s \in Active(Inputs), native'[r] = native'[s],
               native'[r] # None
        PROVE  r = s
    <3>1. r \in Registers /\ s \in Registers
      BY FileFacts
    <3>2. native[r] = native[s] /\ native[r] # None
      BY <2>4, <2>5, <2>8, <3>1
    <3>3. QED BY <3>2 DEF Inv, Apart
  <2>9. ASSUME NEW i \in 1 .. at, Varying(i) PROVE native'[Inputs[i]] = NativeIdx(i)
    <3>1. CASE i = at
      BY <2>1, <2>4, <3>1 DEF x, from, to
    <3>2. CASE i # at
      <4>1. i \in 1 .. at - 1 /\ i \in 1 .. Len(Inputs) /\ i < at
        BY <1>1, <1>2, <3>2
      <4>2. native[Inputs[i]] = NativeIdx(i) /\ NativeIdx(i) < to /\ NativeIdx(i) \in Nat
            /\ Inputs[i] \in Registers
        <5>1. native[Inputs[i]] = NativeIdx(i) /\ NativeIdx(i) < to
          BY <1>6, <2>2, <2>9, <4>1
        <5>2. Inputs[i] \in Registers
          BY <4>1, FileFacts
        <5>3. i \in Nat \ {0}
          BY <4>1
        <5>4. QED BY <5>1, <5>2, <5>3, IdxFacts
      <4>3. native[Inputs[i]] # from /\ native[Inputs[i]] # to
        BY <2>1, <2>2, <2>9, <3>2, <4>1, <4>2
      <4>4. QED BY <2>4, <4>2, <4>3
    <3>3. QED BY <3>1, <3>2
  <2>10. QED BY <1>5, <2>6, <2>7, <2>8, <2>9
<1>9. QED BY <1>7, <1>8

LEMMA EndPermuteInv == Inv /\ EndPermute => Inv'
<1> SUFFICES ASSUME Inv, EndPermute PROVE Inv'
  OBVIOUS
<1>1. /\ pass = "permute" /\ at > Len(Inputs) /\ pass' = "generate" /\ at' = 1
      /\ next_free' = (IF NativeIdx(at) > next_free THEN NativeIdx(at) ELSE next_free)
      /\ UNCHANGED << shader, native, kept, dead, inout_rest, temp_rest, output >>
  BY DEF EndPermute, walk
<1>2. /\ next_free \in Nat /\ native \in [Registers -> Numbers(next_free)]
      /\ kept \subseteq ToSet(Temps) /\ dead \subseteq {i \in DOMAIN program : program[i].op \in MovOps}
      /\ inout_rest \subseteq Registers /\ temp_rest \subseteq Active(Temps)
      /\ at \in Nat \ {0} /\ Len(program) \in Nat /\ Len(Inputs) \in Nat
  BY FileFacts, ProgramFacts DEF Inv, Types
<1>3. next_free' \in Nat /\ next_free <= next_free'
  <2>1. NativeIdx(at) \in Nat
    BY <1>2, IdxFacts
  <2>2. QED BY <1>1, <1>2, <2>1
<1>4. Types'
  <2>1. native' \in [Registers -> Numbers(next_free')]
    BY <1>1, <1>2, <1>3, NumbersOf
  <2>2. QED BY <1>1, <1>2, <1>3, <2>1, TypesKept DEF Inv, Passes
<1>5. Frames'
  BY <1>1, FramesKept DEF Inv
<1>6. /\ Active(Inputs)' = Active(Inputs) /\ processor' = processor
      /\ \A r : Fixed(r)' = Fixed(r) /\ \A i : Varying(i)' = Varying(i)
      /\ \A i : NativeIdx(i)' = NativeIdx(i)
  <2>1. \A i : Varying(i)' = Varying(i)
    BY <1>1, ShaderSame
  <2>2. \A i : NativeIdx(i)' = NativeIdx(i)
    BY <2>1 DEF NativeIdx
  <2>3. QED BY <1>1, <2>1, <2>2, ShaderSame
<1>7. Apart'
  BY <1>1, <1>6 DEF Inv, Apart
<1>8. Places'
  <2>1. \A i \in DOMAIN Inputs : i < at
    BY <1>1, <1>2, FileFacts
  <2>2. processor = "fragment" => next_free' > 0
    BY <1>2, <1>3 DEF Inv, Places
  <2>3. QED BY <1>1, <1>6, <2>1, <2>2 DEF Inv, Places
<1>9. QED BY <1>4, <1>5, <1>7, <1>8 DEF Inv

-----------------------------------------------------------------------------
(* etna_compile_pass_generate_code.  An instruction becomes at most three,    *)
(* each with at most three sources, and a move for each that clashes.         *)

LEMMA FlattenThree ==
  ASSUME NEW S, NEW s, DOMAIN s = 1 .. Len(s), Len(s) \in 0 .. 3, \A i \in DOMAIN s : s[i] \in Seq(S)
  PROVE  /\ FlattenSeq(s) \in IF Len(s) = 0 THEN {s} ELSE Seq(S)
         /\ Len(s) = 1 => FlattenSeq(s) = s[1]
<1> DEFINE n == Len(s)
           two == s[1] \o s[2]
           three == two \o s[3]
           flat == [i \in 1 .. n |-> IF i = 1 THEN s[1] ELSE IF i = 2 THEN two ELSE three]
           isFlat(f) == f = [i \in 1 .. n |-> IF i = 1 THEN s[i] ELSE f[i - 1] \o s[i]]
           f == CHOOSE f : isFlat(f)
<1>1. CASE n = 0
  BY <1>1 DEF FlattenSeq
<1>2. CASE n # 0
  <2>1. FlattenSeq(s) = f[n]
    BY <1>2 DEF FlattenSeq
  <2>2. n \in 1 .. 3 /\ \A i \in 1 .. n : s[i] \in Seq(S)
    BY <1>2
  <2> HIDE DEF n
  <2>3. isFlat(flat)
    <3>1. ASSUME NEW i \in 1 .. n
          PROVE flat[i] = IF i = 1 THEN s[i] ELSE flat[i - 1] \o s[i]
      <4>1. i \in {1, 2, 3} /\ 1 \in 1 .. n /\ (i = 3 => 2 \in 1 .. n)
        BY <2>2
      <4>2. CASE i = 1
        BY <4>2
      <4>3. CASE i = 2
        <5> HIDE DEF two, three
        <5>1. flat[2] = two /\ flat[1] = s[1] /\ 2 - 1 = 1
          BY <4>1, <4>3
        <5> HIDE DEF flat
        <5>2. flat[2] = flat[2 - 1] \o s[2]
          BY <5>1 DEF two
        <5>3. flat[i] = flat[i - 1] \o s[i]
          BY <5>2, <4>3, Zenon
        <5>4. QED BY <5>3, <4>3
      <4>4. CASE i = 3
        <5> HIDE DEF two, three
        <5>1. flat[3] = three /\ flat[2] = two /\ 3 - 1 = 2
          BY <4>1, <4>4
        <5> HIDE DEF flat
        <5>2. flat[3] = flat[3 - 1] \o s[3]
          BY <5>1 DEF three
        <5>3. flat[i] = flat[i - 1] \o s[i]
          BY <5>2, <4>4, Zenon
        <5>4. QED BY <5>3, <4>4
      <4>5. QED BY <4>1, <4>2, <4>3, <4>4
    <3> DEFINE g == [i \in 1 .. n |-> IF i = 1 THEN s[i] ELSE flat[i - 1] \o s[i]]
    <3>2. flat = g
      <4>1. DOMAIN flat = 1 .. n /\ DOMAIN g = 1 .. n
        OBVIOUS
      <4>2. QED BY <3>1, <4>1
    <3>3. QED BY <3>2
  <2> HIDE DEF flat
  <2>4. isFlat(f)
    BY <2>3
  <2> HIDE DEF f
  <2>5. ASSUME NEW i \in 1 .. n PROVE f[i] = IF i = 1 THEN s[i] ELSE f[i - 1] \o s[i]
    BY <2>4
  <2> HIDE DEF isFlat
  <2>6. f[1] = s[1] /\ s[1] \in Seq(S)
    BY <2>2, <2>5
  <2>7. ASSUME 2 \in 1 .. n PROVE f[2] = f[1] \o s[2] /\ s[2] \in Seq(S)
    <3>1. 2 - 1 = 1 /\ 2 # 1
      OBVIOUS
    <3>2. QED BY <2>2, <2>5, <2>7, <3>1
  <2>8. ASSUME 3 \in 1 .. n PROVE f[3] = f[2] \o s[3] /\ s[3] \in Seq(S) /\ 2 \in 1 .. n
    <3>1. 3 - 1 = 2 /\ 3 # 1 /\ 2 \in 1 .. n
      BY <2>2, <2>8
    <3>2. QED BY <2>2, <2>5, <2>8, <3>1
  <2>9. ASSUME 2 \in 1 .. n PROVE f[2] \in Seq(S)
    <3>1. f[1] \in Seq(S) /\ s[2] \in Seq(S) /\ f[2] = f[1] \o s[2]
      BY <2>6, <2>7, <2>9
    <3>2. QED BY <3>1, ConcatProperties
  <2>10. ASSUME 3 \in 1 .. n PROVE f[3] \in Seq(S)
    <3>1. f[2] \in Seq(S) /\ s[3] \in Seq(S) /\ f[3] = f[2] \o s[3]
      BY <2>8, <2>9, <2>10
    <3>2. QED BY <3>1, ConcatProperties
  <2>11. n = 1 \/ (n = 2 /\ 2 \in 1 .. n) \/ (n = 3 /\ 3 \in 1 .. n)
    BY <2>2
  <2>12. f[n] \in Seq(S) /\ (n = 1 => f[n] = s[1])
    BY <2>6, <2>9, <2>10, <2>11
  <2>13. QED BY <1>2, <2>1, <2>12 DEF n
<1>3. QED BY <1>1, <1>2

\* The least of at most three sources.
LEMMA LeastIs ==
  ASSUME NEW T, T # {}, \A k \in T : k \in {1, 2, 3}
  PROVE  Min(T) \in T
<1>1. PICK x \in T : \A y \in T : x <= y
  <2>1. CASE 1 \in T
    BY <2>1
  <2>2. CASE 1 \notin T /\ 2 \in T
    BY <2>2
  <2>3. CASE 1 \notin T /\ 2 \notin T
    BY <2>3
  <2>4. QED BY <2>1, <2>2, <2>3
<1>2. QED BY <1>1 DEF Min

\* No source clashes when all uniforms are the same.
LEMMA Agreeing ==
  ASSUME NEW inst, \A k \in DOMAIN inst.src : k \in {1, 2, 3}, NEW reg,
         \A k \in DOMAIN inst.src : inst.src[k].uniform => inst.src[k].reg = reg
  PROVE  Clashes(inst) = {}
<1> DEFINE uniforms == {k \in DOMAIN inst.src : inst.src[k].uniform}
<1>1. Clashes(inst) = {k \in uniforms : inst.src[k].reg # inst.src[Min(uniforms)].reg}
  BY DEF Clashes
<1>2. \A k \in uniforms : k \in {1, 2, 3} /\ inst.src[k].reg = reg
  OBVIOUS
<1> HIDE DEF uniforms
<1>3. QED BY <1>1, <1>2, LeastIs

\* emit_inst replaces what clashes.
LEMMA Replaced ==
  ASSUME NEW inst, \A k \in DOMAIN inst.src : k \in {1, 2, 3},
         NEW new, new.src = [k \in DOMAIN inst.src |->
                              IF k \in Clashes(inst) THEN Temp(InnerReg) ELSE inst.src[k]]
  PROVE  Clashes(new) = {}
<1> DEFINE uniforms == {k \in DOMAIN inst.src : inst.src[k].uniform}
           reg == inst.src[Min(uniforms)].reg
           left == {k \in DOMAIN new.src : new.src[k].uniform}
<1>1. Clashes(inst) = {k \in uniforms : inst.src[k].reg # reg}
  BY DEF Clashes
<1>2. ASSUME NEW k \in left PROVE new.src[k].reg = reg
  <2>1. k \in DOMAIN inst.src /\ new.src[k].uniform
    OBVIOUS
  <2>2. k \in Clashes(inst) => new.src[k] = Temp(InnerReg) /\ ~Temp(InnerReg).uniform
    BY <2>1 DEF Temp
  <2>3. k \notin Clashes(inst) /\ new.src[k] = inst.src[k]
    BY <2>1, <2>2
  <2>4. k \in uniforms
    BY <2>1, <2>3
  <2> HIDE DEF uniforms, reg, left
  <2>5. QED BY <1>1, <2>3, <2>4
<1>3. \A k \in DOMAIN new.src : k \in {1, 2, 3} /\ (new.src[k].uniform => new.src[k].reg = reg)
  <2>1. DOMAIN new.src = DOMAIN inst.src
    OBVIOUS
  <2> HIDE DEF reg
  <2>2. QED BY <1>2, <2>1
<1>4. /\ \A k \in DOMAIN new.src : k \in {1, 2, 3}
      /\ \A k \in DOMAIN new.src : new.src[k].uniform => new.src[k].reg = reg
  BY <1>3
<1> HIDE DEF reg
<1>5. QED BY <1>4, Agreeing

LEMMA InstOf ==
  ASSUME NEW n \in Nat, NEW op \in Names, NEW dst \in Usable(n), NEW src \in Seq(Opnds(n))
  PROVE  /\ Inst(op, dst, src) \in Drafts(n)
         /\ Len(src) = 1 => Inst(op, dst, src) \in Insts(n)
<1>1. Inst(op, dst, src) \in Drafts(n) /\ Inst(op, dst, src).src = src
  BY DEF Inst, Drafts
<1>2. ASSUME Len(src) = 1 PROVE Clashes(Inst(op, dst, src)) = {}
  <2> DEFINE inst == Inst(op, dst, src)
  <2>1. DOMAIN inst.src = {1} /\ 1 \in {1, 2, 3}
    BY <1>1, <1>2
  <2> HIDE DEF inst
  <2>2. \A k \in DOMAIN inst.src : inst.src[k].uniform => inst.src[k].reg = inst.src[1].reg
    BY <2>1
  <2>3. \A k \in DOMAIN inst.src : k \in {1, 2, 3}
    BY <2>1
  <2>4. Clashes(inst) = {}
    BY <2>2, <2>3, Agreeing
  <2>5. QED BY <2>4 DEF inst
<1>3. QED BY <1>1, <1>2 DEF Insts

LEMMA UsableTemp ==
  ASSUME NEW n, NEW t \in Usable(n)
  PROVE  Temp(t) \in Opnds(n)
<1>1. t \in Int
  BY DEF Usable
<1>2. Temp(t) \in [uniform : BOOLEAN, reg : Int, swiz : Names] /\ Temp(t).reg = t
  BY <1>1 DEF Temp, Names
<1>3. QED BY <1>2 DEF Opnds

LEMMA TempTyped ==
  ASSUME NEW n \in Nat, NEW m \in Nat, m <= n, NEW t \in Numbers(m)
  PROVE  Temp(t) \in Opnds(n) /\ t \in Usable(n)
<1>1. t \in Usable(n)
  BY NumbersOf
<1>2. QED BY <1>1, UsableTemp

LEMMA SingleSource ==
  ASSUME NEW S, NEW x \in S
  PROVE  << x >> \in Seq(S) /\ Len(<< x >>) = 1
  OBVIOUS

LEMMA EmitTyped ==
  ASSUME NEW n \in Nat, NEW inst \in Drafts(n), Len(inst.src) <= 3,
         Clashes(inst) # {} => InnerReg \in Numbers(n)
  PROVE  Emit(inst) \in Seq(Insts(n)) /\ Len(Emit(inst)) > 0
         /\ (Clashes(inst) = {} => Len(Emit(inst)) = 1)
         /\ \A i \in DOMAIN Emit(inst) :
              \/ Emit(inst)[i].op = "MOV"
              \/ Emit(inst)[i].op = inst.op /\ (1 \in DOMAIN inst.src \ Clashes(inst) => Emit(inst)[i].src[1] = inst.src[1])
<1> DEFINE move(k) == Inst("MOV", InnerReg, << inst.src[k] >>)
           moves == [k \in DOMAIN inst.src |-> IF k \in Clashes(inst) THEN << move(k) >> ELSE << >>]
           src == [k \in DOMAIN inst.src |-> IF k \in Clashes(inst) THEN Temp(InnerReg) ELSE inst.src[k]]
           new == [inst EXCEPT !.src = src]
           Moves == {i \in Insts(n) : i.op = "MOV"}
<1>1. /\ inst.src \in Seq(Opnds(n)) /\ DOMAIN inst.src = 1 .. Len(inst.src) /\ Len(inst.src) \in 0 .. 3
      /\ \A k \in DOMAIN inst.src : k \in {1, 2, 3}
  <2>1. inst.src \in Seq(Opnds(n))
    BY DEF Drafts
  <2>2. DOMAIN inst.src = 1 .. Len(inst.src) /\ Len(inst.src) \in Nat
    BY <2>1, LenProperties
  <2> DEFINE len == Len(inst.src)
  <2> HIDE DEF len
  <2>3. len \in 0 .. 3 /\ \A k \in 1 .. len : k \in {1, 2, 3}
    <3>1. len \in Nat /\ len <= 3
      BY <2>2 DEF len
    <3>2. QED BY <3>1
  <2>4. QED BY <2>1, <2>2, <2>3 DEF len
<1>2. ASSUME NEW k \in DOMAIN inst.src PROVE moves[k] \in Seq(Moves) /\ src[k] \in Opnds(n)
  <2>1. CASE k \in Clashes(inst)
    <3>1. InnerReg \in Numbers(n) /\ InnerReg \in Usable(n) /\ inst.src[k] \in Opnds(n)
      BY <1>1, <1>2, <2>1, NumbersOf
    <3> DEFINE one == inst.src[k]
    <3>2. one \in Opnds(n)
      BY <3>1
    <3> HIDE DEF one
    <3>6. << one >> \in Seq(Opnds(n)) /\ Len(<< one >>) = 1
      BY <3>2, SingleSource
    <3>7. "MOV" \in Names
      BY DEF Names
    <3>3. move(k) \in Moves
      <4>1. move(k) \in Insts(n)
        BY <3>1, <3>6, <3>7, InstOf DEF one
      <4>2. move(k).op = "MOV"
        BY DEF Inst
      <4>3. QED BY <4>1, <4>2
    <3>4. Temp(InnerReg) \in Opnds(n)
      BY <3>1, TempTyped
    <3> HIDE DEF Moves, move
    <3>8. << move(k) >> \in Seq(Moves)
      BY <3>3, SingleSource
    <3>5. QED BY <1>2, <2>1, <3>4, <3>8
  <2>2. CASE k \notin Clashes(inst)
    BY <1>1, <1>2, <2>2
  <2>3. QED BY <2>1, <2>2
<1>3. new \in Insts(n)
  <2>1. src \in Seq(Opnds(n))
    <3>1. src \in [1 .. Len(inst.src) -> Opnds(n)]
      BY <1>1, <1>2
    <3>2. QED BY <1>1, <3>1
  <2>2. new \in Drafts(n) /\ new.src = src
    BY <2>1 DEF Drafts
  <2> HIDE DEF new
  <2>3. Clashes(new) = {}
    BY <1>1, <2>2, Replaced
  <2>4. QED BY <2>2, <2>3 DEF Insts
<1>4. FlattenSeq(moves) \in Seq(Moves) /\ (Clashes(inst) = {} => FlattenSeq(moves) = << >>)
  <2>1. DOMAIN moves = 1 .. Len(inst.src) /\ Len(moves) = Len(inst.src)
    BY <1>1
  <2> HIDE DEF moves, Moves
  <2>2. FlattenSeq(moves) \in IF Len(moves) = 0 THEN {moves} ELSE Seq(Moves)
    BY <1>1, <1>2, <2>1, FlattenThree
  <2>3. ASSUME Clashes(inst) = {} PROVE FlattenSeq(moves) = << >>
    <3>1. \A k \in DOMAIN moves : moves[k] = << >> /\ << >> \in Seq({})
      BY <2>3 DEF moves
    <3>2. FlattenSeq(moves) \in (IF Len(moves) = 0 THEN {moves} ELSE Seq({}))
      BY <1>1, <2>1, <3>1, FlattenThree
    <3>3. CASE Len(moves) = 0
      BY <1>1, <2>1, <3>2, <3>3 DEF moves
    <3>4. CASE Len(moves) # 0
      BY <3>2, <3>4
    <3>5. QED BY <3>3, <3>4
  <2>4. FlattenSeq(moves) \in Seq(Moves)
    <3>1. CASE Len(moves) = 0
      <4>1. FlattenSeq(moves) = << >>
        BY <1>1, <2>1, <2>2, <3>1 DEF moves
      <4>2. QED BY <4>1
    <3>2. CASE Len(moves) # 0
      BY <2>2, <3>2
    <3>3. QED BY <3>1, <3>2
  <2>5. QED BY <2>3, <2>4
<1>5. Emit(inst) = FlattenSeq(moves) \o << new >>
  BY DEF Emit
<1>7. new.op = inst.op /\ (1 \in DOMAIN inst.src \ Clashes(inst) => new.src[1] = inst.src[1])
  BY <1>1 DEF Drafts
<1> HIDE DEF moves, new
<1> DEFINE before == FlattenSeq(moves)
<1>8. before \in Seq(Moves)
  BY <1>4
<1> HIDE DEF before
<1>9. before \in Seq(Insts(n)) /\ Len(before) \in Nat /\ \A i \in 1 .. Len(before) : before[i].op = "MOV"
  <2>1. Moves \subseteq Insts(n) /\ \A m \in Moves : m.op = "MOV"
    OBVIOUS
  <2> HIDE DEF Moves
  <2>2. before \in [1 .. Len(before) -> Moves] /\ Len(before) \in Nat
    BY <1>8, LenProperties
  <2>3. QED BY <1>8, <2>1, <2>2
<1> HIDE DEF Moves
<1>10. Emit(inst) = before \o << new >> /\ (Clashes(inst) = {} => before = << >>)
  BY <1>4, <1>5 DEF before
<1>11. ASSUME NEW i \in DOMAIN Emit(inst) PROVE Emit(inst)[i].op = "MOV" \/ Emit(inst)[i] = new
  BY <1>3, <1>9, <1>10
<1>6. QED BY <1>3, <1>7, <1>9, <1>10, <1>11

\* Drafts emit_inst takes.
Short(n) == {i \in Drafts(n) : Len(i.src) <= 3}

LEMMA ShortOf ==
  ASSUME NEW n \in Nat, NEW op \in Names, NEW dst \in Usable(n), NEW src \in Seq(Opnds(n)), Len(src) <= 3
  PROVE  Inst(op, dst, src) \in Short(n)
<1>1. Inst(op, dst, src) \in Drafts(n) /\ Inst(op, dst, src).src = src
  BY DEF Inst, Drafts
<1>2. QED BY <1>1 DEF Short

LEMMA ImmTyped ==
  ASSUME NEW n \in Nat, NEW value \in Names
  PROVE  Imm(value) \in Opnds(n) /\ Imm(value).uniform
<1>1. Len(Consts) \in Nat
  BY FilesFacts, LenProperties
<1>2. QED BY <1>1 DEF Imm, Opnds

LEMMA OperandTyped ==
  ASSUME Types, NEW n \in Nat, next_free <= n, NEW r \in Operands
  PROVE  Operand(r) \in Opnds(n)
<1>1. CASE r \in Registers
  <2>1. native[r] \in Numbers(next_free) /\ next_free \in Nat
    BY <1>1 DEF Types
  <2>2. QED BY <1>1, <2>1, TempTyped DEF Operand
<1>2. CASE r \notin Registers
  <2>1. r \in ToSet(Consts) /\ DOMAIN Consts = 1 .. Len(Consts)
    BY <1>2, FilesFacts, LenProperties DEF Operands
  <2>2. \E i \in DOMAIN Consts : Consts[i] = r
    BY <2>1 DEF ToSet
  <2>3. Uniform(r).reg \in Int
    BY <2>1, <2>2 DEF Uniform
  <2>4. Uniform(r) \in [uniform : BOOLEAN, reg : Int, swiz : Names] /\ Uniform(r).uniform
    <3>1. "" \in Names
      BY DEF Names
    <3>2. QED BY <2>3, <3>1 DEF Uniform
  <2>5. QED BY <1>2, <2>4 DEF Operand, Opnds
<1>3. QED BY <1>1, <1>2

LEMMA TranslationTyped ==
  ASSUME Types, at \in 1 .. Len(program), NEW n \in Nat, next_free <= n,
         Current.op = "LIT" => InnerReg \in Numbers(n)
  PROVE  /\ DOMAIN Translation = 1 .. Len(Translation) /\ Len(Translation) \in 0 .. 3
         /\ \A i \in DOMAIN Translation : Translation[i] \in Short(n)
         /\ Current.op = "ELSE" => Len(Translation) = 1
<1> DEFINE dst == IF Current.dst \in Registers THEN native[Current.dst] ELSE None
           src == [k \in DOMAIN Current.src |-> Operand(Current.src[k])]
           one == src[1]
<1>1. /\ Current.op \in Names /\ Current.src \in Seq(Operands) /\ Len(Current.src) \in 0 .. 3
      /\ Current.op \in {"LIT", "SIN", "IF"} => Len(Current.src) = 1 /\ Current.src[1] \in Operands
  BY ProgramFacts DEF Current, Types
<1>2. /\ dst \in Numbers(n) /\ None \in Numbers(n)
      /\ Numbers(n) \subseteq Usable(n)
  <2>1. next_free \in Nat /\ native \in [Registers -> Numbers(next_free)]
    BY DEF Types
  <2>2. Numbers(next_free) \subseteq Numbers(n) /\ None \in Numbers(next_free)
    BY <2>1, NumbersOf
  <2>3. Numbers(n) \subseteq Usable(n)
    BY NumbersOf
  <2>4. QED BY <2>1, <2>2, <2>3
<1>3. src \in Seq(Opnds(n)) /\ Len(src) = Len(Current.src)
  <2> DEFINE given == Current.src
  <2>1. given \in Seq(Operands)
    BY <1>1
  <2> HIDE DEF given
  <2>2. DOMAIN given = 1 .. Len(given) /\ Len(given) \in Nat /\ \A k \in 1 .. Len(given) : given[k] \in Operands
    BY <2>1, LenProperties
  <2>3. \A k \in 1 .. Len(given) : Operand(given[k]) \in Opnds(n)
    BY <2>2, OperandTyped
  <2> DEFINE new == [k \in DOMAIN given |-> Operand(given[k])]
  <2>4. new \in [1 .. Len(given) -> Opnds(n)]
    BY <2>2, <2>3
  <2>5. new \in Seq(Opnds(n)) /\ Len(new) = Len(given)
    <3> HIDE DEF new
    <3>1. QED BY <2>2, <2>4
  <2>6. QED BY <2>5 DEF given
<1>4. ASSUME Current.op \in {"LIT", "SIN", "IF"} PROVE one \in Opnds(n)
  <2>1. 1 \in DOMAIN Current.src /\ Current.src[1] \in Operands
    BY <1>1, <1>4
  <2>2. Operand(Current.src[1]) \in Opnds(n)
    BY <2>1, OperandTyped
  <2>3. QED BY <2>1, <2>2
<1>5. \A value \in Names : Imm(value) \in Opnds(n)
  BY ImmTyped
<1>6. {"0.0", "LOG", "MUL", "LITP", "SIN", "BRANCH_EQ", "BRANCH"} \subseteq Names
  BY DEF Names
<1>7. CASE Current.op = "LIT"
  <2> DEFINE inner_src == Temp(InnerReg)
             a == Inst("LOG", InnerReg, << one >>)
             b == Inst("MUL", InnerReg, << inner_src, one >>)
             c == Inst("LITP", dst, << one, one, inner_src >>)
  <2>1. Translation = << a, b, c >>
    BY <1>7 DEF Translation
  <2>2. InnerReg \in Numbers(n) /\ inner_src \in Opnds(n) /\ one \in Opnds(n)
    BY <1>4, <1>7, TempTyped
  <2> HIDE DEF one, inner_src, dst
  <2>3. /\ << one >> \in Seq(Opnds(n)) /\ Len(<< one >>) <= 3
        /\ << inner_src, one >> \in Seq(Opnds(n)) /\ Len(<< inner_src, one >>) <= 3
        /\ << one, one, inner_src >> \in Seq(Opnds(n)) /\ Len(<< one, one, inner_src >>) <= 3
    BY <2>2
  <2>4. a \in Short(n) /\ b \in Short(n) /\ c \in Short(n)
    BY <1>2, <1>6, <2>2, <2>3, ShortOf
  <2> HIDE DEF a, b, c
  <2>5. QED BY <1>7, <2>1, <2>4
<1>8. CASE Current.op = "SIN"
  <2> DEFINE imm == Imm("0.0")
             there == Temp(dst)
             a == Inst("MUL", dst, << one, imm >>)
             b == Inst("SIN", dst, << there >>)
  <2>1. Translation = << a, b >>
    BY <1>8 DEF Translation
  <2>2. imm \in Opnds(n) /\ there \in Opnds(n) /\ one \in Opnds(n)
    BY <1>2, <1>4, <1>5, <1>6, <1>8, TempTyped
  <2> HIDE DEF one, imm, there, dst
  <2>3. /\ << one, imm >> \in Seq(Opnds(n)) /\ Len(<< one, imm >>) <= 3
        /\ << there >> \in Seq(Opnds(n)) /\ Len(<< there >>) <= 3
    BY <2>2
  <2>4. a \in Short(n) /\ b \in Short(n)
    BY <1>2, <1>6, <2>3, ShortOf
  <2> HIDE DEF a, b
  <2>5. QED BY <1>8, <2>1, <2>4
<1>9. CASE Current.op = "IF"
  <2> DEFINE imm == Imm("0.0")
             a == Inst("BRANCH_EQ", None, << one, imm >>)
  <2>1. Translation = << a >>
    BY <1>9 DEF Translation
  <2>2. imm \in Opnds(n) /\ one \in Opnds(n)
    BY <1>4, <1>5, <1>6, <1>9
  <2> HIDE DEF one, imm
  <2>3. << one, imm >> \in Seq(Opnds(n)) /\ Len(<< one, imm >>) <= 3
    BY <2>2
  <2>4. a \in Short(n)
    BY <1>2, <1>6, <2>3, ShortOf
  <2> HIDE DEF a
  <2>5. QED BY <1>9, <2>1, <2>4
<1>10. CASE Current.op = "ELSE"
  <2> DEFINE a == Inst("BRANCH", None, << >>)
  <2>1. Translation = << a >>
    BY <1>10 DEF Translation
  <2>2. << >> \in Seq(Opnds(n)) /\ Len(<< >>) <= 3
    OBVIOUS
  <2>3. a \in Short(n)
    BY <1>2, <1>6, <2>2, ShortOf
  <2> HIDE DEF a
  <2>4. QED BY <2>1, <2>3
<1>11. CASE Current.op = "ENDIF"
  <2>1. Translation = << >>
    BY <1>11 DEF Translation
  <2>2. QED BY <1>11, <2>1
<1>12. CASE Current.op \notin {"LIT", "SIN", "IF", "ELSE", "ENDIF"}
  <2> DEFINE a == Inst(Current.op, dst, src)
  <2>1. Translation = << a >>
    BY <1>12 DEF Translation
  <2>2. Len(src) <= 3
    <3> DEFINE m == Len(src)
    <3>1. m \in 0 .. 3
      BY <1>1, <1>3
    <3> HIDE DEF m
    <3>2. m <= 3
      BY <3>1
    <3>3. QED BY <3>2 DEF m
  <2> HIDE DEF dst, src
  <2>3. a \in Short(n)
    BY <1>1, <1>2, <1>3, <2>2, ShortOf
  <2> HIDE DEF a
  <2>4. QED BY <1>12, <2>1, <2>3
<1>13. QED BY <1>7, <1>8, <1>9, <1>10, <1>11, <1>12

LEMMA GeneratedTyped ==
  ASSUME Types, at \in 1 .. Len(program), NeedInner(NeedsInner)
  PROVE  /\ next_free' \in Nat /\ next_free <= next_free' /\ inner' \in Numbers(next_free')
         /\ Generated \in Seq(Insts(next_free'))
         /\ Current.op = "ELSE" => Len(Generated) > 0
<1> DEFINE n == next_free'
           emitted == [i \in DOMAIN Translation |-> Emit(Translation[i])]
<1>1. /\ n \in Nat /\ next_free <= n /\ inner' \in Numbers(n)
      /\ NeedsInner => InnerReg \in Numbers(n)
  BY DEF Types, NeedInner, InnerReg, Numbers, None
<1> HIDE DEF n
<1>2. CASE at \in dead
  <2>1. Generated = << >> /\ Current.op \in MovOps
    BY <1>2 DEF Generated, Types, Current
  <2>2. QED BY <1>1, <2>1 DEF n, MovOps
<1>3. CASE at \notin dead
  <2>1. Current.op = "LIT" => InnerReg \in Numbers(n)
    BY <1>1, <1>3 DEF NeedsInner
  <2>2. /\ DOMAIN Translation = 1 .. Len(Translation) /\ Len(Translation) \in 0 .. 3
        /\ \A i \in DOMAIN Translation : Translation[i] \in Short(n)
        /\ Current.op = "ELSE" => Len(Translation) = 1
    BY <1>1, <2>1, TranslationTyped
  <2>3. ASSUME NEW i \in DOMAIN Translation
        PROVE  Emit(Translation[i]) \in Seq(Insts(n)) /\ Len(Emit(Translation[i])) > 0
    <3>1. Clashes(Translation[i]) # {} => InnerReg \in Numbers(n)
      BY <1>1, <1>3 DEF NeedsInner
    <3>2. Translation[i] \in Drafts(n) /\ Len(Translation[i].src) <= 3
      BY <2>2 DEF Short
    <3>3. QED BY <1>1, <3>1, <3>2, EmitTyped
  <2>4. /\ DOMAIN emitted = 1 .. Len(emitted) /\ Len(emitted) = Len(Translation)
        /\ \A i \in DOMAIN emitted : emitted[i] \in Seq(Insts(n)) /\ Len(emitted[i]) > 0
    BY <2>2, <2>3
  <2>5. Generated = FlattenSeq(emitted)
    BY <1>3 DEF Generated
  <2> HIDE DEF emitted
  <2>6. FlattenSeq(emitted) \in (IF Len(emitted) = 0 THEN {emitted} ELSE Seq(Insts(n)))
        /\ (Len(emitted) = 1 => FlattenSeq(emitted) = emitted[1])
    BY <2>2, <2>4, FlattenThree
  <2>7. FlattenSeq(emitted) \in Seq(Insts(n))
    <3>1. CASE Len(emitted) = 0
      <4>1. emitted = << >>
        BY <2>4, <3>1
      <4>2. FlattenSeq(emitted) = << >>
        BY <2>6, <3>1, <4>1
      <4>3. QED BY <4>2
    <3>2. CASE Len(emitted) # 0
      BY <2>6, <3>2
    <3>3. QED BY <3>1, <3>2
  <2>8. Current.op = "ELSE" => Len(FlattenSeq(emitted)) > 0
    <3>1. SUFFICES ASSUME Current.op = "ELSE" PROVE Len(FlattenSeq(emitted)) > 0
      OBVIOUS
    <3>2. Len(emitted) = 1 /\ 1 \in DOMAIN emitted
      BY <2>2, <2>4, <3>1
    <3>3. QED BY <2>4, <2>6, <3>2
  <2>9. QED BY <1>1, <2>5, <2>7, <2>8 DEF n
<1>4. QED BY <1>2, <1>3

\* The blocks that are open after an instruction.
LEMMA CountStep ==
  ASSUME program \in Programs, NEW i \in 1 .. Len(program), NEW op
  PROVE  /\ Count(program, op, i - 1) \in Nat /\ Count(program, op, i) \in Nat
         /\ Count(program, op, i) =
              IF program[i].op = op THEN Count(program, op, i - 1) + 1 ELSE Count(program, op, i - 1)
<1> DEFINE upto(k) == {j \in 1 .. k : program[j].op = op}
<1>1. i \in Nat /\ i - 1 \in Nat
  BY ProgramFacts
<1>2. ASSUME NEW k \in Nat PROVE IsFiniteSet(upto(k)) /\ Cardinality(upto(k)) \in Nat
  <2>1. IsFiniteSet(1 .. k)
    BY FS_Interval
  <2>2. QED BY <2>1, FS_Subset, FS_CardinalityType
<1>3. Count(program, op, i - 1) = Cardinality(upto(i - 1)) /\ Count(program, op, i) = Cardinality(upto(i))
  BY DEF Count
<1>4. upto(i) = (IF program[i].op = op THEN upto(i - 1) \union {i} ELSE upto(i - 1)) /\ i \notin upto(i - 1)
  BY <1>1
<1> HIDE DEF upto
<1>5. Cardinality(upto(i - 1) \union {i}) = Cardinality(upto(i - 1)) + 1
  BY <1>1, <1>2, <1>4, FS_AddElement
<1>6. QED BY <1>1, <1>2, <1>3, <1>4, <1>5

LEMMA FrontTyped ==
  ASSUME NEW S, NEW s \in Seq(S), Len(s) > 0
  PROVE  Last(s) \in S /\ Front(s) \in Seq(S) /\ Len(Front(s)) = Len(s) - 1
<1>1. Len(s) \in Nat /\ s \in [1 .. Len(s) -> S]
  BY LenProperties
<1>2. Last(s) \in S
  BY <1>1 DEF Last
<1> DEFINE n == Len(s)
           front == [i \in 1 .. n - 1 |-> s[i]]
<1>3. n - 1 \in Nat /\ front \in [1 .. n - 1 -> S]
  <2> HIDE DEF n
  <2>1. n \in Nat /\ n > 0 /\ s \in [1 .. n -> S]
    BY <1>1 DEF n
  <2>2. QED BY <2>1
<1>4. front \in Seq(S) /\ Len(front) = n - 1
  <2> HIDE DEF n, front
  <2>1. QED BY <1>3
<1>5. Front(s) = front
  BY DEF Front
<1>6. QED BY <1>2, <1>4, <1>5

\* What a step writes into the labels and the frames.
LEMMA LabelsTyped ==
  ASSUME Types, Frames, pass = "generate", at \in 1 .. Len(program), Labels,
         NEW top \in Nat, Len(code) <= top, Current.op = "ELSE" => Len(code) < top
  PROVE  /\ labels' \in Seq(None .. top)
         /\ usage' \in [DOMAIN usage' -> 1 .. Len(labels')]
         /\ frames' \in Seq([else : 1 .. Len(labels'), endif : (1 .. Len(labels')) \union {None}])
         /\ Len(frames') = Count(program, "IF", at) - Count(program, "ENDIF", at)
<1> DEFINE n == Len(labels)
           Framed(m) == [else : 1 .. m, endif : (1 .. m) \union {None}]
           open == Count(program, "IF", at - 1) - Count(program, "ENDIF", at - 1)
<1>1. /\ program \in Programs /\ Len(code) \in Nat /\ n \in Nat
      /\ labels \in Seq(None .. Len(code)) /\ usage \in [DOMAIN usage -> 1 .. n]
      /\ frames \in Seq(Framed(n)) /\ Len(frames) = open
  BY LenProperties DEF Types, Frames
<1>2. labels \in Seq(None .. top) /\ Len(code) \in None .. top /\ None \in None .. top
      /\ (Current.op = "ELSE" => Len(code) + 1 \in None .. top)
  <2> DEFINE len == Len(code)
  <2>1. len \in Nat /\ labels \in Seq(None .. len)
    BY <1>1
  <2> HIDE DEF len
  <2>2. None .. len \subseteq None .. top /\ len \in None .. top /\ None \in None .. top
        /\ (len < top => len + 1 \in None .. top)
    <3>1. len <= top
      BY DEF len
    <3>2. QED BY <2>1, <3>1 DEF None
  <2>3. labels \in Seq(None .. top)
    BY <2>1, <2>2
  <2>4. QED BY <2>2, <2>3 DEF len
<1>3. /\ Current = program[at]
      /\ Count(program, "IF", at - 1) \in Nat /\ Count(program, "ENDIF", at - 1) \in Nat
      /\ Count(program, "IF", at) = Count(program, "IF", at - 1) + (IF Current.op = "IF" THEN 1 ELSE 0)
      /\ Count(program, "ENDIF", at) = Count(program, "ENDIF", at - 1) + (IF Current.op = "ENDIF" THEN 1 ELSE 0)
  <2>1. Current = program[at]
    BY DEF Current
  <2>2. QED BY SMTT(30), <1>1, <2>1, CountStep
<1>4. Current.op \in {"ELSE", "ENDIF"} => Len(frames) > 0
  BY <1>1, <1>3, ProgramFacts DEF Depth
<1>5. ASSUME NEW m \in Nat, n <= m
      PROVE  /\ usage \in [DOMAIN usage -> 1 .. m] /\ frames \in Seq(Framed(m)) /\ 1 .. n \subseteq 1 .. m
  <2> HIDE DEF n
  <2>1. 1 .. n \subseteq 1 .. m /\ Framed(n) \subseteq Framed(m)
    BY <1>1, <1>5
  <2> HIDE DEF Framed
  <2>2. QED BY <1>1, <2>1
<1>6. ASSUME Current.op \in {"IF", "ELSE"}
      PROVE  MarkUse => usage' \in [DOMAIN usage' -> 1 .. n + 1]
  <2> DEFINE new == [i \in DOMAIN usage \union {Len(code)} |-> IF i = Len(code) THEN NewLabel ELSE usage[i]]
  <2>1. NewLabel \in 1 .. n + 1 /\ usage \in [DOMAIN usage -> 1 .. n + 1]
    BY <1>1, <1>5 DEF NewLabel
  <2> HIDE DEF n
  <2>2. new \in [DOMAIN usage \union {Len(code)} -> 1 .. n + 1]
    BY <2>1
  <2>3. QED BY <2>2 DEF MarkUse
<1>7. CASE Current.op = "IF"
  <2> DEFINE frame == [else |-> NewLabel, endif |-> None]
  <2>1. labels' = Append(labels, None) /\ frames' = Append(frames, frame) /\ MarkUse
    BY <1>7 DEF Labels
  <2>2. labels' \in Seq(None .. top) /\ Len(labels') = n + 1
    BY <1>2, <2>1
  <2>3. frame \in Framed(n + 1) /\ frames \in Seq(Framed(n + 1))
    <3>1. NewLabel = n + 1
      BY DEF NewLabel
    <3> HIDE DEF n
    <3>2. n + 1 \in Nat /\ n <= n + 1 /\ NewLabel \in 1 .. n + 1
      BY <1>1, <3>1
    <3>3. frames \in Seq(Framed(n + 1))
      BY <1>5, <3>2
    <3>4. frame \in Framed(n + 1)
      BY <3>2
    <3>5. QED BY <3>3, <3>4
  <2> HIDE DEF frame, Framed, n
  <2>4. frames' \in Seq(Framed(n + 1)) /\ Len(frames') = Len(frames) + 1
    BY <2>1, <2>3
  <2>5. Len(frames') = Count(program, "IF", at) - Count(program, "ENDIF", at)
    BY <1>1, <1>3, <1>7, <2>4
  <2>6. QED BY <1>6, <1>7, <2>1, <2>2, <2>4, <2>5 DEF Framed
<1>8. CASE Current.op = "ELSE"
  <2> DEFINE put == [labels EXCEPT ![Frame.else] = Len(code) + 1]
             new == [Frame EXCEPT !.endif = NewLabel]
  <2>1. labels' = Append(put, None) /\ frames' = Append(Front(frames), new) /\ MarkUse
    BY <1>8 DEF Labels
  <2>2. Frame \in Framed(n) /\ Front(frames) \in Seq(Framed(n)) /\ Len(Front(frames)) = Len(frames) - 1
    <3> HIDE DEF Framed, n
    <3>1. Frame \in Framed(n) /\ Front(frames) \in Seq(Framed(n)) /\ Len(Front(frames)) = Len(frames) - 1
      BY <1>1, <1>4, <1>8, FrontTyped DEF Frame
    <3>2. QED BY <3>1
  <2>3. put \in Seq(None .. top) /\ Len(put) = n
    <3> DEFINE v == Len(code) + 1
               x == Frame.else
    <3>1. v \in None .. top /\ x \in 1 .. Len(labels)
      BY <1>2, <1>8, <2>2
    <3> HIDE DEF v, x
    <3>2. [labels EXCEPT ![x] = v] \in Seq(None .. top) /\ Len([labels EXCEPT ![x] = v]) = Len(labels)
      BY <1>2, <3>1, ExceptSeq
    <3>3. QED BY <3>2 DEF v, x
  <2>4. labels' \in Seq(None .. top) /\ Len(labels') = n + 1
    <3> HIDE DEF put
    <3>1. QED BY <1>2, <2>1, <2>3
  <2>5. new \in Framed(n + 1)
    <3>1. NewLabel = n + 1
      BY DEF NewLabel
    <3> HIDE DEF n
    <3>2. NewLabel \in 1 .. n + 1 /\ Framed(n) \subseteq Framed(n + 1)
      BY <1>1, <3>1
    <3>3. Frame \in Framed(n + 1)
      BY <2>2, <3>2
    <3>4. QED BY <3>2, <3>3
  <2>6. Front(frames) \in Seq(Framed(n + 1))
    <3>1. Framed(n) \subseteq Framed(n + 1)
      BY <1>1
    <3> HIDE DEF Framed
    <3>2. QED BY <2>2, <3>1
  <2> HIDE DEF new, Framed, n
  <2>7. frames' \in Seq(Framed(n + 1)) /\ Len(frames') = Len(frames)
    <3>1. Len(frames') = Len(Front(frames)) + 1 /\ frames' \in Seq(Framed(n + 1))
      BY <2>1, <2>5, <2>6
    <3>2. QED BY SMTT(30), <1>1, <1>3, <2>2, <3>1
  <2>8. Len(frames') = Count(program, "IF", at) - Count(program, "ENDIF", at)
    BY <1>1, <1>3, <1>8, <2>7
  <2>9. QED BY <1>6, <1>8, <2>1, <2>4, <2>7, <2>8 DEF Framed
<1>9. CASE Current.op = "ENDIF"
  <2> DEFINE x == IF Frame.endif # None THEN Frame.endif ELSE Frame.else
             put == [labels EXCEPT ![x] = Len(code)]
  <2>1. labels' = put /\ frames' = Front(frames) /\ usage' = usage
    BY <1>9 DEF Labels
  <2>2. Frame \in Framed(n) /\ Front(frames) \in Seq(Framed(n)) /\ Len(Front(frames)) = Len(frames) - 1
    <3> HIDE DEF Framed, n
    <3>1. Frame \in Framed(n) /\ Front(frames) \in Seq(Framed(n)) /\ Len(Front(frames)) = Len(frames) - 1
      BY <1>1, <1>4, <1>9, FrontTyped DEF Frame
    <3>2. QED BY <3>1
  <2>3. x \in 1 .. Len(labels)
    BY <2>2
  <2>4. put \in Seq(None .. top) /\ Len(put) = n
    <3> DEFINE v == Len(code)
    <3>1. v \in None .. top
      BY <1>2
    <3> HIDE DEF v, x
    <3>2. [labels EXCEPT ![x] = v] \in Seq(None .. top) /\ Len([labels EXCEPT ![x] = v]) = Len(labels)
      BY <1>2, <2>3, <3>1, ExceptSeq
    <3>3. QED BY <3>2 DEF v
  <2> HIDE DEF put, x, Framed, n
  <2>5. Len(frames') = Count(program, "IF", at) - Count(program, "ENDIF", at)
    BY <1>1, <1>3, <1>9, <2>1, <2>2
  <2>6. labels' \in Seq(None .. top) /\ Len(labels') = n
    BY <2>1, <2>4
  <2>7. QED BY <1>1, <2>1, <2>2, <2>5, <2>6 DEF Framed
<1>10. CASE Current.op \notin {"IF", "ELSE", "ENDIF"}
  <2>1. UNCHANGED << labels, frames, usage >>
    BY <1>10 DEF Labels
  <2>2. Len(frames') = Count(program, "IF", at) - Count(program, "ENDIF", at)
    BY <1>1, <1>3, <1>10, <2>1
  <2>3. QED BY <1>1, <1>2, <2>1, <2>2
<1>11. QED BY <1>7, <1>8, <1>9, <1>10

\* A label is placed by its block at the latest.
LEMMA BlocksNext ==
  ASSUME Types, Frames, pass = "generate", at \in 1 .. Len(program), Labels, at' = at + 1,
         program' = program
  PROVE  Blocks'
<1> DEFINE n == Len(labels)
           m == Len(frames)
           Framed == [else : 1 .. n, endif : (1 .. n) \union {None}]
<1>1. /\ program \in Programs /\ Len(code) \in Nat /\ n \in Nat /\ m \in Nat
      /\ DOMAIN labels = 1 .. n /\ DOMAIN frames = 1 .. m
      /\ labels \in Seq(None .. Len(code)) /\ frames \in [1 .. m -> Framed] /\ frames \in Seq(Framed)
      /\ m = Count(program, "IF", at - 1) - Count(program, "ENDIF", at - 1)
  BY LenProperties DEF Types, Frames
<1>2. /\ \A l \in 1 .. n : labels[l] = None => \E d \in 1 .. m : Awaits(frames[d]) = l
      /\ \A d \in 1 .. m : frames[d].endif # None => ElseSeen(d)
  BY <1>1 DEF Frames, Blocks
<1>3. Current = program[at] /\ (Current.op \in {"ELSE", "ENDIF"} => m > 0 /\ Depth(program, at) = m)
  <2>1. Count(program, "IF", at) =
          (IF program[at].op = "IF" THEN Count(program, "IF", at - 1) + 1 ELSE Count(program, "IF", at - 1))
    BY <1>1, CountStep
  <2>2. Current = program[at]
    BY DEF Current
  <2>3. Current.op \in {"ELSE", "ENDIF"} => Depth(program, at) > 0
    BY <1>1, <2>2, ProgramFacts
  <2>4. Current.op \in {"ELSE", "ENDIF"} => Depth(program, at) = m
    BY <1>1, <2>1, <2>2 DEF Depth
  <2>5. QED BY <2>2, <2>3, <2>4
<1>4. at \in Nat \ {0} /\ at' - 1 = at /\ \A i \in 1 .. at : i \in 1 .. Len(program)
  BY <1>1, ProgramFacts
<1>5. ASSUME NEW d, ElseSeen(d), Current.op = "ENDIF" => Depth(program, at) # d
      PROVE  ElseSeen(d)'
  <2>1. PICK i \in 1 .. at - 1 :
          /\ program[i].op = "ELSE" /\ Depth(program, i) = d
          /\ \A k \in i .. at - 1 : program[k].op = "ENDIF" => Depth(program, k) # d
    BY <1>5 DEF ElseSeen
  <2>2. i \in 1 .. at /\ \A k \in i .. at : k = at \/ k \in i .. at - 1
    BY <1>4
  <2>3. \A k \in i .. at : program[k].op = "ENDIF" => Depth(program, k) # d
    BY <1>3, <1>5, <2>1, <2>2
  <2>4. QED BY <1>4, <2>1, <2>2, <2>3 DEF ElseSeen
<1>6. CASE Current.op = "IF"
  <2> DEFINE frame == [else |-> n + 1, endif |-> None]
  <2>1. labels' = Append(labels, None) /\ frames' = Append(frames, frame)
    BY <1>6 DEF Labels, NewLabel
  <2> HIDE DEF frame, n, m, Framed
  <2>2. /\ DOMAIN labels' = 1 .. n + 1 /\ labels'[n + 1] = None
        /\ \A l \in 1 .. n : labels'[l] = labels[l]
    BY <1>1, <2>1 DEF n
  <2>3. /\ DOMAIN frames' = 1 .. m + 1 /\ frames'[m + 1] = frame
        /\ \A d \in 1 .. m : frames'[d] = frames[d]
    BY <1>1, <2>1 DEF m
  <2>4. ASSUME NEW l \in 1 .. n + 1, labels'[l] = None
        PROVE  \E d \in DOMAIN frames' : Awaits(frames'[d]) = l
    <3>1. CASE l = n + 1
      <4>1. Awaits(frame) = n + 1
        BY DEF Awaits, frame
      <4>2. m + 1 \in DOMAIN frames'
        BY <1>1, <2>3
      <4>3. QED BY <2>3, <3>1, <4>1, <4>2
    <3>2. CASE l \in 1 .. n
      <4>1. PICK d \in 1 .. m : Awaits(frames[d]) = l
        BY <1>2, <2>2, <2>4, <3>2
      <4>2. d \in DOMAIN frames' /\ Awaits(frames'[d]) = l
        BY <1>1, <2>3, <4>1
      <4>3. QED BY <4>2
    <3>3. QED BY <1>1, <3>1, <3>2
  <2>5. ASSUME NEW d \in DOMAIN frames', frames'[d].endif # None PROVE ElseSeen(d)'
    <3>1. d # m + 1
      BY <2>3, <2>5 DEF frame
    <3>2. d \in 1 .. m
      BY <1>1, <2>3, <3>1
    <3>3. QED BY <1>2, <1>5, <1>6, <2>3, <2>5, <3>2
  <2>6. QED BY <2>2, <2>4, <2>5 DEF Blocks
<1>7. CASE Current.op = "ELSE"
  <2> DEFINE put == [labels EXCEPT ![Frame.else] = Len(code) + 1]
             new == [Frame EXCEPT !.endif = n + 1]
             front == Front(frames)
  <2>1. labels' = Append(put, None) /\ frames' = Append(front, new)
    BY <1>7 DEF Labels, NewLabel
  <2>2. m > 0 /\ Depth(program, at) = m /\ Frame = frames[m] /\ m \in 1 .. m /\ Frame \in Framed
    <3>1. m > 0 /\ Depth(program, at) = m
      BY <1>3, <1>7
    <3>2. Frame = frames[m] /\ m \in 1 .. m
      BY <1>1, <3>1 DEF Frame, Last
    <3> HIDE DEF Framed, m
    <3>3. QED BY <1>1, <3>1, <3>2
  <2>3. front = [i \in 1 .. m - 1 |-> frames[i]]
    BY DEF Front
  <2>4. new.endif = n + 1 /\ Frame.else \in 1 .. n /\ n + 1 # None
    <3>1. n \in Nat
      BY <1>1
    <3>2. Frame \in Framed
      BY <2>2
    <3> HIDE DEF n
    <3>3. QED BY <3>1, <3>2 DEF None
  <2>5. /\ DOMAIN put = 1 .. n /\ Len(put) = n
        /\ \A l \in 1 .. n : put[l] = (IF l = Frame.else THEN Len(code) + 1 ELSE labels[l])
    <3>1. DOMAIN put = 1 .. n
      BY <1>1
    <3>2. QED BY <1>1, <3>1
  <2>6. Awaits(new) = n + 1
    BY <2>4 DEF Awaits
  <2> HIDE DEF new, put, n, m, Framed
  <2>7. /\ DOMAIN labels' = 1 .. n + 1
        /\ \A l \in 1 .. n : labels'[l] = put[l]
    BY <1>1, <2>1, <2>5
  <2> HIDE DEF front
  <2>8. DOMAIN front = 1 .. m - 1 /\ Len(front) = m - 1 /\ \A d \in 1 .. m - 1 : front[d] = frames[d]
    BY <1>1, <2>2, <2>3
  <2>9. /\ DOMAIN frames' = 1 .. m /\ frames'[m] = new
        /\ \A d \in 1 .. m - 1 : frames'[d] = frames[d]
    BY <1>1, <2>1, <2>2, <2>8
  <2>10. Awaits(frames[m]) = Frame.else
    <3>1. CASE frames[m].endif = None
      BY <2>2, <3>1 DEF Awaits
    <3>2. CASE frames[m].endif # None
      <4>1. PICK i \in 1 .. at - 1 :
              /\ program[i].op = "ELSE" /\ Depth(program, i) = m
              /\ \A k \in i .. at - 1 : program[k].op = "ENDIF" => Depth(program, k) # m
        BY <1>2, <2>2, <3>2 DEF ElseSeen
      <4>2. i \in 1 .. Len(program) /\ i < at
        BY <1>4
      <4>3. PICK k \in i .. at : program[k].op = "ENDIF" /\ Depth(program, k) = m
        BY <1>1, <1>3, <1>7, <2>2, <4>1, <4>2, ProgramFacts
      <4>4. k # at
        BY <1>3, <1>7, <4>3
      <4>5. k \in i .. at - 1
        BY <1>4, <4>3, <4>4
      <4>6. QED BY <4>1, <4>3, <4>5
    <3>3. QED BY <3>1, <3>2
  <2>11. ASSUME NEW l \in 1 .. n + 1, labels'[l] = None
         PROVE  \E d \in DOMAIN frames' : Awaits(frames'[d]) = l
    <3>1. CASE l = n + 1
      BY <2>2, <2>6, <2>9, <3>1
    <3>2. CASE l \in 1 .. n
      <4>1. put[l] = None
        BY <2>7, <2>11, <3>2
      <4>2. l # Frame.else
        <5>1. Len(code) + 1 # None
          BY <1>1 DEF None
        <5>2. QED BY <2>5, <3>2, <4>1, <5>1
      <4>3. PICK d \in 1 .. m : Awaits(frames[d]) = l
        BY <1>2, <2>5, <3>2, <4>1, <4>2
      <4>4. d # m
        BY <2>10, <4>2, <4>3
      <4>5. d \in 1 .. m - 1
        BY <1>1, <4>3, <4>4
      <4>6. d \in DOMAIN frames' /\ Awaits(frames'[d]) = l
        BY <2>9, <4>3, <4>5
      <4>7. QED BY <4>6
    <3>3. QED BY <1>1, <3>1, <3>2
  <2>12. ASSUME NEW d \in DOMAIN frames', frames'[d].endif # None PROVE ElseSeen(d)'
    <3>1. CASE d = m
      <4>1. at \in 1 .. at' - 1 /\ at .. at' - 1 = {at}
        BY <1>4
      <4>2. QED BY <1>3, <1>7, <2>2, <3>1, <4>1 DEF ElseSeen
    <3>2. CASE d \in 1 .. m - 1
      <4>1. d \in 1 .. m /\ frames[d].endif # None
        BY <1>1, <2>9, <2>12, <3>2
      <4>2. QED BY <1>2, <1>5, <1>7, <4>1
    <3>3. QED BY <1>1, <2>9, <3>1, <3>2
  <2>13. QED BY <2>7, <2>11, <2>12 DEF Blocks
<1>8. CASE Current.op = "ENDIF"
  <2> DEFINE x == IF Frame.endif # None THEN Frame.endif ELSE Frame.else
             put == [labels EXCEPT ![x] = Len(code)]
             front == Front(frames)
  <2>1. labels' = put /\ frames' = front
    BY <1>8 DEF Labels
  <2>2. m > 0 /\ Depth(program, at) = m /\ Frame = frames[m] /\ x = Awaits(frames[m])
    <3>1. m > 0 /\ Depth(program, at) = m
      BY <1>3, <1>8
    <3>2. QED BY <3>1 DEF Frame, Last, Awaits
  <2>3. /\ DOMAIN put = 1 .. n
        /\ \A l \in 1 .. n : put[l] = (IF l = x THEN Len(code) ELSE labels[l])
    <3>1. DOMAIN put = 1 .. n
      BY <1>1
    <3> HIDE DEF x
    <3>2. QED BY <1>1, <3>1
  <2>4. front = [i \in 1 .. m - 1 |-> frames[i]]
    BY DEF Front
  <2> HIDE DEF x, put, front, n, m, Framed
  <2>5. DOMAIN front = 1 .. m - 1 /\ \A d \in 1 .. m - 1 : front[d] = frames[d] /\ d \in 1 .. m /\ d # m
    BY <1>1, <2>2, <2>4
  <2>6. ASSUME NEW l \in 1 .. n, put[l] = None PROVE \E d \in DOMAIN front : Awaits(front[d]) = l
    <3>1. l # x /\ labels[l] = None
      <4>1. Len(code) # None
        BY <1>1 DEF None
      <4>2. QED BY <2>3, <2>6, <4>1
    <3>2. PICK d \in 1 .. m : Awaits(frames[d]) = l
      BY <1>2, <3>1
    <3>3. d \in 1 .. m - 1
      BY <1>1, <2>2, <3>1, <3>2
    <3>4. QED BY <2>5, <3>2, <3>3
  <2>7. ASSUME NEW d \in DOMAIN front, front[d].endif # None PROVE ElseSeen(d)'
    BY <1>2, <1>5, <2>2, <2>5, <2>7
  <2>8. QED BY <2>1, <2>3, <2>6, <2>7 DEF Blocks
<1>9. CASE Current.op \notin {"IF", "ELSE", "ENDIF"}
  <2>1. labels' = labels /\ frames' = frames
    BY <1>9 DEF Labels
  <2>2. \A d \in 1 .. m : frames[d].endif # None => ElseSeen(d)'
    BY <1>2, <1>5, <1>9
  <2> HIDE DEF n, m
  <2>3. QED BY <1>1, <1>2, <2>1, <2>2 DEF Blocks
<1>10. QED BY <1>6, <1>7, <1>8, <1>9

LEMMA GenerateInv == Inv /\ Generate => Inv'
<1> SUFFICES ASSUME Inv, Generate PROVE Inv'
  OBVIOUS
<1> DEFINE n == next_free'
<1>1. /\ pass = "generate" /\ pass' = pass /\ at' = at + 1 /\ at \in 1 .. Len(program)
      /\ code' = code \o Generated /\ NeedInner(NeedsInner) /\ Labels
      /\ UNCHANGED << shader, native, kept, dead, inout_rest, temp_rest >>
      /\ program' = program /\ processor' = processor
  BY ProgramFacts DEF Generate, walk, shader, Inv, Types
<1>2. /\ n \in Nat /\ next_free <= n /\ inner' \in Numbers(n) /\ Generated \in Seq(Insts(n))
      /\ Current.op = "ELSE" => Len(Generated) > 0
  BY <1>1, GeneratedTyped DEF Inv
<1>3. /\ next_free \in Nat /\ native \in [Registers -> Numbers(next_free)]
      /\ code \in Seq(Insts(next_free)) /\ at \in Nat \ {0} /\ Len(program) \in Nat
  BY ProgramFacts DEF Inv, Types
<1>4. /\ Active(Inputs)' = Active(Inputs) /\ Active(Temps)' = Active(Temps)
      /\ \A r : Fixed(r)' = Fixed(r) /\ \A i : Varying(i)' = Varying(i)
      /\ \A i : NativeIdx(i)' = NativeIdx(i)
  <2>1. \A i : Varying(i)' = Varying(i)
    BY <1>1, ShaderSame
  <2>2. \A i : NativeIdx(i)' = NativeIdx(i)
    BY <2>1 DEF NativeIdx
  <2>3. QED BY <1>1, <2>1, <2>2, ShaderSame
<1>5. code \in Seq(Insts(n)) /\ native \in [Registers -> Numbers(n)]
  <2>1. Seq(Insts(next_free)) \subseteq Seq(Insts(n)) /\ Numbers(next_free) \subseteq Numbers(n)
    BY <1>2, <1>3, NumbersOf
  <2> HIDE DEF n
  <2>2. QED BY <1>3, <2>1
<1>6. /\ code' \in Seq(Insts(n)) /\ Len(code') \in Nat /\ Len(code) <= Len(code')
      /\ Current.op = "ELSE" => Len(code) < Len(code')
  <2> DEFINE a == Len(code)
             b == Len(Generated)
  <2> HIDE DEF n
  <2>1. code' \in Seq(Insts(n)) /\ Len(code') = a + b /\ a \in Nat /\ b \in Nat
    BY <1>1, <1>2, <1>5, ConcatProperties, LenProperties
  <2>2. Current.op = "ELSE" => b > 0
    BY <1>2
  <2> HIDE DEF a, b
  <2>3. a + b \in Nat /\ a <= a + b /\ (b > 0 => a < a + b)
    BY <2>1
  <2>4. QED BY <2>1, <2>2, <2>3 DEF a
<1>7. Types'
  <2>1. at' \in Nat \ {0} /\ at' <= Len(program) + 1
    BY <1>1, <1>3
  <2> HIDE DEF n
  <2>2. /\ program' \in Programs /\ processor' \in Processors /\ pass' \in Passes /\ pass' # "permute"
        /\ kept' \subseteq ToSet(Temps) /\ dead' \subseteq {i \in DOMAIN program' : program'[i].op \in MovOps}
        /\ inout_rest' \subseteq Registers /\ temp_rest' \subseteq Active(Temps)'
    BY <1>1, <1>4 DEF Inv, Types, Passes
  <2>3. native' \in [Registers -> Numbers(n)]
    BY <1>1, <1>5
  <2>4. QED BY <1>1, <1>2, <1>6, <2>1, <2>2, <2>3 DEF Types, n
<1>8. Frames'
  <2>1. /\ labels' \in Seq(None .. Len(code'))
        /\ usage' \in [DOMAIN usage' -> 1 .. Len(labels')]
        /\ frames' \in Seq([else : 1 .. Len(labels'), endif : (1 .. Len(labels')) \union {None}])
        /\ Len(frames') = Count(program, "IF", at) - Count(program, "ENDIF", at)
    BY <1>1, <1>6, LabelsTyped DEF Inv
  <2>2. at' - 1 = at
    BY <1>1, <1>3
  <2>3. Blocks'
    BY <1>1, BlocksNext DEF Inv
  <2>4. QED BY <1>1, <2>1, <2>2, <2>3 DEF Frames
<1>9. Apart'
  <2>1. Apart
    BY DEF Inv
  <2>2. QED BY <1>1, <1>4, <2>1 DEF Apart
<1>10. Places'
  <2>1. Places
    BY DEF Inv
  <2>2. next_free > 0 => n > 0
    <3> HIDE DEF n
    <3>1. QED BY <1>2, <1>3
  <2>3. QED BY <1>1, <1>4, <2>1, <2>2 DEF Places
<1>11. QED BY <1>7, <1>8, <1>9, <1>10 DEF Inv

-----------------------------------------------------------------------------
(* The end of the compilation. *)

LEMMA ZDivTyped ==
  ASSUME Types
  PROVE  ZDiv \in Seq(Insts(next_free))
<1> DEFINE n == next_free
           pos == {r \in ToSet(Outputs) : ZDivided(r)}
           o == CHOOSE r \in pos : TRUE
           t == IF Uses(o) = {} THEN 0 ELSE native[o]
           half == Imm("0.5")
           here == Temp(t)
           a == Inst("ADD", t, << here, here >>)
           b == Inst("MUL", t, << here, half >>)
<1>1. CASE pos = {}
  BY <1>1 DEF ZDiv
<1>2. CASE pos # {}
  <2>1. t \in Usable(n) /\ n \in Nat
    <3>1. o \in ToSet(Outputs) /\ ZDivided(o)
      BY <1>2
    <3>2. native[o] \in Numbers(n) /\ n \in Nat
      BY <3>1, FileFacts DEF Types
    <3>3. native[o] \in Usable(n)
      BY <3>2, NumbersOf
    <3>4. Uses(o) = {} => 0 \in Usable(n)
      BY <3>1 DEF ZDivided, Usable
    <3>5. QED BY <3>2, <3>3, <3>4
  <2>2. here \in Opnds(n) /\ half \in Opnds(n) /\ {"ADD", "MUL", "0.5"} \subseteq Names
    <3>1. {"ADD", "MUL", "0.5"} \subseteq Names
      BY DEF Names
    <3>2. QED BY <2>1, <3>1, UsableTemp, ImmTyped
  <2>3. ~here.uniform
    BY DEF Temp
  <2>4. ZDiv = << a, b >>
    BY <1>2 DEF ZDiv
  <2> HIDE DEF t, half, here, n
  <2>5. /\ << here, here >> \in Seq(Opnds(n)) /\ << here, half >> \in Seq(Opnds(n))
    BY <2>2
  <2>6. a \in Drafts(n) /\ b \in Drafts(n) /\ a.src = << here, here >> /\ b.src = << here, half >>
    BY <2>1, <2>2, <2>5, InstOf DEF Inst
  <2> HIDE DEF a, b
  <2>7. \A k \in DOMAIN a.src : k \in {1, 2, 3} /\ (a.src[k].uniform => a.src[k].reg = half.reg)
    BY <2>3, <2>6
  <2>8. \A k \in DOMAIN b.src : k \in {1, 2, 3} /\ (b.src[k].uniform => b.src[k].reg = half.reg)
    BY <2>3, <2>6
  <2>9. Clashes(a) = {} /\ Clashes(b) = {}
    BY <2>7, <2>8, Agreeing
  <2>10. a \in Insts(n) /\ b \in Insts(n)
    BY <2>6, <2>9 DEF Insts
  <2>11. << a, b >> \in Seq(Insts(n))
    BY <2>10
  <2>12. QED BY <2>4, <2>11 DEF n
<1>3. QED BY <1>1, <1>2

LEMMA NopTyped ==
  ASSUME NEW n \in Nat, NEW insts
  PROVE  Nop(insts) \in Seq(Insts(n))
<1> DEFINE a == Inst("NOP", None, << >>)
<1>1. a \in Drafts(n) /\ a.src = << >>
  <2>1. "NOP" \in Names /\ None \in Usable(n) /\ << >> \in Seq(Opnds(n))
    BY DEF Names, Usable, None
  <2>2. QED BY <2>1, InstOf DEF Inst
<1> HIDE DEF a
<1>2. Clashes(a) = {}
  BY <1>1 DEF Clashes
<1>3. a \in Insts(n)
  BY <1>1, <1>2 DEF Insts
<1>4. << a >> \in Seq(Insts(n))
  BY <1>3
<1>5. Nop(insts) = << a >> \/ Nop(insts) = << >>
  BY DEF Nop, a
<1> DEFINE S == Insts(n)
<1> HIDE DEF S
<1>6. << >> \in Seq(S) /\ << a >> \in Seq(S)
  BY <1>4 DEF S
<1>7. Nop(insts) \in Seq(S)
  BY <1>5, <1>6
<1>8. QED BY <1>7 DEF S

LEMMA FilledInTyped ==
  ASSUME Frames, NEW n \in Nat, NEW insts \in Seq(Insts(n))
  PROVE  FilledIn(insts) \in Seq(Insts(n)) /\ Len(FilledIn(insts)) = Len(insts)
<1>1. insts \in [1 .. Len(insts) -> Insts(n)] /\ Len(insts) \in Nat /\ DOMAIN insts = 1 .. Len(insts)
  BY LenProperties
<1> DEFINE filled(i) == IF i - 1 \in DOMAIN usage THEN [insts[i] EXCEPT !.target = labels[usage[i - 1]]]
                        ELSE insts[i]
<1>2. ASSUME NEW i \in 1 .. Len(insts) PROVE filled(i) \in Insts(n)
  <2>1. insts[i] \in Insts(n)
    BY <1>1
  <2>2. CASE i - 1 \in DOMAIN usage
    <3> DEFINE inst == insts[i]
               x == labels[usage[i - 1]]
               new == [inst EXCEPT !.target = x]
    <3>1. x \in Int
      <4>1. usage[i - 1] \in 1 .. Len(labels) /\ labels \in [1 .. Len(labels) -> None .. Len(code)]
        BY <2>2, LenProperties DEF Frames
      <4>2. x \in None .. Len(code)
        BY <4>1
      <4>3. QED BY <4>2
    <3>2. inst \in Drafts(n) /\ Clashes(inst) = {}
      BY <2>1 DEF Insts
    <3> HIDE DEF inst, x
    <3>3. new \in Drafts(n) /\ new.src = inst.src
      BY <3>1, <3>2 DEF Drafts
    <3> HIDE DEF new
    <3>4. Clashes(new) = {}
      BY <3>2, <3>3 DEF Clashes
    <3>5. new \in Insts(n)
      BY <3>3, <3>4 DEF Insts
    <3>6. QED BY <2>2, <3>5 DEF new, inst, x
  <2>3. CASE i - 1 \notin DOMAIN usage
    BY <2>1, <2>3
  <2>4. QED BY <2>2, <2>3
<1>3. FilledIn(insts) = [i \in 1 .. Len(insts) |-> filled(i)]
  BY <1>1 DEF FilledIn
<1> HIDE DEF filled
<1> DEFINE len == Len(insts)
           f == [i \in 1 .. len |-> filled(i)]
<1>4. f \in [1 .. len -> Insts(n)] /\ len \in Nat
  BY <1>1, <1>2
<1> HIDE DEF f, len
<1>5. f \in Seq(Insts(n)) /\ Len(f) = len
  <2>1. DOMAIN f = 1 .. len
    BY <1>4
  <2>2. QED BY <1>4, <2>1
<1>6. QED BY <1>3, <1>5 DEF f, len

LEMMA FinishInv == Inv /\ Finish => Inv'
<1> SUFFICES ASSUME Inv, Finish PROVE Inv'
  OBVIOUS
<1> DEFINE n == next_free
           insts == code \o ZDiv
           nop == Nop(insts)
<1>1. /\ pass = "generate" /\ at > Len(program) /\ code' = FilledIn(insts \o nop)
      /\ pass' = (IF WithinLimits(code') THEN "done" ELSE "rejected")
      /\ UNCHANGED << shader, at, native, kept, dead, inout_rest, temp_rest, next_free, usage, labels,
                      frames, inner >>
      /\ program' = program /\ processor' = processor
  BY DEF Finish, walk, shader
<1>2. /\ n \in Nat /\ code \in Seq(Insts(n)) /\ at \in Nat \ {0} /\ Len(program) \in Nat
      /\ at <= Len(program) + 1 /\ program \in Programs
  BY <1>1, ProgramFacts DEF Inv, Types
<1>3. insts \in Seq(Insts(n)) /\ Len(insts) \in Nat /\ Len(code) <= Len(insts)
  <2>1. ZDiv \in Seq(Insts(n))
    BY ZDivTyped DEF Inv
  <2>2. insts \in Seq(Insts(n)) /\ Len(insts) = Len(code) + Len(ZDiv)
    BY <1>2, <2>1, ConcatProperties
  <2>3. Len(code) \in Nat /\ Len(ZDiv) \in Nat
    BY <1>2, <2>1, LenProperties
  <2> HIDE DEF insts
  <2>4. QED BY <2>2, <2>3
<1> HIDE DEF n, insts
<1>4. code' \in Seq(Insts(n)) /\ Len(code') \in Nat /\ Len(code) <= Len(code')
  <2>1. nop \in Seq(Insts(n))
    BY <1>2, NopTyped
  <2> DEFINE all == insts \o nop
  <2> HIDE DEF nop
  <2>2. all \in Seq(Insts(n)) /\ Len(all) = Len(insts) + Len(nop) /\ Len(nop) \in Nat
    BY <1>3, <2>1, ConcatProperties, LenProperties
  <2> HIDE DEF all
  <2>3. code' \in Seq(Insts(n)) /\ Len(code') = Len(all)
    BY <1>1, <1>2, <2>2, FilledInTyped DEF Inv, all, nop
  <2>4. Len(code) \in Nat
    BY <1>2, LenProperties
  <2>5. QED BY <1>3, <2>2, <2>3, <2>4
<1>5. pass' \in {"done", "rejected"}
  BY <1>1
<1>6. /\ Active(Inputs)' = Active(Inputs) /\ Active(Temps)' = Active(Temps)
      /\ \A r : Fixed(r)' = Fixed(r) /\ \A i : Varying(i)' = Varying(i)
      /\ \A i : NativeIdx(i)' = NativeIdx(i)
  <2>1. \A i : Varying(i)' = Varying(i)
    BY <1>1, ShaderSame
  <2>2. \A i : NativeIdx(i)' = NativeIdx(i)
    BY <2>1 DEF NativeIdx
  <2>3. QED BY <1>1, <2>1, <2>2, ShaderSame
<1>7. Types'
  <2>1. /\ program' \in Programs /\ processor' \in Processors /\ pass' \in Passes /\ pass' # "permute"
        /\ at' \in Nat \ {0} /\ at' <= Len(program') + 1
        /\ next_free' \in Nat /\ native' \in [Registers -> Numbers(next_free')]
        /\ inner' \in Numbers(next_free')
        /\ kept' \subseteq ToSet(Temps) /\ dead' \subseteq {i \in DOMAIN program' : program'[i].op \in MovOps}
        /\ inout_rest' \subseteq Registers /\ temp_rest' \subseteq Active(Temps)'
    BY <1>1, <1>5, <1>6 DEF Inv, Types, Passes
  <2>2. code' \in Seq(Insts(next_free'))
    BY <1>1, <1>4 DEF n
  <2>3. QED BY <2>1, <2>2 DEF Types
<1>8. Frames'
  <2>1. Frames
    BY DEF Inv
  <2>2. labels \in Seq(None .. Len(code'))
    <3> DEFINE a == Len(code)
               b == Len(code')
    <3>1. a \in Nat /\ b \in Nat /\ a <= b /\ labels \in Seq(None .. a)
      BY <1>2, <1>4, <2>1, LenProperties DEF Frames
    <3> HIDE DEF a, b
    <3>2. None .. a \subseteq None .. b
      BY <3>1 DEF None
    <3> DEFINE S == None .. a
               T == None .. b
    <3> HIDE DEF S, T
    <3>3. labels \in Seq(S) /\ S \subseteq T
      BY <3>1, <3>2 DEF S, T
    <3>4. labels \in Seq(T)
      BY <3>3
    <3>5. QED BY <3>4 DEF b, T
  <2>3. frames = << >>
    <3>1. at - 1 = Len(program)
      BY <1>1, <1>2
    <3>2. Len(frames) = Count(program, "IF", Len(program)) - Count(program, "ENDIF", Len(program))
      BY <1>1, <2>1, <3>1 DEF Frames
    <3>3. Count(program, "IF", Len(program)) = Count(program, "ENDIF", Len(program))
          /\ Count(program, "IF", Len(program)) \in Nat
      <4>1. IsFiniteSet(1 .. Len(program))
        BY FS_Interval
      <4>2. Count(program, "IF", Len(program)) \in Nat
        BY <4>1, FS_Subset, FS_CardinalityType DEF Count
      <4>3. QED BY <1>2, <4>2, ProgramFacts
    <3>4. Len(frames) = 0
      BY <3>2, <3>3
    <3>5. QED BY <2>1, <3>4 DEF Frames
  <2>4. pass' = "done" => WithinLimits(code)'
    <3>1. WithinLimits(code)' <=> WithinLimits(code')
      BY <1>1, <1>6 DEF WithinLimits, NumUniforms, Immediates, NumVaryings
    <3>2. QED BY <1>1, <3>1
  <2>5. usage \in [DOMAIN usage -> 1 .. Len(labels)]
        /\ frames \in Seq([else : 1 .. Len(labels), endif : (1 .. Len(labels)) \union {None}])
    BY <2>1 DEF Frames
  <2>6. Blocks'
    <3>1. DOMAIN frames = {}
      BY <2>3
    <3>2. QED BY <1>1, <2>1, <3>1 DEF Frames, Blocks
  <2>7. QED BY <1>1, <1>5, <2>2, <2>3, <2>4, <2>5, <2>6 DEF Frames
<1>9. Apart'
  <2>1. Apart
    BY DEF Inv
  <2>2. QED BY <1>1, <1>5, <1>6, <2>1 DEF Apart
<1>10. Places'
  <2>1. Places
    BY DEF Inv
  <2>2. QED BY <1>1, <1>5, <1>6, <2>1 DEF Places
<1>11. QED BY <1>7, <1>8, <1>9, <1>10 DEF Inv

LEMMA NextInv == Inv /\ [Next]_vars => Inv'
<1> SUFFICES ASSUME Inv, [Next]_vars PROVE Inv'
  OBVIOUS
<1>1. CASE Assign
  BY <1>1, TemporariesInv, OptimizeInv, InoutsInv, EndsInv DEF Assign
<1>2. CASE Permute
  BY <1>2, PermuteInv, EndPermuteInv DEF Permute
<1>3. CASE Generate
  BY <1>3, GenerateInv
<1>4. CASE Finish
  BY <1>4, FinishInv
<1>5. CASE UNCHANGED vars
  <2>1. UNCHANGED << program, processor, pass, at, native, kept, dead, inout_rest, temp_rest, next_free,
                     inner, code, usage, labels, frames >>
    BY <1>5 DEF vars, shader, walk
  <2>2. UNCHANGED shader
    BY <2>1 DEF shader
  <2>3. /\ Active(Inputs)' = Active(Inputs) /\ Active(Outputs)' = Active(Outputs)
        /\ Active(Temps)' = Active(Temps) /\ \A r : Fixed(r)' = Fixed(r)
        /\ \A i : Varying(i)' = Varying(i)
    BY <2>2, ShaderSame
  <2>4. \A i : NativeIdx(i)' = NativeIdx(i)
    BY <2>3 DEF NativeIdx
  <2>5. Types' /\ Frames'
    <3>1. WithinLimits(code)' <=> WithinLimits(code)
      BY <2>1, <2>3, <2>4 DEF WithinLimits, NumUniforms, Immediates, NumVaryings
    <3>2. Types' /\ Blocks'
      BY <2>1, <2>3 DEF Inv, Types, Frames, Blocks, ElseSeen
    <3>3. QED BY <2>1, <3>1, <3>2 DEF Inv, Frames
  <2>6. Apart'
    BY <2>1, <2>3 DEF Inv, Apart
  <2>7. Places'
    BY <2>1, <2>3, <2>4 DEF Inv, Places
  <2>8. QED BY <2>5, <2>6, <2>7 DEF Inv
<1>6. QED BY <1>1, <1>2, <1>3, <1>4, <1>5 DEF Next

LEMMA InvCorrect == Spec => []Inv
<1>1. Init => Inv
  BY InitInv
<1>2. QED BY <1>1, NextInv, PTL DEF Spec

-----------------------------------------------------------------------------
(* Registers share a temporary one after the other. *)

\* A temporary with an output in it gets no other: its last use was put off, or the
\* walk has passed it.
Gone(t) ==
  /\ pass \in {"optimize", "inputs"} => t \in kept
  /\ pass = "outputs" => t \in kept \/ t \notin temp_rest

\* The order is an input, a TGSI temporary, an output.
Sharing ==
  /\ \A s, t \in ToSet(Temps) : Shared(s, t) => s = t
  /\ \A r \in Active(Inputs), t \in ToSet(Temps) : Shared(r, t) => Uses(t) # {} /\ Before(r, t)
  /\ \A t \in ToSet(Temps), s \in Active(Outputs) :
       Shared(t, s) => Uses(t) # {} /\ (Before(t, s) \/ Rewritten(s)) /\ Gone(t)
  /\ \A r, s \in Active(Outputs) : Shared(r, s) => r = s \/ BothFixed(r, s)
  /\ \A r \in Active(Inputs), s \in Active(Outputs) :
       Shared(r, s) => Passed(r, s) \/ BothFixed(r, s)

LEMMA Least ==
  ASSUME NEW S \in SUBSET Nat, S # {}
  PROVE  \E x \in S : \A y \in S : x <= y
<1>1. PICK x \in S : \A y \in S : << y, x >> \notin OpToRel(<, Nat)
  BY NatLessThanWellFounded, WFMin
<1>2. \A y \in S : ~(y < x)
  BY <1>1 DEF OpToRel
<1>3. QED BY <1>2

LEMMA Extremes ==
  ASSUME NEW n \in Nat, NEW S \in SUBSET (1 .. n), S # {}
  PROVE  /\ Min(S) \in S /\ \A x \in S : Min(S) <= x
         /\ Max(S) \in S /\ \A x \in S : x <= Max(S)
<1>1. Min(S) \in S /\ \A x \in S : Min(S) <= x
  <2>1. S \in SUBSET Nat
    OBVIOUS
  <2>2. QED BY <2>1, Least DEF Min
<1>2. Max(S) \in S /\ \A x \in S : x <= Max(S)
  <2> DEFINE T == {n - x : x \in S}
  <2>1. T \in SUBSET Nat /\ T # {}
    <3>1. \A x \in S : n - x \in Nat
      OBVIOUS
    <3>2. QED BY <3>1
  <2>2. PICK t \in T : \A y \in T : t <= y
    <3> HIDE DEF T
    <3>1. QED BY <2>1, Least
  <2>3. PICK m \in S : t = n - m
    OBVIOUS
  <2>4. ASSUME NEW x \in S PROVE m >= x
    <3>1. n - m <= n - x
      BY <2>2, <2>3
    <3>2. QED BY <3>1
  <2>5. QED BY <2>4 DEF Max
<1>3. QED BY <1>1, <1>2

LEMMA UseFacts ==
  ASSUME program \in Programs, NEW r, Uses(r) # {}
  PROVE  /\ FirstUse(r) \in 1 .. Len(program) /\ Max(Uses(r)) \in 1 .. Len(program)
         /\ FirstUse(r) \in Uses(r) /\ Max(Uses(r)) \in Uses(r)
         /\ \A i \in Uses(r) : FirstUse(r) <= i /\ i <= Max(Uses(r))
<1>1. Len(program) \in Nat /\ Uses(r) \in SUBSET (1 .. Len(program))
  BY ProgramFacts DEF Uses
<1>2. QED BY <1>1, Extremes DEF FirstUse

\* Where an input and an output share by way of a temporary.
LEMMA ThroughTemp ==
  ASSUME program \in Programs, NEW r, NEW t, NEW s, Uses(r) # {}, Uses(t) # {}, Uses(s) # {},
         Before(r, t), Before(t, s) \/ Rewritten(s)
  PROVE  Passed(r, s)
<1>1. FirstUse(t) <= Max(Uses(t)) /\ FirstUse(t) \in Nat /\ Max(Uses(t)) \in Nat
      /\ Max(Uses(r)) \in Nat /\ FirstUse(s) \in Nat
  BY UseFacts
<1>2. QED BY <1>1 DEF Passed, Before

\* Dropping more moves takes nothing away.
LEMMA PassedKept ==
  ASSUME UNCHANGED shader, dead \subseteq dead'
  PROVE  \A r, s : /\ Before(r, s)' = Before(r, s) /\ BothFixed(r, s)' = BothFixed(r, s)
                   /\ Uses(r)' = Uses(r)
                   /\ Rewritten(s) => Rewritten(s)'
                   /\ Passed(r, s) => Passed(r, s)'
<1> TAKE r, s
<1>1. program' = program /\ Uses(r)' = Uses(r) /\ Uses(s)' = Uses(s)
      /\ Fixed(r)' = Fixed(r) /\ Fixed(s)' = Fixed(s)
  BY ShaderSame
<1>2. FirstUse(s)' = FirstUse(s)
  BY <1>1 DEF FirstUse
<1>3. Before(r, s)' = Before(r, s) /\ BothFixed(r, s)' = BothFixed(r, s)
  BY <1>1, <1>2 DEF Before, BothFixed
<1>4. (Rewritten(s) => Rewritten(s)') /\ (Renamed(r, s) => Renamed(r, s)')
  BY <1>1, <1>2 DEF Rewritten, Renamed
<1>5. QED BY <1>1, <1>3, <1>4 DEF Passed

\* A step gives temporaries to the registers in X.
LEMMA SharingGiven ==
  ASSUME Sharing, UNCHANGED shader, dead \subseteq dead', \A t \in ToSet(Temps) : Gone(t) => Gone(t)',
         NEW X \in SUBSET (ToSet(Inputs) \union ToSet(Outputs)),
         \A r, s \in Registers \ X : Shared(r, s)' => Shared(r, s),
         \A r \in Active(Inputs) \intersect X, t \in ToSet(Temps) :
           Shared(r, t)' => Uses(t) # {} /\ Before(r, t),
         \A t \in ToSet(Temps), s \in Active(Outputs) \intersect X :
           Shared(t, s)' => Uses(t) # {} /\ (Before(t, s) \/ Rewritten(s)') /\ Gone(t)',
         \A r \in Active(Outputs), s \in Active(Outputs) \intersect X :
           Shared(r, s)' \/ Shared(s, r)' => r = s,
         \A r \in Active(Inputs), s \in Active(Outputs) :
           (r \in X \/ s \in X) /\ Shared(r, s)' => Passed(r, s)'
  PROVE  Sharing'
<1>1. /\ Active(Inputs)' = Active(Inputs) /\ Active(Outputs)' = Active(Outputs)
      /\ \A r : Uses(r)' = Uses(r)
  BY ShaderSame
<1>2. /\ Active(Inputs) \subseteq Registers /\ Active(Outputs) \subseteq Registers
      /\ ToSet(Temps) \subseteq Registers /\ ToSet(Temps) \intersect X = {}
  BY FileFacts, FilesFacts
<1>3. \A s, t \in ToSet(Temps) : Shared(s, t)' => s = t
  BY <1>2 DEF Sharing
<1>4. ASSUME NEW r \in Active(Inputs), NEW t \in ToSet(Temps), Shared(r, t)'
      PROVE  Uses(t)' # {} /\ Before(r, t)'
  <2>1. Uses(t) # {} /\ Before(r, t)
    BY <1>2, <1>4 DEF Sharing
  <2>2. QED BY <2>1, PassedKept
<1>5. ASSUME NEW t \in ToSet(Temps), NEW s \in Active(Outputs), Shared(t, s)'
      PROVE  Uses(t)' # {} /\ (Before(t, s)' \/ Rewritten(s)') /\ Gone(t)'
  <2>1. CASE s \in X
    BY <1>5, <2>1, PassedKept
  <2>2. CASE s \notin X
    <3>1. Uses(t) # {} /\ (Before(t, s) \/ Rewritten(s)) /\ Gone(t)
      BY <1>2, <1>5, <2>2 DEF Sharing
    <3>2. QED BY <3>1, PassedKept
  <2>3. QED BY <2>1, <2>2
<1>6. ASSUME NEW r \in Active(Outputs), NEW s \in Active(Outputs), Shared(r, s)'
      PROVE  r = s \/ BothFixed(r, s)'
  <2>1. CASE r \in X \/ s \in X
    BY <1>6, <2>1
  <2>2. CASE r \notin X /\ s \notin X
    <3>1. r = s \/ BothFixed(r, s)
      BY <1>2, <1>6, <2>2 DEF Sharing
    <3>2. QED BY <3>1, PassedKept
  <2>3. QED BY <2>1, <2>2
<1>7. ASSUME NEW r \in Active(Inputs), NEW s \in Active(Outputs), Shared(r, s)'
      PROVE  Passed(r, s)' \/ BothFixed(r, s)'
  <2>1. CASE r \in X \/ s \in X
    BY <1>7, <2>1
  <2>2. CASE r \notin X /\ s \notin X
    <3>1. Passed(r, s) \/ BothFixed(r, s)
      BY <1>2, <1>7, <2>2 DEF Sharing
    <3>2. QED BY <3>1, PassedKept
  <2>3. QED BY <2>1, <2>2
<1>8. QED BY <1>1, <1>3, <1>4, <1>5, <1>6, <1>7 DEF Sharing

\* No register is given one.
LEMMA SharingKept ==
  ASSUME Sharing, UNCHANGED shader, dead \subseteq dead', \A t \in ToSet(Temps) : Gone(t) => Gone(t)',
         \A r, s \in Registers : Shared(r, s)' => Shared(r, s)
  PROVE  Sharing'
<1> DEFINE X == {}
<1>1. /\ X \in SUBSET (ToSet(Inputs) \union ToSet(Outputs)) /\ \A r : r \notin X
      /\ \A r, s \in Registers \ X : Shared(r, s)' => Shared(r, s)
  OBVIOUS
<1> HIDE DEF X
<1>2. /\ Active(Inputs) \intersect X = {} /\ Active(Outputs) \intersect X = {}
  BY <1>1
<1>3. QED BY <1>1, <1>2, SharingGiven

LEMMA SharingInit == Init => Sharing
<1> SUFFICES ASSUME Init PROVE Sharing
  OBVIOUS
<1>1. native = [r \in Registers |-> IF Fixed(r) /\ Uses(r) # {} THEN 0 ELSE None]
  BY DEF Init
<1>2. \A r, s \in Registers : Shared(r, s) => BothFixed(r, s)
  BY <1>1 DEF Shared, BothFixed
<1>3. \A t \in ToSet(Temps) : t \in Registers /\ ~Fixed(t)
  BY FileFacts, FilesFacts DEF Fixed
<1>4. Active(Inputs) \subseteq Registers /\ Active(Outputs) \subseteq Registers
  BY FileFacts
<1>5. QED BY <1>2, <1>3, <1>4 DEF Sharing, BothFixed

\* The temporaries get new registers.
LEMMA SharingTemporaries == Inv /\ Inv' /\ Sharing /\ AssignTemporaries => Sharing'
<1> SUFFICES ASSUME Inv, Inv', Sharing, AssignTemporaries PROVE Sharing'
  OBVIOUS
<1> DEFINE index(t) == CHOOSE i \in DOMAIN Temps : Temps[i] = t
<1>1. /\ pass = "temporaries" /\ pass' = "optimize"
      /\ native' = [r \in Registers |-> IF r \in ToSet(Temps) THEN next_free + index(r) - 1
                                        ELSE native[r]]
      /\ UNCHANGED << shader, dead >>
  BY DEF AssignTemporaries
<1>2. \A t \in ToSet(Temps) : index(t) \in Nat \ {0} /\ t \in Registers
  BY TempIndex, FileFacts
<1> HIDE DEF index
<1>3. /\ next_free \in Nat /\ native \in [Registers -> Numbers(next_free)]
      /\ Active(Inputs) \subseteq Registers \ ToSet(Temps)
      /\ Active(Outputs) \subseteq Registers \ ToSet(Temps)
  BY FileFacts, FilesFacts DEF Inv, Types
<1>4. ASSUME NEW t \in ToSet(Temps), NEW r \in Registers \ ToSet(Temps)
      PROVE  native'[t] # native'[r] /\ native'[r] = native[r]
  <2>1. native'[r] = native[r] /\ native[r] < next_free
    BY <1>1, <1>3 DEF Numbers, None
  <2>2. native'[t] = next_free + index(t) - 1 /\ index(t) \in Nat \ {0}
    BY <1>1, <1>2
  <2>3. QED BY <1>3, <2>1, <2>2
<1>5. \A s, t \in ToSet(Temps) : native'[s] = native'[t] => s = t
  BY <1>1 DEF Inv, Apart
<1>6. /\ Active(Inputs)' = Active(Inputs) /\ Active(Outputs)' = Active(Outputs)
      /\ \A r, s : (Passed(r, s) => Passed(r, s)') /\ BothFixed(r, s)' = BothFixed(r, s)
  BY <1>1, ShaderSame, PassedKept
<1>7. ASSUME NEW r \in Registers \ ToSet(Temps), NEW s \in Registers \ ToSet(Temps), Shared(r, s)'
      PROVE  Shared(r, s)
  <2>1. native'[r] = native[r] /\ native'[s] = native[s]
    BY <1>1
  <2>2. QED BY <1>7, <2>1 DEF Shared
<1>8. /\ \A s, t \in ToSet(Temps) : Shared(s, t)' => s = t
      /\ \A r \in Registers \ ToSet(Temps), t \in ToSet(Temps) : ~Shared(r, t)' /\ ~Shared(t, r)'
  BY <1>4, <1>5 DEF Shared
<1>9. \A r, s \in Active(Outputs) : Shared(r, s)' => r = s \/ BothFixed(r, s)'
  BY <1>3, <1>6, <1>7 DEF Sharing
<1>10. \A r \in Active(Inputs), s \in Active(Outputs) :
         Shared(r, s)' => Passed(r, s)' \/ BothFixed(r, s)'
  BY <1>3, <1>6, <1>7 DEF Sharing
<1>11. QED BY <1>3, <1>6, <1>8, <1>9, <1>10 DEF Sharing

LEMMA SharingOptimize == Inv /\ Sharing /\ OptimizeOutputs => Sharing'
<1> SUFFICES ASSUME Inv, Sharing, OptimizeOutputs PROVE Sharing'
  OBVIOUS
<1>0. PICK dst, src : dst = Current.dst /\ src = Current.src[1]
  OBVIOUS
<1>1. /\ pass = "optimize" /\ at <= Len(program) /\ pass' = pass
      /\ UNCHANGED << shader, temp_rest >>
      /\ ShareTemp \/ ShareInput \/ ShareNothing
  BY DEF OptimizeOutputs, Optimize, walk
<1>2. /\ next_free \in Nat /\ native \in [Registers -> Numbers(next_free)] /\ at \in 1 .. Len(program)
      /\ program \in Programs /\ Len(program) \in Nat /\ DOMAIN program = 1 .. Len(program)
  BY <1>1, ProgramFacts DEF Inv, Types
<1>3. ASSUME Current.op \in MovOps
      PROVE  Current.src = << src >> /\ at \in Uses(src) /\ at \in Uses(dst)
  <2>1. Current.src \in Seq(Operands) /\ Len(Current.src) = 1
    BY <1>0, <1>2, <1>3, ProgramFacts DEF Current
  <2>2. Current.src = << src >> /\ DOMAIN Current.src = {1}
    BY <1>0, <2>1
  <2>3. src \in ToSet(Current.src)
    BY <2>2 DEF ToSet
  <2>4. QED BY <1>0, <1>2, <2>2, <2>3 DEF Uses, Current
<1>4. \A t \in ToSet(Temps) : Gone(t) => t \in kept
  BY <1>1 DEF Gone
<1>5. /\ Active(Inputs) \subseteq Registers /\ Active(Outputs) \subseteq Registers
      /\ Active(Inputs) \subseteq ToSet(Inputs) /\ Active(Outputs) \subseteq ToSet(Outputs)
      /\ ToSet(Temps) \subseteq Registers /\ ToSet(Inputs) \subseteq Registers
      /\ ToSet(Outputs) \subseteq Registers
  BY FileFacts
<1>6. CASE ShareTemp
  <2> DEFINE X == {dst}
  <2>1. /\ Current.op \in MovOps /\ dst \in ToSet(Outputs) /\ src \in ToSet(Temps) /\ native[dst] = None
        /\ LastUse(src) = at
        /\ native' = [native EXCEPT ![dst] = native[src]] /\ kept' = kept \union {src}
        /\ dead' = dead \union {at}
    BY <1>0, <1>6 DEF ShareTemp, FromTemp
  <2>2. src \notin kept /\ Max(Uses(src)) = at
    BY <1>2, <2>1 DEF LastUse
  <2>3. Before(src, dst) \/ Rewritten(dst)'
    <3>1. FirstUse(dst) <= at /\ FirstUse(dst) \in Nat
      BY <1>2, <1>3, <2>1, UseFacts
    <3>2. CASE FirstUse(dst) = at
      BY <1>2, <2>2, <3>2 DEF Before
    <3>3. CASE FirstUse(dst) < at
      <4>1. at \in dead' /\ program'[at].dst = dst /\ FirstUse(dst)' < at
        BY <1>0, <1>1, <2>1, <3>3, ShaderSame DEF FirstUse, Current
      <4>2. QED BY <4>1 DEF Rewritten
    <3>4. QED BY <1>2, <3>1, <3>2, <3>3
  <2>4. Uses(src) # {}
    BY <1>3, <2>1
  <2>5. \A t \in ToSet(Temps) : (Gone(t) => Gone(t)') /\ (t = src => Gone(t)')
    BY <1>1, <2>1 DEF Gone
  <2>6. native'[dst] = native[src] /\ native[src] # None /\ \A r \in Registers \ {dst} : native'[r] = native[r]
    BY <1>1, <1>2, <1>5, <2>1, TempRegister
  <2>7. dst \notin ToSet(Inputs) /\ dst \notin ToSet(Temps)
    BY <2>1, FilesFacts
  <2>8. \A r, s \in Registers \ X : Shared(r, s)' => Shared(r, s)
    BY <2>6 DEF Shared
  <2>9. \A t \in ToSet(Temps) : Shared(t, dst)' => t = src
    BY <1>5, <2>6, <2>1, <2>7 DEF Sharing, Shared
  <2>10. \A r \in Active(Outputs) : Shared(r, dst)' \/ Shared(dst, r)' => r = dst
    <3>1. ASSUME NEW r \in Active(Outputs), r # dst, native'[r] = native'[dst] PROVE FALSE
      <4>1. Shared(src, r)
        BY <1>5, <2>6, <3>1 DEF Shared
      <4>2. QED BY <1>4, <2>1, <2>2, <4>1 DEF Sharing
    <3>2. QED BY <3>1 DEF Shared
  <2>11. \A r \in Active(Inputs) : ~Shared(r, dst)'
    <3>1. ASSUME NEW r \in Active(Inputs), native'[r] = native'[dst] PROVE FALSE
      <4>1. native[r] = native[src]
        BY <1>5, <2>6, <2>7, <3>1
      <4>2. QED BY <1>1, <2>1, <4>1 DEF Inv, Apart
    <3>2. QED BY <3>1 DEF Shared
  <2>12. X \in SUBSET (ToSet(Inputs) \union ToSet(Outputs)) /\ dead \subseteq dead'
         /\ Active(Inputs) \intersect X = {} /\ \A r \in X : r = dst
    BY <1>5, <2>1, <2>7
  <2> HIDE DEF X
  <2>13. QED BY <1>1, <2>1, <2>3, <2>4, <2>5, <2>8, <2>9, <2>10, <2>11, <2>12, SharingGiven
<1>7. CASE ShareInput
  <2> DEFINE X == {dst, src}
  <2>1. /\ Current.op \in MovOps /\ dst \in ToSet(Outputs) /\ src \in ToSet(Inputs)
        /\ Uses(dst) = {at}
        /\ native' = [native EXCEPT ![dst] = next_free, ![src] = next_free]
        /\ kept' = kept /\ dead' = dead \union {at}
    BY <1>0, <1>7 DEF ShareInput, FromInput
  <2>2. Renamed(src, dst)'
    <3>1. at \in dead' /\ program'[at].src = << src >> /\ program'[at].dst = dst /\ Uses(dst)' = {at}
      BY <1>0, <1>1, <1>3, <2>1, ShaderSame DEF Current
    <3>2. QED BY <3>1 DEF Renamed
  <2>3. \A t \in ToSet(Temps) : Gone(t) => Gone(t)'
    BY <1>1, <2>1 DEF Gone
  <2>4. /\ \A r \in Registers : native[r] # next_free
        /\ \A r \in Registers \ X : native'[r] = native[r]
        /\ \A r \in X : r \in Registers /\ native'[r] = next_free
    <3>1. \A r \in Registers : native[r] # next_free
      BY <1>2, NumbersOf
    <3>2. dst \in Registers /\ src \in Registers
      BY <1>5, <2>1
    <3>3. QED BY <1>2, <2>1, <3>1, <3>2
  <2>5. \A r, s \in Registers : Shared(r, s)' => (r \in X <=> s \in X)
    BY <2>4 DEF Shared
  <2>6. /\ src \notin ToSet(Outputs) /\ dst \notin ToSet(Inputs)
        /\ dst \notin ToSet(Temps) /\ src \notin ToSet(Temps)
    BY <2>1, FilesFacts
  <2>7. \A r, s \in Registers \ X : Shared(r, s)' => Shared(r, s)
    BY <2>4 DEF Shared
  <2>8. X \in SUBSET (ToSet(Inputs) \union ToSet(Outputs)) /\ dead \subseteq dead'
        /\ \A r \in X : r = dst \/ r = src
    BY <2>1
  <2> HIDE DEF X
  <2>9. \A r \in Registers, t \in ToSet(Temps) : r \in X => ~Shared(r, t)' /\ ~Shared(t, r)'
    BY <1>5, <2>5, <2>6, <2>8
  <2>10. \A r, s \in Active(Outputs) : s \in X /\ (Shared(r, s)' \/ Shared(s, r)') => r = s
    BY <1>5, <2>5, <2>6, <2>8
  <2>11. ASSUME NEW r \in Active(Inputs), NEW s \in Active(Outputs), r \in X \/ s \in X, Shared(r, s)'
         PROVE  Passed(r, s)'
    <3>1. r = src /\ s = dst
      BY <1>5, <2>5, <2>6, <2>8, <2>11
    <3>2. QED BY <2>2, <3>1 DEF Passed
  <2>12. QED BY <1>1, <1>5, <2>3, <2>7, <2>8, <2>9, <2>10, <2>11, SharingGiven
<1>8. CASE ShareNothing
  <2>1. UNCHANGED << native, kept, dead >>
    BY <1>8 DEF ShareNothing
  <2>2. QED BY <1>1, <2>1, SharingKept DEF Shared, Gone
<1>9. QED BY <1>1, <1>6, <1>7, <1>8

\* A walk gives an input or output a new temporary, or that of a TGSI temporary.
LEMMA SharingInouts == Inv /\ Sharing /\ AssignInouts => Sharing'
<1> SUFFICES ASSUME Inv, Sharing, AssignInouts PROVE Sharing'
  OBVIOUS
<1>1. PICK r \in inout_rest : \/ SkipAssigned(r) \/ AllocNext(r)
                              \/ \E t \in temp_rest : ShareNext(r, t) \/ SkipTemp(r, t)
  BY DEF AssignInouts
<1>2. /\ pass \in {"inputs", "outputs"} /\ pass' = pass /\ kept' = kept /\ dead' = dead
      /\ UNCHANGED shader
  BY DEF AssignInouts
<1>3. /\ next_free \in Nat /\ native \in [Registers -> Numbers(next_free)] /\ r \in Registers
      /\ temp_rest \subseteq Active(Temps) /\ kept \subseteq ToSet(Temps)
      /\ program \in Programs /\ Len(program) \in Nat
  BY <1>1, ProgramFacts DEF Inv, Types
<1>4. /\ pass = "inputs" => r \in Active(Inputs)
      /\ pass = "outputs" => r \in Active(Outputs)
  BY <1>1 DEF Inv, Apart
<1>5. /\ Active(Inputs) \subseteq Registers /\ Active(Outputs) \subseteq Registers
      /\ Active(Inputs) \subseteq ToSet(Inputs) /\ Active(Outputs) \subseteq ToSet(Outputs)
      /\ ToSet(Temps) \subseteq Registers
      /\ \A s \in Active(Inputs) \union Active(Outputs) : Uses(s) # {}
  BY FileFacts DEF Active
<1>6. r \notin ToSet(Temps) /\ Uses(r) # {} /\ LastUse(r) = Max(Uses(r)) /\ r \in ToSet(Inputs) \union ToSet(Outputs)
  <2>1. r \notin ToSet(Temps) /\ Uses(r) # {} /\ r \in ToSet(Inputs) \union ToSet(Outputs)
    BY <1>2, <1>4, <1>5, FilesFacts
  <2>2. QED BY <1>3, <2>1 DEF LastUse
<1>7. /\ pass = "inputs" => r \notin Active(Outputs)
      /\ pass = "outputs" => r \notin Active(Inputs)
  BY <1>4, <1>5, FilesFacts
<1>8. ASSUME UNCHANGED native, temp_rest' \subseteq temp_rest
      PROVE  Sharing'
  BY <1>2, <1>8, SharingKept DEF Shared, Gone
\* It gets v.
<1>9. ASSUME NEW v, native' = [native EXCEPT ![r] = v], temp_rest' \subseteq temp_rest,
             \A t \in ToSet(Temps) : native[t] = v =>
               /\ Uses(t) # {}
               /\ pass = "inputs" => Before(r, t)
               /\ pass = "outputs" => Before(t, r) /\ t \notin temp_rest',
             pass = "outputs" => \A s \in Active(Outputs) : native[s] # v,
             pass = "inputs" => \A s \in Active(Outputs) : native[s] = v => Passed(r, s),
             pass = "outputs" => \A s \in Active(Inputs) : native[s] = v => Passed(s, r)
      PROVE  Sharing'
  <2> DEFINE X == {r}
  <2>1. native'[r] = v /\ \A s \in Registers \ {r} : native'[s] = native[s]
    BY <1>3, <1>9
  <2>2. \A s, t \in Registers \ X : Shared(s, t)' => Shared(s, t)
    BY <2>1 DEF Shared
  <2>3. \A s \in Registers \ {r} : Shared(r, s)' \/ Shared(s, r)' => native[s] = v
    BY <2>1 DEF Shared
  <2>4. \A t \in ToSet(Temps) : Gone(t) => Gone(t)'
    BY <1>2, <1>9 DEF Gone
  <2>5. ASSUME NEW t \in ToSet(Temps), Shared(r, t)' \/ Shared(t, r)'
        PROVE  /\ Uses(t) # {}
               /\ pass = "inputs" => Before(r, t)
               /\ pass = "outputs" => Before(t, r) /\ Gone(t)'
    <3>1. native[t] = v
      BY <1>5, <1>6, <2>3, <2>5
    <3>2. pass = "outputs" => t \notin temp_rest' /\ Gone(t)'
      BY <1>2, <1>9, <3>1 DEF Gone
    <3>3. QED BY <1>9, <3>1, <3>2
  <2>6. ASSUME pass = "outputs", NEW s \in Active(Outputs), Shared(r, s)' \/ Shared(s, r)'
        PROVE  r = s
    BY <1>5, <1>9, <2>3, <2>6
  <2>7. ASSUME NEW q \in Active(Inputs), NEW s \in Active(Outputs), q = r \/ s = r, Shared(q, s)'
        PROVE  Passed(q, s)'
    <3>1. Passed(q, s)
      BY <1>2, <1>4, <1>5, <1>7, <1>9, <2>3, <2>7
    <3>2. QED BY <1>2, <3>1, PassedKept
  <2>8. /\ X \in SUBSET (ToSet(Inputs) \union ToSet(Outputs)) /\ dead \subseteq dead'
        /\ \A s \in X : s = r
    BY <1>2, <1>6
  <2> HIDE DEF X
  <2>9. CASE pass = "inputs"
    <3>1. Active(Outputs) \intersect X = {}
      BY <1>7, <2>8, <2>9
    <3>2. \A s \in Active(Inputs) \intersect X, t \in ToSet(Temps) :
            Shared(s, t)' => Uses(t) # {} /\ Before(s, t)
      BY <2>5, <2>8, <2>9
    <3>3. QED BY <1>2, <2>2, <2>4, <2>7, <2>8, <3>1, <3>2, SharingGiven
  <2>10. CASE pass = "outputs"
    <3>1. Active(Inputs) \intersect X = {}
      BY <1>7, <2>8, <2>10
    <3>2. \A t \in ToSet(Temps), s \in Active(Outputs) \intersect X :
            Shared(t, s)' => Uses(t) # {} /\ (Before(t, s) \/ Rewritten(s)') /\ Gone(t)'
      BY <2>5, <2>8, <2>10
    <3>3. \A q \in Active(Outputs), s \in Active(Outputs) \intersect X :
            Shared(q, s)' \/ Shared(s, q)' => q = s
      BY <2>6, <2>8, <2>10
    <3>4. QED BY <1>2, <2>2, <2>4, <2>7, <2>8, <3>1, <3>2, <3>3, SharingGiven
  <2>11. QED BY <1>2, <2>9, <2>10
<1>10. CASE SkipAssigned(r)
  BY <1>8, <1>10 DEF SkipAssigned
<1>11. CASE AllocNext(r)
  <2>1. native' = [native EXCEPT ![r] = next_free] /\ temp_rest' = temp_rest
    BY <1>11 DEF AllocNext
  <2>2. \A s \in Registers : native[s] # next_free
    BY <1>3, NumbersOf
  <2>3. /\ \A s \in ToSet(Temps) : native[s] # next_free
        /\ \A s \in Active(Inputs) : native[s] # next_free
        /\ \A s \in Active(Outputs) : native[s] # next_free
    BY <1>5, <2>2
  <2> DEFINE v == next_free
  <2> HIDE DEF v
  <2>4. QED BY <1>9, <2>1, <2>3 DEF v
<1>12. ASSUME NEW t \in temp_rest, ShareNext(r, t) PROVE Sharing'
  <2>1. /\ native' = [native EXCEPT ![r] = native[t]] /\ temp_rest' = temp_rest \ {t}
        /\ MayShare(r, t)
    BY <1>12 DEF ShareNext
  <2>2. t \in ToSet(Temps) /\ Uses(t) # {} /\ t \in Registers
    BY <1>3, <1>5, <1>12, FileFacts DEF Active
  <2>3. native[t] # None
    BY <1>2, <2>2, TempRegister
  <2>4. pass = "inputs" => Before(r, t)
    BY <1>6, <2>1 DEF MayShare, InputMayShare, Before
  <2>5. pass = "outputs" => t \notin kept /\ Before(t, r)
    <3>1. SUFFICES ASSUME pass = "outputs" PROVE t \notin kept /\ Before(t, r)
      OBVIOUS
    <3>2. FirstUse(r) >= LastUse(t) /\ FirstUse(r) \in 1 .. Len(program)
      BY <1>3, <1>6, <2>1, <3>1, UseFacts DEF MayShare, OutputMayShare
    <3>3. t \notin kept
      BY <1>3, <3>2 DEF LastUse
    <3>4. Max(Uses(t)) \in Nat
      BY <1>3, <2>2, UseFacts
    <3>5. QED BY <3>2, <3>3, <3>4 DEF LastUse, Before
  <2>6. \A u \in ToSet(Temps) : native[u] = native[t] => u = t
    BY <2>2, <2>3 DEF Sharing, Shared
  <2>7. ASSUME pass = "outputs", NEW s \in Active(Outputs), native[s] = native[t] PROVE FALSE
    <3>1. Gone(t)
      BY <2>2, <2>3, <2>7 DEF Sharing, Shared
    <3>2. QED BY <1>12, <2>5, <2>7, <3>1 DEF Gone
  <2>8. ASSUME pass = "inputs", NEW s \in Active(Outputs), native[s] = native[t] PROVE Passed(r, s)
    <3>1. Before(t, s) \/ Rewritten(s)
      BY <2>2, <2>3, <2>8 DEF Sharing, Shared
    <3>2. QED BY <1>3, <1>5, <1>6, <2>2, <2>4, <2>8, <3>1, ThroughTemp
  <2>9. ASSUME pass = "outputs", NEW s \in Active(Inputs), native[s] = native[t] PROVE Passed(s, r)
    <3>1. Before(s, t)
      BY <2>2, <2>3, <2>9 DEF Sharing, Shared
    <3>2. QED BY <1>3, <1>5, <1>6, <2>2, <2>5, <2>9, <3>1, ThroughTemp
  <2>10. temp_rest' \subseteq temp_rest /\ t \notin temp_rest'
    BY <2>1
  <2> DEFINE v == native[t]
  <2>11. \A u \in ToSet(Temps) : native[u] = v =>
               /\ Uses(u) # {}
               /\ pass = "inputs" => Before(r, u)
               /\ pass = "outputs" => Before(u, r) /\ u \notin temp_rest'
    BY <2>2, <2>4, <2>5, <2>6, <2>10
  <2>12. native' = [native EXCEPT ![r] = v]
    BY <2>1
  <2>13. /\ pass = "outputs" => \A s \in Active(Outputs) : native[s] # v
         /\ pass = "inputs" => \A s \in Active(Outputs) : native[s] = v => Passed(r, s)
         /\ pass = "outputs" => \A s \in Active(Inputs) : native[s] = v => Passed(s, r)
    BY <2>7, <2>8, <2>9
  <2> HIDE DEF v
  <2>14. QED BY <1>9, <2>10, <2>11, <2>12, <2>13
<1>13. ASSUME NEW t \in temp_rest, SkipTemp(r, t) PROVE Sharing'
  BY <1>8, <1>13 DEF SkipTemp
<1>14. QED BY <1>1, <1>10, <1>11, <1>12, <1>13

\* Swapping two temporaries keeps who shares.
LEMMA SharingPermute == Inv /\ Sharing /\ PermuteInputs => Sharing'
<1> SUFFICES ASSUME Inv, Sharing, PermuteInputs PROVE Sharing'
  OBVIOUS
<1> DEFINE to == NativeIdx(at)
           from == native[Inputs[at]]
<1>1. /\ pass = "permute" /\ pass' = pass /\ at \in 1 .. Len(Inputs)
      /\ native' = (IF Varying(at) THEN SwapNative(to, from) ELSE native)
      /\ UNCHANGED << shader, kept, dead, temp_rest >>
  BY FileFacts DEF PermuteInputs, walk, Inv, Types
<1>2. \A t : Gone(t) => Gone(t)'
  BY <1>1 DEF Gone
<1>3. \A r, s \in Registers : Shared(r, s)' => Shared(r, s)
  <2>1. CASE ~Varying(at)
    BY <1>1, <2>1 DEF Shared
  <2>2. CASE Varying(at)
    <3>1. from # None /\ to # None
      <4>1. from \in 1 .. next_free - 1 /\ at \in Nat \ {0} /\ next_free \in Nat
        BY <1>1, <2>2, Inplace DEF Inv, Types
      <4>2. to \in Nat
        BY <4>1, IdxFacts
      <4> HIDE DEF from, to
      <4>3. QED BY <4>1, <4>2 DEF None
    <3>2. native' = [r \in Registers |->
                       IF native[r] = from THEN to ELSE IF native[r] = to THEN from ELSE native[r]]
      BY <1>1, <2>2 DEF SwapNative
    <3> HIDE DEF from, to
    <3>3. \A r \in Registers :
            native'[r] = (IF native[r] = from THEN to ELSE IF native[r] = to THEN from ELSE native[r])
      BY <3>2
    <3>4. QED BY <3>1, <3>3 DEF Shared
  <2>3. QED BY <2>1, <2>2
<1>4. QED BY <1>1, <1>2, <1>3, SharingKept

LEMMA SharingNext == Inv /\ Inv' /\ Sharing /\ [Next]_vars => Sharing'
<1> SUFFICES ASSUME Inv, Inv', Sharing, [Next]_vars PROVE Sharing'
  OBVIOUS
<1>1. ASSUME UNCHANGED << shader, native, kept, dead >>, \A t : Gone(t) => Gone(t)'
      PROVE  Sharing'
  BY <1>1, SharingKept DEF Shared
<1>2. CASE EndOptimize
  BY <1>1, <1>2 DEF EndOptimize, Gone
<1>3. CASE EndInputs
  BY <1>1, <1>3 DEF EndInputs, Gone
<1>4. CASE EndOutputs
  BY <1>1, <1>4 DEF EndOutputs, Gone
<1>5. CASE EndPermute
  BY <1>1, <1>5 DEF EndPermute, Gone
<1>6. CASE Generate
  BY <1>1, <1>6 DEF Generate, Gone
<1>7. CASE Finish
  BY <1>1, <1>7 DEF Finish, Gone
<1>8. CASE UNCHANGED vars
  <2>1. UNCHANGED << shader, native, kept, dead, pass, temp_rest >>
    BY <1>8 DEF vars, shader
  <2>2. \A t : Gone(t) => Gone(t)'
    BY <2>1 DEF Gone
  <2>3. QED BY <1>1, <2>1, <2>2
<1>9. QED BY <1>2, <1>3, <1>4, <1>5, <1>6, <1>7, <1>8, SharingTemporaries, SharingOptimize,
             SharingInouts, SharingPermute DEF Next, Assign, Permute

LEMMA SharingCorrect == Spec => []Sharing
<1>1. QED BY SharingInit, SharingNext, InvCorrect, PTL DEF Spec

\* Registers that share a temporary do so one after the other, though an input may
\* share with a TGSI temporary and that one with an output.
LEMMA SharingSound == Inv /\ Sharing => SharedAfterUse
<1> SUFFICES ASSUME Inv, Sharing, NEW r \in Registers, NEW s \in Registers, r # s,
                    Uses(r) # {}, Uses(s) # {}, Shared(r, s)
             PROVE  Passed(r, s) \/ Passed(s, r) \/ BothFixed(r, s)
  BY DEF SharedAfterUse
<1>1. Shared(s, r)
  BY DEF Shared
<1>2. \A q \in {r, s} : \/ q \in Active(Inputs) \/ q \in Active(Outputs) \/ q \in ToSet(Temps)
  BY DEF Registers, Active
<1>3. CASE r \in Active(Inputs)
  <2>1. s \notin Active(Inputs)
    BY <1>3 DEF Inv, Apart, Shared
  <2>2. QED BY <1>2, <1>3, <2>1 DEF Sharing, Passed
<1>4. CASE r \in Active(Outputs)
  <2>1. CASE s \in Active(Inputs)
    BY <1>1, <1>4, <2>1 DEF Sharing, BothFixed
  <2>2. CASE s \in Active(Outputs)
    BY <1>4, <2>2 DEF Sharing
  <2>3. CASE s \in ToSet(Temps)
    BY <1>1, <1>4, <2>3 DEF Sharing, Passed
  <2>4. QED BY <1>2, <2>1, <2>2, <2>3
<1>5. CASE r \in ToSet(Temps)
  <2>1. s \notin ToSet(Temps)
    BY <1>5 DEF Sharing
  <2>2. CASE s \in Active(Inputs)
    BY <1>1, <1>5, <2>2 DEF Sharing, Passed
  <2>3. CASE s \in Active(Outputs)
    BY <1>5, <2>3 DEF Sharing, Passed
  <2>4. QED BY <1>2, <2>1, <2>2, <2>3
<1>6. QED BY <1>2, <1>3, <1>4, <1>5

-----------------------------------------------------------------------------
(* Branches.  A branch that was generated has a label, and a label is placed  *)
(* behind the branches that are marked with it.                              *)

Marked ==
  /\ \A k \in DOMAIN code : Branches(code[k]) => k - 1 \in DOMAIN usage
  /\ \A i \in DOMAIN usage :
       i \in Nat /\ i < Len(code) /\ (labels[usage[i]] = None \/ labels[usage[i]] > i)

Forward ==
  /\ pass \notin {"generate", "done", "rejected"} => code = << >> /\ usage = << >>
  /\ pass = "generate" => Marked
  /\ BranchesForward

\* A first source that is a uniform is the first uniform, and stays.
LEMMA FirstStays ==
  ASSUME NEW inst, inst.src[1].uniform, 1 \in DOMAIN inst.src,
         \A k \in DOMAIN inst.src : k \in {1, 2, 3}
  PROVE  1 \notin Clashes(inst)
<1> DEFINE uniforms == {k \in DOMAIN inst.src : inst.src[k].uniform}
<1>1. 1 \in uniforms /\ \A k \in uniforms : k \in {1, 2, 3}
  OBVIOUS
<1> HIDE DEF uniforms
<1>2. \A y \in uniforms : 1 <= y
  BY <1>1
<1>3. \A x \in uniforms : x <= 1 => x = 1
  BY <1>1
<1>4. Min(uniforms) = 1
  BY <1>1, <1>2, <1>3 DEF Min
<1>5. QED BY <1>4 DEF Clashes, uniforms

LEMMA TranslationBranches ==
  ASSUME Types, at \in 1 .. Len(program)
  PROVE  /\ Current.op \notin {"IF", "ELSE"} =>
              \A i \in DOMAIN Translation : Translation[i].op \notin {"BRANCH", "BRANCH_EQ"}
         /\ Current.op = "IF" =>
              Translation = << Inst("BRANCH_EQ", None, << Operand(Current.src[1]), Imm("0.0") >>) >>
         /\ Current.op = "ELSE" => Translation = << Inst("BRANCH", None, << >>) >>
<1> DEFINE dst == IF Current.dst \in Registers THEN native[Current.dst] ELSE None
           src == [k \in DOMAIN Current.src |-> Operand(Current.src[k])]
<1>1. /\ Current.op \notin {"BRANCH", "BRANCH_EQ"}
      /\ Current.op = "IF" => Current.src \in Seq(Operands) /\ Len(Current.src) = 1
  BY ProgramFacts DEF Current, Types
<1>2. ASSUME Current.op = "IF" PROVE src[1] = Operand(Current.src[1])
  <2>1. 1 \in DOMAIN Current.src
    BY <1>1, <1>2
  <2>2. QED BY <2>1
<1>3. CASE Current.op = "LIT"
  <2>1. Translation = << Inst("LOG", InnerReg, << src[1] >>),
                         Inst("MUL", InnerReg, << Temp(InnerReg), src[1] >>),
                         Inst("LITP", dst, << src[1], src[1], Temp(InnerReg) >>) >>
    BY <1>3 DEF Translation
  <2> HIDE DEF dst, src
  <2>2. QED BY <1>3, <2>1 DEF Inst
<1>4. CASE Current.op = "SIN"
  <2>1. Translation = << Inst("MUL", dst, << src[1], Imm("0.0") >>), Inst("SIN", dst, << Temp(dst) >>) >>
    BY <1>4 DEF Translation
  <2> HIDE DEF dst, src
  <2>2. QED BY <1>4, <2>1 DEF Inst
<1>5. CASE Current.op = "IF"
  BY <1>2, <1>5 DEF Translation
<1>6. CASE Current.op = "ELSE"
  BY <1>6 DEF Translation
<1>7. CASE Current.op = "ENDIF"
  BY <1>7 DEF Translation
<1>8. CASE Current.op \notin {"LIT", "SIN", "IF", "ELSE", "ENDIF"}
  <2>1. Translation = << Inst(Current.op, dst, src) >>
    BY <1>8 DEF Translation
  <2> HIDE DEF dst, src
  <2>2. QED BY <1>1, <1>8, <2>1 DEF Inst
<1>9. QED BY <1>3, <1>4, <1>5, <1>6, <1>7, <1>8

\* One instruction that needs no move but for its own operands.
LEMMA GeneratedOne ==
  ASSUME Types, at \in 1 .. Len(program), NeedInner(NeedsInner), at \notin dead,
         NEW inst, Translation = << inst >>, Current.op # "LIT"
  PROVE  /\ Generated = Emit(inst) /\ inst \in Drafts(next_free') /\ Len(inst.src) <= 3
         /\ next_free' \in Nat /\ (Clashes(inst) # {} => InnerReg \in Numbers(next_free'))
<1> DEFINE n == next_free'
           emitted == [i \in DOMAIN Translation |-> Emit(Translation[i])]
<1>1. /\ n \in Nat /\ next_free <= n
      /\ NeedsInner => InnerReg \in Numbers(n)
  BY DEF Types, NeedInner, InnerReg, Numbers, None
<1>2. 1 \in DOMAIN Translation /\ Translation[1] = inst /\ DOMAIN Translation = {1}
  OBVIOUS
<1>3. Clashes(inst) # {} => InnerReg \in Numbers(n)
  BY <1>1, <1>2 DEF NeedsInner
<1> HIDE DEF n
<1>4. inst \in Drafts(n) /\ Len(inst.src) <= 3
  BY <1>1, <1>2, TranslationTyped DEF Short
<1>5. Emit(inst) \in Seq(Insts(n))
  BY <1>1, <1>3, <1>4, EmitTyped
<1>6. emitted = << Emit(inst) >>
  BY <1>2
<1>7. Generated = FlattenSeq(emitted)
  BY DEF Generated
<1> HIDE DEF emitted
<1>8. DOMAIN emitted = 1 .. Len(emitted) /\ Len(emitted) = 1 /\ \A i \in DOMAIN emitted : emitted[i] \in Seq(Insts(n))
  BY <1>5, <1>6
<1>9. FlattenSeq(emitted) = emitted[1]
  BY <1>8, FlattenThree
<1>10. QED BY <1>1, <1>3, <1>4, <1>6, <1>7, <1>9 DEF n

\* Only IF and ELSE become a branch, and it comes first.
LEMMA GeneratedBranches ==
  ASSUME Types, at \in 1 .. Len(program), NeedInner(NeedsInner)
  PROVE  /\ \A k \in DOMAIN Generated : Branches(Generated[k]) => k = 1 /\ Current.op \in {"IF", "ELSE"}
         /\ Current.op \in {"IF", "ELSE"} => Len(Generated) > 0
<1> DEFINE n == next_free'
           emitted == [i \in DOMAIN Translation |-> Emit(Translation[i])]
           Plain == {i \in Insts(n) : i.op \notin {"BRANCH", "BRANCH_EQ"}}
<1>1. CASE at \in dead
  <2>1. Generated = << >> /\ Current.op \in MovOps
    BY <1>1 DEF Generated, Types, Current
  <2>2. QED BY <2>1 DEF MovOps
<1>2. CASE at \notin dead /\ Current.op \notin {"IF", "ELSE"}
  <2>1. /\ n \in Nat /\ next_free <= n
        /\ NeedsInner => InnerReg \in Numbers(n)
    BY DEF Types, NeedInner, InnerReg, Numbers, None
  <2> HIDE DEF n
  <2>2. Current.op = "LIT" => InnerReg \in Numbers(n)
    BY <1>2, <2>1 DEF NeedsInner
  <2>3. /\ DOMAIN Translation = 1 .. Len(Translation) /\ Len(Translation) \in 0 .. 3
        /\ \A i \in DOMAIN Translation : Translation[i] \in Short(n)
    BY <2>1, <2>2, TranslationTyped
  <2>4. ASSUME NEW i \in DOMAIN Translation
        PROVE  Emit(Translation[i]) \in Seq(Plain)
    <3> DEFINE inst == Translation[i]
               e == Emit(inst)
    <3>1. Clashes(inst) # {} => InnerReg \in Numbers(n)
      BY <1>2, <2>1 DEF NeedsInner
    <3>2. inst \in Drafts(n) /\ Len(inst.src) <= 3 /\ inst.op \notin {"BRANCH", "BRANCH_EQ"}
      BY <1>2, <2>3, TranslationBranches DEF Short
    <3> HIDE DEF inst
    <3>3. e \in Seq(Insts(n)) /\ \A j \in DOMAIN e : e[j].op = "MOV" \/ e[j].op = inst.op
      BY <2>1, <3>1, <3>2, EmitTyped
    <3> HIDE DEF e
    <3>4. e \in [1 .. Len(e) -> Insts(n)] /\ Len(e) \in Nat
      BY <3>3, LenProperties
    <3>5. \A j \in 1 .. Len(e) : e[j] \in Plain
      BY <3>2, <3>3, <3>4
    <3> HIDE DEF Plain
    <3>6. e \in Seq(Plain)
      BY <3>3, <3>4, <3>5
    <3>7. QED BY <3>6 DEF e, inst
  <2>5. Generated = FlattenSeq(emitted)
    BY <1>2 DEF Generated
  <2> HIDE DEF Plain
  <2>6. /\ DOMAIN emitted = 1 .. Len(emitted) /\ Len(emitted) = Len(Translation)
        /\ \A i \in DOMAIN emitted : emitted[i] \in Seq(Plain)
    BY <2>3, <2>4
  <2> HIDE DEF emitted
  <2>7. FlattenSeq(emitted) \in IF Len(emitted) = 0 THEN {emitted} ELSE Seq(Plain)
    BY <2>3, <2>6, FlattenThree
  <2>8. FlattenSeq(emitted) \in Seq(Plain)
    <3>1. CASE Len(emitted) = 0
      <4>1. emitted = << >>
        BY <2>6, <3>1
      <4>2. FlattenSeq(emitted) = << >>
        BY <2>7, <3>1, <4>1
      <4>3. QED BY <4>2
    <3>2. CASE Len(emitted) # 0
      BY <2>7, <3>2
    <3>3. QED BY <3>1, <3>2
  <2>9. \A k \in DOMAIN Generated : Generated[k] \in Plain
    BY <2>5, <2>8, LenProperties
  <2>10. QED BY <1>2, <2>9 DEF Plain, Branches
<1>3. CASE at \notin dead /\ Current.op = "IF"
  <2> DEFINE one == Operand(Current.src[1])
             two == Imm("0.0")
             inst == Inst("BRANCH_EQ", None, << one, two >>)
             e == Emit(inst)
  <2>1. Translation = << inst >>
    BY <1>3, TranslationBranches
  <2>2. /\ inst.op = "BRANCH_EQ" /\ inst.src = << one, two >> /\ DOMAIN inst.src = {1, 2}
        /\ inst.src[1] = one /\ inst.src[2] = two
    BY DEF Inst
  <2> HIDE DEF inst, one, two
  <2>3. /\ Generated = Emit(inst) /\ inst \in Drafts(n) /\ Len(inst.src) <= 3 /\ n \in Nat
        /\ Clashes(inst) # {} => InnerReg \in Numbers(n)
    BY <1>3, <2>1, GeneratedOne
  <2> HIDE DEF n
  <2>4. /\ e \in Seq(Insts(n)) /\ Len(e) > 0 /\ (Clashes(inst) = {} => Len(e) = 1)
        /\ \A i \in DOMAIN e :
             \/ e[i].op = "MOV"
             \/ e[i].op = inst.op /\ (1 \in DOMAIN inst.src \ Clashes(inst) => e[i].src[1] = inst.src[1])
    BY <2>3, EmitTyped
  <2> HIDE DEF e
  <2>5. DOMAIN e = 1 .. Len(e)
    BY <2>4, LenProperties
  <2>6. CASE one.uniform
    <3>1. 1 \notin Clashes(inst)
      <4>1. inst.src[1].uniform /\ 1 \in DOMAIN inst.src /\ \A k \in DOMAIN inst.src : k \in {1, 2, 3}
        BY <2>2, <2>6
      <4>2. QED BY <4>1, FirstStays
    <3>2. \A i \in DOMAIN e : ~Branches(e[i])
      BY <2>2, <2>4, <2>6, <3>1 DEF Branches
    <3>3. QED BY <2>3, <2>4, <3>2 DEF e
  <2>7. CASE ~one.uniform
    <3>1. \A k \in DOMAIN inst.src : inst.src[k].uniform => inst.src[k].reg = two.reg
      BY <2>2, <2>7
    <3>2. \A k \in DOMAIN inst.src : k \in {1, 2, 3}
      BY <2>2
    <3>3. Clashes(inst) = {}
      BY <3>1, <3>2, Agreeing
    <3>4. Len(e) = 1 /\ DOMAIN e = {1}
      BY <2>4, <2>5, <3>3
    <3>5. QED BY <1>3, <2>3, <3>4 DEF e
  <2>8. QED BY <2>6, <2>7
<1>4. CASE at \notin dead /\ Current.op = "ELSE"
  <2> DEFINE inst == Inst("BRANCH", None, << >>)
             e == Emit(inst)
  <2>1. Translation = << inst >>
    BY <1>4, TranslationBranches
  <2>2. inst.src = << >>
    BY DEF Inst
  <2> HIDE DEF inst
  <2>3. /\ Generated = Emit(inst) /\ inst \in Drafts(n) /\ Len(inst.src) <= 3 /\ n \in Nat
        /\ Clashes(inst) # {} => InnerReg \in Numbers(n)
    BY <1>4, <2>1, GeneratedOne
  <2>4. Clashes(inst) = {}
    BY <2>2 DEF Clashes
  <2> HIDE DEF n
  <2>5. e \in Seq(Insts(n)) /\ Len(e) = 1
    BY <2>3, <2>4, EmitTyped
  <2> HIDE DEF e
  <2>6. DOMAIN e = {1}
    BY <2>5
  <2>7. QED BY <1>4, <2>3, <2>5, <2>6 DEF e
<1>5. QED BY <1>1, <1>2, <1>3, <1>4

\* What a step writes into the labels keeps them behind the branches that are marked.
LEMMA LabelsForward ==
  ASSUME Types, Frames, Marked, pass = "generate", at \in 1 .. Len(program), Labels
  PROVE  /\ \A i \in DOMAIN usage' :
              /\ i \in DOMAIN usage \/ (i = Len(code) /\ Current.op \in {"IF", "ELSE"})
              /\ labels'[usage'[i]] = None \/ labels'[usage'[i]] > i
         /\ DOMAIN usage \subseteq DOMAIN usage'
         /\ Current.op \in {"IF", "ELSE"} => Len(code) \in DOMAIN usage'
<1> DEFINE n == Len(labels)
           c == Len(code)
<1>1. /\ n \in Nat /\ c \in Nat /\ DOMAIN labels = 1 .. n
      /\ labels \in Seq(None .. c) /\ \A i \in DOMAIN usage : usage[i] \in 1 .. n
      /\ \A i \in DOMAIN usage :
           i \in Nat /\ i < c /\ (labels[usage[i]] = None \/ labels[usage[i]] > i)
  BY LenProperties DEF Types, Frames, Marked
<1>2. ASSUME Current.op \in {"ELSE", "ENDIF"}
      PROVE  Frame.else \in 1 .. n /\ (Frame.endif # None => Frame.endif \in 1 .. n)
  <2> DEFINE Framed == [else : 1 .. n, endif : (1 .. n) \union {None}]
             open == Count(program, "IF", at - 1) - Count(program, "ENDIF", at - 1)
  <2>1. frames \in Seq(Framed) /\ Len(frames) = open
    BY DEF Frames
  <2>2. program \in Programs /\ Depth(program, at) > 0 /\ program[at].op # "IF"
    BY <1>2, ProgramFacts DEF Types, Current
  <2>3. Depth(program, at) = open
    BY <2>2, CountStep DEF Depth
  <2> HIDE DEF Framed, open
  <2>4. Len(frames) > 0
    BY <2>1, <2>2, <2>3
  <2>5. Frame \in Framed
    BY <2>1, <2>4, FrontTyped DEF Frame
  <2>6. QED BY <2>5 DEF Framed
<1> HIDE DEF n, c
<1>3. CASE Current.op = "IF"
  <2>1. /\ labels' = Append(labels, None)
        /\ usage' = [i \in DOMAIN usage \union {c} |-> IF i = c THEN n + 1 ELSE usage[i]]
    BY <1>3 DEF Labels, MarkUse, NewLabel, n, c
  <2>2. labels'[n + 1] = None /\ \A j \in 1 .. n : labels'[j] = labels[j]
    BY <1>1, <2>1 DEF n
  <2>3. QED BY <1>1, <1>3, <2>1, <2>2 DEF c
<1>4. CASE Current.op = "ELSE"
  <2> DEFINE f == Frame.else
             placed == [labels EXCEPT ![f] = c + 1]
  <2>1. /\ labels' = Append(placed, None)
        /\ usage' = [i \in DOMAIN usage \union {c} |-> IF i = c THEN n + 1 ELSE usage[i]]
    BY <1>4 DEF Labels, MarkUse, NewLabel, n, c
  <2>2. f \in 1 .. n
    BY <1>2, <1>4
  <2> HIDE DEF f
  <2>3. Len(placed) = n /\ placed \in Seq(Int) /\ \A j \in 1 .. n : placed[j] = IF j = f THEN c + 1 ELSE labels[j]
    <3>1. labels \in Seq(Int)
      <4>1. None .. c \subseteq Int
        OBVIOUS
      <4> DEFINE S == None .. c
                 T == Int
      <4> HIDE DEF S, T
      <4>2. labels \in Seq(S) /\ S \subseteq T
        BY <1>1, <4>1 DEF S, T
      <4>3. labels \in Seq(T)
        BY <4>2
      <4>4. QED BY <4>3 DEF T
    <3>2. c + 1 \in Int
      BY <1>1
    <3> DEFINE v == c + 1
    <3>6. f \in 1 .. Len(labels) /\ v \in Int
      BY <2>2, <3>2 DEF n
    <3> HIDE DEF v
    <3>7. [labels EXCEPT ![f] = v] \in Seq(Int) /\ Len([labels EXCEPT ![f] = v]) = Len(labels)
      BY <3>1, <3>6, ExceptSeq
    <3>3. placed \in Seq(Int) /\ Len(placed) = Len(labels)
      BY <3>7 DEF v
    <3>4. \A j \in 1 .. n : placed[j] = IF j = f THEN c + 1 ELSE labels[j]
      BY <1>1
    <3>5. QED BY <3>3, <3>4 DEF n
  <2> HIDE DEF placed
  <2>4. labels'[n + 1] = None /\ \A j \in 1 .. n : labels'[j] = placed[j]
    BY <1>1, <2>1, <2>3
  <2>5. ASSUME NEW i \in DOMAIN usage PROVE labels'[usage[i]] = None \/ labels'[usage[i]] > i
    <3>1. labels'[usage[i]] = IF usage[i] = f THEN c + 1 ELSE labels[usage[i]]
      BY <1>1, <2>3, <2>4
    <3>2. c + 1 > i
      BY <1>1
    <3>3. QED BY <1>1, <3>1, <3>2
  <2>6. c \notin DOMAIN usage
    BY <1>1
  <2>7. DOMAIN usage' = DOMAIN usage \union {c} /\ usage'[c] = n + 1 /\ \A i \in DOMAIN usage : usage'[i] = usage[i]
    BY <2>1, <2>6
  <2>8. QED BY <1>4, <2>4, <2>5, <2>7 DEF c
<1>5. CASE Current.op = "ENDIF"
  <2> DEFINE f == IF Frame.endif # None THEN Frame.endif ELSE Frame.else
  <2>4. labels' = [labels EXCEPT ![f] = Len(code)] /\ usage' = usage
    BY <1>5 DEF Labels
  <2>1. labels' = [labels EXCEPT ![f] = c] /\ usage' = usage
    BY <2>4 DEF c
  <2>2. f \in 1 .. n
    BY <1>2, <1>5
  <2> HIDE DEF f
  <2>3. \A j \in 1 .. n : labels'[j] = IF j = f THEN c ELSE labels[j]
    BY <1>1, <2>1, <2>2
  <2>5. ASSUME NEW i \in DOMAIN usage PROVE labels'[usage[i]] = None \/ labels'[usage[i]] > i
    <3>1. labels'[usage[i]] = IF usage[i] = f THEN c ELSE labels[usage[i]]
      BY <1>1, <2>3
    <3>2. c > i
      BY <1>1
    <3>3. QED BY <1>1, <3>1, <3>2
  <2>6. QED BY <1>5, <2>1, <2>5
<1>6. CASE Current.op \notin {"IF", "ELSE", "ENDIF"}
  <2>1. UNCHANGED << labels, usage >>
    BY <1>6 DEF Labels
  <2>2. QED BY <1>1, <1>6, <2>1 DEF c
<1>7. QED BY <1>3, <1>4, <1>5, <1>6

LEMMA GenerateForward == Inv /\ Forward /\ Generate => Forward'
<1> SUFFICES ASSUME Inv, Forward, Generate PROVE Forward'
  OBVIOUS
<1> DEFINE c == Len(code)
           g == Len(Generated)
<1>1. /\ pass = "generate" /\ pass' = pass /\ at \in 1 .. Len(program)
      /\ code' = code \o Generated /\ NeedInner(NeedsInner) /\ Labels
  BY ProgramFacts DEF Generate, Inv, Types
<1>2. Types /\ Frames /\ Marked
  BY <1>1 DEF Inv, Forward
<1>3. Generated \in Seq(Insts(next_free')) /\ code \in Seq(Insts(next_free)) /\ c \in Nat /\ g \in Nat
      /\ DOMAIN Generated = 1 .. g /\ DOMAIN code = 1 .. c
  BY <1>1, <1>2, GeneratedTyped, LenProperties DEF Types
<1>4. /\ Len(code') = c + g /\ DOMAIN code' = 1 .. c + g
      /\ \A k \in 1 .. c + g : code'[k] = IF k <= c THEN code[k] ELSE Generated[k - c]
  <2> DEFINE S == Insts(next_free) \union Insts(next_free')
  <2> HIDE DEF S
  <2>1. code \in Seq(S) /\ Generated \in Seq(S)
    BY <1>3 DEF S
  <2>2. QED BY <1>1, <1>3, <2>1, ConcatProperties
<1>5. /\ \A k \in 1 .. g : Branches(Generated[k]) => k = 1 /\ Current.op \in {"IF", "ELSE"}
      /\ Current.op \in {"IF", "ELSE"} => g > 0
  BY <1>1, <1>2, <1>3, GeneratedBranches
<1>6. /\ \A i \in DOMAIN usage' :
           /\ i \in DOMAIN usage \/ (i = c /\ Current.op \in {"IF", "ELSE"})
           /\ labels'[usage'[i]] = None \/ labels'[usage'[i]] > i
      /\ DOMAIN usage \subseteq DOMAIN usage'
      /\ Current.op \in {"IF", "ELSE"} => c \in DOMAIN usage'
  BY <1>1, <1>2, LabelsForward
<1>7. /\ \A k \in 1 .. c : Branches(code[k]) => k - 1 \in DOMAIN usage
      /\ \A i \in DOMAIN usage : i \in Nat /\ i < c
  BY <1>2, <1>3 DEF Marked
<1> HIDE DEF c, g
<1>8. ASSUME NEW k \in DOMAIN code', Branches(code'[k]) PROVE k - 1 \in DOMAIN usage'
  <2>1. k \in 1 .. c + g
    BY <1>4
  <2>2. CASE k <= c
    BY <1>3, <1>4, <1>6, <1>7, <1>8, <2>1, <2>2
  <2>3. CASE k > c
    <3>1. code'[k] = Generated[k - c] /\ k - c \in 1 .. g
      BY <1>3, <1>4, <2>1, <2>3
    <3>2. k - c = 1 /\ Current.op \in {"IF", "ELSE"}
      BY <1>5, <1>8, <3>1
    <3>3. k - 1 = c
      BY <1>3, <2>1, <3>2
    <3>4. QED BY <1>6, <3>2, <3>3
  <2>4. QED BY <1>3, <2>1, <2>2, <2>3
<1>9. ASSUME NEW i \in DOMAIN usage' PROVE i \in Nat /\ i < Len(code')
  BY <1>3, <1>4, <1>5, <1>6, <1>7, <1>9
<1>10. Marked'
  <2>1. \A k \in DOMAIN code' : Branches(code[k])' => k - 1 \in DOMAIN usage'
    BY <1>8 DEF Branches
  <2>2. QED BY <1>6, <1>9, <2>1 DEF Marked
<1>11. QED BY <1>1, <1>10 DEF Forward, BranchesForward

\* What follows the code generated from the shader has no branches.
LEMMA TailPlain ==
  /\ \A k \in DOMAIN ZDiv : ~Branches(ZDiv[k])
  /\ \A insts : \A k \in DOMAIN Nop(insts) : ~Branches(Nop(insts)[k])
<1> DEFINE pos == {r \in ToSet(Outputs) : ZDivided(r)}
           o == CHOOSE r \in pos : TRUE
           t == IF Uses(o) = {} THEN 0 ELSE native[o]
           a == Inst("ADD", t, << Temp(t), Temp(t) >>)
           b == Inst("MUL", t, << Temp(t), Imm("0.5") >>)
           c == Inst("NOP", None, << >>)
<1>1. ZDiv = << >> \/ ZDiv = << a, b >>
  BY DEF ZDiv
<1>2. \A insts : Nop(insts) = << >> \/ Nop(insts) = << c >>
  BY DEF Nop
<1>3. a.op = "ADD" /\ b.op = "MUL" /\ c.op = "NOP"
  BY DEF Inst
<1> HIDE DEF a, b, c
<1>4. ~Branches(a) /\ ~Branches(b) /\ ~Branches(c)
  BY <1>3 DEF Branches
<1>5. \A k \in DOMAIN ZDiv : ~Branches(ZDiv[k])
  BY <1>1, <1>4
<1>6. ASSUME NEW insts, NEW k \in DOMAIN Nop(insts) PROVE ~Branches(Nop(insts)[k])
  BY <1>2, <1>4
<1>7. QED BY <1>5, <1>6

LEMMA FinishForward == Inv /\ Inv' /\ Forward /\ Finish => Forward'
<1> SUFFICES ASSUME Inv, Inv', Forward, Finish PROVE Forward'
  OBVIOUS
<1> DEFINE c == Len(code)
           z == Len(ZDiv)
           insts == code \o ZDiv
           nop == Nop(insts)
           all == insts \o nop
           S == Insts(next_free)
<1>1. /\ pass = "generate" /\ pass' \in {"done", "rejected"} /\ code' = FilledIn(all)
      /\ UNCHANGED << usage, labels, frames >>
  BY DEF Finish
<1>2. Types /\ Frames /\ Marked
  BY <1>1 DEF Inv, Forward
<1>3. /\ code \in Seq(S) /\ ZDiv \in Seq(S) /\ next_free \in Nat
      /\ c \in Nat /\ z \in Nat /\ DOMAIN code = 1 .. c /\ DOMAIN ZDiv = 1 .. z
  BY <1>2, ZDivTyped, LenProperties DEF Types
<1>4. nop \in Seq(S)
  BY <1>3, NopTyped
<1>5. \A k \in DOMAIN nop : ~Branches(nop[k])
  BY TailPlain
<1> HIDE DEF S, nop
<1>6. /\ insts \in Seq(S) /\ Len(insts) = c + z
      /\ \A k \in 1 .. c + z : insts[k] = IF k <= c THEN code[k] ELSE ZDiv[k - c]
  BY <1>3, ConcatProperties
<1> DEFINE m == Len(nop)
<1> HIDE DEF insts, c, z
<1>7. m \in Nat /\ DOMAIN nop = 1 .. m
  BY <1>4, LenProperties
<1>8. /\ all \in Seq(S) /\ Len(all) = Len(insts) + m
      /\ \A k \in 1 .. Len(insts) + m : all[k] = IF k <= Len(insts) THEN insts[k] ELSE nop[k - Len(insts)]
  BY <1>4, <1>6, ConcatProperties
<1> HIDE DEF m, all
<1>9. /\ Len(all) = c + z + m /\ DOMAIN all = 1 .. c + z + m
      /\ \A k \in 1 .. c : all[k] = code[k]
  <2>1. Len(all) = c + z + m /\ \A k \in 1 .. c : all[k] = code[k]
    BY <1>3, <1>6, <1>7, <1>8
  <2>2. DOMAIN all = 1 .. Len(all)
    BY <1>8, LenProperties
  <2>3. QED BY <2>1, <2>2
<1>10. \A k \in DOMAIN all : Branches(all[k]) => k \in 1 .. c
  <2> SUFFICES ASSUME NEW k \in 1 .. c + z + m, k > c PROVE ~Branches(all[k])
    BY <1>3, <1>7, <1>9
  <2>1. CASE k <= c + z
    <3>1. all[k] = ZDiv[k - c] /\ k - c \in DOMAIN ZDiv
      BY <1>3, <1>6, <1>7, <1>8, <2>1
    <3>2. QED BY <3>1, TailPlain
  <2>2. CASE k > c + z
    <3>1. all[k] = nop[k - (c + z)] /\ k - (c + z) \in DOMAIN nop
      BY <1>3, <1>6, <1>7, <1>8, <2>2
    <3>2. QED BY <1>5, <3>1
  <2>3. QED BY <1>3, <1>7, <2>1, <2>2
<1>11. /\ DOMAIN code' = DOMAIN all /\ Len(code') = Len(all)
       /\ \A k \in DOMAIN all :
            code'[k] = IF k - 1 \in DOMAIN usage THEN [all[k] EXCEPT !.target = labels[usage[k - 1]]] ELSE all[k]
  <2>1. Len(FilledIn(all)) = Len(all)
    BY <1>2, <1>3, <1>8, FilledInTyped DEF S
  <2>2. QED BY <1>1, <2>1 DEF FilledIn
<1>12. \A i \in DOMAIN usage : usage[i] \in DOMAIN labels /\ labels[usage[i]] # None /\ labels[usage[i]] \in None .. c
  <2>1. usage \in [DOMAIN usage -> 1 .. Len(labels)] /\ labels \in Seq(None .. c)
    BY <1>2 DEF Frames, c
  <2>2. DOMAIN labels = 1 .. Len(labels) /\ \A l \in DOMAIN labels : labels[l] \in None .. c
    <3> DEFINE T == None .. c
    <3> HIDE DEF T
    <3>1. labels \in Seq(T)
      BY <2>1 DEF T
    <3>2. DOMAIN labels = 1 .. Len(labels) /\ \A l \in DOMAIN labels : labels[l] \in T
      BY <3>1, LenProperties
    <3>3. QED BY <3>2 DEF T
  <2>3. frames' = << >> /\ Blocks'
    BY <1>1 DEF Inv, Frames
  <2>4. \A l \in DOMAIN labels : labels[l] # None
    BY <1>1, <2>3 DEF Blocks
  <2>5. QED BY <2>1, <2>2, <2>4
<1>13. ASSUME NEW k \in DOMAIN code', Branches(code'[k])
       PROVE  code'[k].target \in k .. Len(code')
  <2>1. k \in DOMAIN all /\ all[k] \in Drafts(next_free)
    BY <1>8, <1>11, <1>13, LenProperties DEF S, Insts
  <2>2. code'[k].op = all[k].op /\ code'[k].src = all[k].src
    BY <1>11, <2>1 DEF Drafts
  <2>3. Branches(all[k])
    BY <1>13, <2>2 DEF Branches
  <2>4. k \in 1 .. c /\ Branches(code[k])
    BY <1>9, <1>10, <2>1, <2>3
  <2>5. k - 1 \in DOMAIN usage
    BY <1>2, <1>3, <2>4 DEF Marked
  <2>6. code'[k].target = labels[usage[k - 1]]
    BY <1>11, <2>1, <2>5 DEF Drafts
  <2>7. labels[usage[k - 1]] > k - 1
    BY <1>2, <1>12, <2>5 DEF Marked
  <2>8. QED BY <1>3, <1>7, <1>9, <1>11, <1>12, <2>4, <2>5, <2>6, <2>7 DEF None
<1>14. BranchesForward'
  BY <1>13 DEF BranchesForward, Branches
<1>15. QED BY <1>1, <1>14 DEF Forward

LEMMA InitForward == Init => Forward
BY DEF Init, Forward, BranchesForward

LEMMA NextForward == Inv /\ Inv' /\ Forward /\ [Next]_vars => Forward'
<1> SUFFICES ASSUME Inv, Inv', Forward, [Next]_vars PROVE Forward'
  OBVIOUS
<1>1. ASSUME UNCHANGED << code, usage >>, pass \notin {"generate", "done", "rejected"},
             pass' \notin {"done", "rejected"}
      PROVE  Forward'
  BY <1>1 DEF Forward, Marked, BranchesForward
<1>2. CASE AssignTemporaries
  BY <1>1, <1>2 DEF AssignTemporaries, output
<1>3. CASE OptimizeOutputs
  <2>1. pass = "optimize" /\ UNCHANGED << pass, code, usage >>
    BY <1>3 DEF OptimizeOutputs, Optimize, output
  <2>2. QED BY <1>1, <2>1
<1>4. CASE EndOptimize
  BY <1>1, <1>4 DEF EndOptimize, output
<1>5. CASE AssignInouts
  <2>1. pass \in {"inputs", "outputs"} /\ UNCHANGED << pass, code, usage >>
    BY <1>5 DEF AssignInouts, output
  <2>2. QED BY <1>1, <2>1
<1>6. CASE EndInputs
  BY <1>1, <1>6 DEF EndInputs, output
<1>7. CASE EndOutputs
  <2>1. pass = "outputs" /\ pass' \in {"permute", "generate"} /\ UNCHANGED << code, usage >>
    BY <1>7 DEF EndOutputs, output
  <2>2. QED BY <1>1, <2>1
<1>8. CASE PermuteInputs
  <2>1. pass = "permute" /\ UNCHANGED << pass, code, usage >>
    BY <1>8 DEF PermuteInputs, output
  <2>2. QED BY <1>1, <2>1
<1>9. CASE EndPermute
  BY <1>1, <1>9 DEF EndPermute, output
<1>10. CASE UNCHANGED vars
  <2>1. UNCHANGED << pass, code, usage, labels >>
    BY <1>10 DEF vars
  <2>2. BranchesForward' /\ (Marked => Marked')
    BY <2>1 DEF Forward, Marked, BranchesForward, Branches
  <2>3. QED BY <2>1, <2>2 DEF Forward
<1>11. QED BY <1>2, <1>3, <1>4, <1>5, <1>6, <1>7, <1>8, <1>9, <1>10, GenerateForward, FinishForward
           DEF Next, Assign, Permute

LEMMA ForwardCorrect == Spec => []Forward
<1>1. QED BY InitForward, NextForward, InvCorrect, PTL DEF Spec

-----------------------------------------------------------------------------
(* Theorems. *)

LEMMA InvTypeOK == Inv => TypeOK
<1> SUFFICES ASSUME Inv PROVE TypeOK
  OBVIOUS
<1> DEFINE n == next_free
<1>1. Types /\ Frames
  BY DEF Inv
<1>2. n \in Nat /\ code \in Seq(Insts(n)) /\ native \in [Registers -> Numbers(n)] /\ inner \in Numbers(n)
  BY <1>1 DEF Types
<1>3. at \in 1 .. Len(program) + Len(Inputs) + 1
  BY <1>1, ProgramFacts, FileFacts DEF Types
<1>4. \A r \in Registers : native[r] \in None .. n - 1
  BY <1>2 DEF Numbers
<1>5. code \in [1 .. Len(code) -> Insts(n)] /\ DOMAIN code = 1 .. Len(code)
  BY <1>2, LenProperties
<1> HIDE DEF n
<1>6. ASSUME NEW i \in DOMAIN code
      PROVE  /\ code[i].dst \in Usable(n)
             /\ \A k \in DOMAIN code[i].src : code[i].src[k].uniform \/ code[i].src[k].reg \in Usable(n)
  <2> DEFINE src == code[i].src
  <2>1. code[i].dst \in Usable(n) /\ src \in Seq(Opnds(n))
    BY <1>5 DEF Insts, Drafts
  <2> HIDE DEF src
  <2>3. src \in [1 .. Len(src) -> Opnds(n)] /\ DOMAIN src = 1 .. Len(src)
    BY <2>1, LenProperties
  <2>4. ASSUME NEW k \in DOMAIN src PROVE src[k].uniform \/ src[k].reg \in Usable(n)
    <3>1. src[k] \in Opnds(n)
      BY <2>3
    <3>2. QED BY <3>1 DEF Opnds
  <2>5. QED BY <2>1, <2>4 DEF src
<1>7. \A i \in DOMAIN labels : labels[i] \in None .. Len(code)
  <2> DEFINE S == None .. Len(code)
  <2>1. labels \in Seq(S)
    BY <1>1 DEF Frames
  <2> HIDE DEF S
  <2>2. \A i \in DOMAIN labels : labels[i] \in S
    BY <2>1, LenProperties
  <2>3. QED BY <2>2 DEF S
<1>8. pass = "done" => /\ frames = << >> /\ None \notin ToSet(labels)
                       /\ WithinLimits(code)
  <2>1. pass = "done" => frames = << >> /\ DOMAIN frames = {}
    BY <1>1 DEF Frames
  <2>2. pass = "done" => None \notin ToSet(labels)
    BY <1>1, <2>1 DEF Frames, Blocks, ToSet
  <2>3. QED BY <1>1, <2>1, <2>2 DEF Frames, n
<1>9. /\ processor \in Processors /\ pass \in Passes
      /\ inout_rest \subseteq Registers /\ temp_rest \subseteq Active(Temps)
      /\ kept \subseteq ToSet(Temps) /\ dead \subseteq DOMAIN program
  BY <1>1 DEF Types
<1>10. inner \in None .. n - 1
  BY <1>2 DEF Numbers
<1>12. \A t : t \in Usable(n) => Allocated(t)
  BY DEF Usable, Allocated, n
<1>11. QED BY <1>3, <1>4, <1>6, <1>7, <1>8, <1>9, <1>10, <1>12 DEF TypeOK, Passes, n

\* Every register that is assigned or emitted was allocated, every branch has its
\* target and every block was left, and what is accepted keeps to the limits of
\* the hardware (alloc_new_native_reg, emit_inst, label_place,
\* etna_compile_check_limits).
THEOREM TypeCorrect == Spec => []TypeOK
<1>1. QED BY InvCorrect, InvTypeOK, PTL

\* emit_inst leaves no instruction that reads two uniforms, whatever it is given,
\* with every immediate the compiler adds itself.
THEOREM UniformsApart == Spec => []OneUniform
<1>1. Inv => OneUniform
  <2> SUFFICES ASSUME Inv PROVE OneUniform
    OBVIOUS
  <2>1. code \in [1 .. Len(code) -> Insts(next_free)] /\ DOMAIN code = 1 .. Len(code)
    BY LenProperties DEF Inv, Types
  <2>2. \A i \in DOMAIN code : Clashes(code[i]) = {}
    BY <2>1 DEF Insts
  <2>3. QED BY <2>2 DEF OneUniform
<1>2. QED BY <1>1, InvCorrect, PTL

\* However inputs share temporaries with outputs and TGSI temporaries,
\* permute_ps_inputs leaves each in the register the hardware writes it to, t0 to
\* POSITION alone, and no two inputs in one.
THEOREM InputsPlaced == Spec => []InputsInOrder
<1>1. Inv => InputsInOrder
  <2> SUFFICES ASSUME Inv, pass \in {"done", "rejected"} PROVE InputsInOrder
    BY DEF InputsInOrder
  <2>1. /\ Active(Temps) \subseteq Registers /\ Active(Outputs) \subseteq Registers
        /\ Active(Inputs) \subseteq Registers
    BY FileFacts
  <2>2. processor = "fragment" =>
          /\ \A i \in DOMAIN Inputs : Varying(i) => native[Inputs[i]] = NativeIdx(i)
          /\ \A r \in Active(Temps) \union Active(Outputs) : native[r] = 0 => Fixed(r)
    BY <2>1 DEF Inv, Places
  <2>3. \A r, s \in Active(Inputs) : native[r] = native[s] => r = s
    BY DEF Inv, Apart
  <2>4. QED BY <2>2, <2>3 DEF InputsInOrder
<1>2. QED BY <1>1, InvCorrect, PTL

\* With the inputs in their places, registers that share a temporary never need it at
\* the same time: what the dropped moves, the two walks of
\* assign_inouts_to_temporaries and the permutation share, taken together.
THEOREM RegistersApart == Spec => []RegistersPlaced
<1>1. Spec => []SharedAfterUse
  BY InvCorrect, SharingCorrect, SharingSound, PTL
<1>2. InputsInOrder /\ SharedAfterUse => RegistersPlaced
  BY DEF RegistersPlaced
<1>3. QED BY <1>1, <1>2, InputsPlaced, PTL

\* The labels of IF and ELSE (label_mark_use, label_place, fill_in_labels) send every
\* branch forward to an instruction or to the end of the code, however many moves
\* emit_inst puts before instructions; and none reads two uniforms.
THEOREM CodeFormed == Spec => []CodeWellFormed
<1>1. Spec => []BranchesForward
  <2>1. Forward => BranchesForward
    BY DEF Forward
  <2>2. QED BY <2>1, ForwardCorrect, PTL
<1>2. OneUniform /\ BranchesForward => CodeWellFormed
  BY DEF CodeWellFormed
<1>3. QED BY <1>1, <1>2, UniformsApart, PTL
=============================================================================
