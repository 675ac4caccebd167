------------------------ MODULE FlightRecorderProofs ------------------------
(***************************************************************************)
(* Proofs about FlightRecorder for memory of any size, any contents, any   *)
(* granularity and any mappings.  What the file holds is proved for any    *)
(* program; that the reader shows memory, for programs that neither add a  *)
(* range again nor write to memory while an event is logged.               *)
(***************************************************************************)
EXTENDS FlightRecorder, TLAPS

LEMMA RangeFacts ==
  ASSUME NEW r \in Ranges
  PROVE  r.start \in Nat /\ r.end \in Nat /\ r.start < r.end
  BY AddressAssumption DEF Ranges, Addresses

-----------------------------------------------------------------------------
(* Blocks.  They start at multiples of the granularity from the start of   *)
(* the range.                                                              *)

LEMMA AlignedIsMultiple ==
  ASSUME NEW G \in Nat \ {0}, NEW x \in Nat, x % G = 0
  PROVE  \E k \in Nat : x = k * G
<1>1. x = G * (x \div G) + (x % G) /\ x \div G \in Nat
  BY Z3
<1>2. QED BY <1>1

LEMMA MultipleIsAligned ==
  ASSUME NEW G \in Nat \ {0}, NEW k \in Nat
  PROVE  (k * G) % G = 0
  BY Z3

LEMMA MultiplesApart ==
  ASSUME NEW G \in Nat \ {0}, NEW k \in Nat, NEW j \in Nat, k < j
  PROVE  k * G + G <= j * G
<1>1. PICK d \in Nat : j = k + 1 + d
  <2>1. j - k - 1 \in Nat /\ j = k + 1 + (j - k - 1)
    OBVIOUS
  <2>2. QED BY <2>1
<1>2. j * G = k * G + G + d * G
  BY <1>1
<1>3. d * G \in Nat
  OBVIOUS
<1>4. QED BY <1>2, <1>3

\* One block starts in the length of a block.
LEMMA OneAligned ==
  ASSUME NEW G \in Nat \ {0}, NEW x \in Nat, NEW y \in Nat,
         x % G = 0, y % G = 0, x <= y, y < x + G
  PROVE  x = y
<1>1. PICK k \in Nat, j \in Nat : x = k * G /\ y = j * G
  BY AlignedIsMultiple
<1>2. ~(k < j)
  <2>1. k * G \in Nat /\ j * G \in Nat
    BY <1>1
  <2>2. QED BY <1>1, <2>1, MultiplesApart
<1>3. ~(j < k)
  <2>1. k * G \in Nat /\ j * G \in Nat
    BY <1>1
  <2>2. QED BY <1>1, <2>1, MultiplesApart
<1>4. QED BY <1>1, <1>2, <1>3

LEMMA NextAligned ==
  ASSUME NEW G \in Nat \ {0}, NEW x \in Nat, x % G = 0
  PROVE  (x + G) % G = 0
<1>1. PICK k \in Nat : x = k * G
  BY AlignedIsMultiple
<1>2. x + G = (k + 1) * G /\ k + 1 \in Nat
  BY <1>1
<1>3. QED BY <1>2, MultipleIsAligned

-----------------------------------------------------------------------------
(* Differences, whatever programs do. *)

\* Where log_event is; it holds whatever programs do.
Placed ==
  /\ persistent \subseteq Ranges /\ oneshot \subseteq Ranges /\ todo \subseteq persistent
  /\ stage \in {"idle", "check", "diff", "copy", "event"}
  /\ stage \in {"idle", "event"} => todo = {}
  /\ stage \in {"diff", "copy"} => range \in todo
  /\ stage # "diff" => mismatch = {}
  /\ readable \in BOOLEAN

\* A difference goes from the start of a block to the last block that was compared, and
\* every block in it has a byte that changed.
Differences ==
  stage = "diff" =>
    /\ ptr \in Nat /\ range.start <= ptr /\ (ptr - range.start) % Granularity = 0
    /\ \A m \in mismatch :
         /\ m = Range(m.start, m.end) /\ m.start \in Nat
         /\ range.start <= m.start /\ m.start < m.end
         /\ m.end = (IF ptr <= range.end THEN ptr ELSE range.end)
    /\ \A m, n \in mismatch : m = n
    /\ ChangesOnly

LEMMA PlacedInit == Init => Placed /\ Differences
  BY DEF Init, Placed, Differences

LEMMA PlacedKept ==
  ASSUME Placed, [Next]_vars
  PROVE  Placed'
<1>1. ASSUME NEW a \in Addresses, NEW v \in Values, Change(a, v) PROVE Placed'
  BY <1>1 DEF Placed, Change, recorderVars, readerVars
<1>2. ASSUME NEW r \in Mappings, AddRange(r) PROVE Placed'
  BY <1>2, MappingAssumption DEF Placed, AddRange
<1>3. ASSUME NEW r \in Mappings, RemoveRange(r) PROVE Placed'
  BY <1>3 DEF Placed, RemoveRange
<1>4. ASSUME NEW s \in OneShots, LogEvent(s) PROVE Placed'
  BY <1>4, MappingAssumption DEF Placed, LogEvent, readerVars
<1>5. ASSUME NEW r \in todo, CheckNew(r) \/ CheckOther(r) \/ CheckKnown(r) PROVE Placed'
  BY <1>5 DEF Placed, CheckNew, CheckOther, CheckKnown, WriteRange, readerVars
<1>6. CASE Extend \/ EndDifference \/ EndDiff
  BY <1>6 DEF Placed, Extend, EndDifference, EndDiff, WriteMismatch, WriteRange, readerVars
<1>7. CASE CopyRange \/ WriteEvent \/ EndEvent
  BY <1>7 DEF Placed, CopyRange, WriteEvent, EndEvent, readerVars
<1>8. CASE UNCHANGED vars
  BY <1>8 DEF Placed, vars, recorderVars, readerVars
<1>9. QED BY <1>1, <1>2, <1>3, <1>4, <1>5, <1>6, <1>7, <1>8 DEF Next

LEMMA ChangesExtended ==
  ASSUME Placed, Differences, Extend
  PROVE  Differences'
<1>1. /\ stage = "diff" /\ stage' = "diff" /\ ptr < range.end /\ ptr' = ptr + Granularity /\ Differs
      /\ UNCHANGED << mem, stored, range, quiet >>
  BY DEF Extend
<1>2. /\ range.start \in Nat /\ range.end \in Nat /\ ptr \in Nat /\ range.start <= ptr
      /\ Granularity \in Nat \ {0} /\ (ptr - range.start) % Granularity = 0
  BY <1>1, RangeFacts, AddressAssumption DEF Placed, Differences
<1>3. /\ BlockEnd \in Nat /\ ptr < BlockEnd /\ BlockEnd <= range.end /\ BlockEnd <= ptr + Granularity
      /\ BlockEnd = (IF ptr' <= range.end THEN ptr' ELSE range.end)
  BY <1>1, <1>2 DEF BlockEnd
<1>4. Block = Range(ptr, BlockEnd) /\ Block.start = ptr /\ Block.end = BlockEnd
      /\ Bytes(Block) = ptr .. BlockEnd - 1
  BY DEF Block, Range, Bytes
<1>5. (ptr' - range.start) % Granularity = 0
  <2>1. ptr - range.start \in Nat /\ (ptr + Granularity) - range.start = (ptr - range.start) + Granularity
    BY <1>2
  <2>2. ((ptr + Granularity) - range.start) % Granularity = 0
    BY <1>2, <2>1, NextAligned
  <2>3. QED BY <1>1, <2>2
<1>6. PICK b \in Bytes(Block) : stored[range][b] # mem[b]
  BY <1>1 DEF Differs
<1>7. /\ \A p \in Bytes(Block) : p \in Nat /\ ptr <= p /\ p < ptr + Granularity
      /\ ptr <= b /\ b < ptr + Granularity /\ b \in Nat /\ b <= BlockEnd - 1
  <2>1. ptr \in Nat /\ Granularity \in Nat /\ BlockEnd \in Nat /\ BlockEnd <= ptr + Granularity
    BY <1>2, <1>3
  <2>2. \A p \in ptr .. BlockEnd - 1 : p \in Nat /\ ptr <= p /\ p <= BlockEnd - 1 /\ p < ptr + Granularity
    BY <2>1
  <2>3. b \in ptr .. BlockEnd - 1
    BY <1>4, <1>6
  <2>4. QED BY <1>4, <2>2, <2>3
<1>8. CASE mismatch = {}
  <2>1. mismatch' = {Block}
    BY <1>8 DEF Extend
  <2>2. ASSUME NEW p \in Bytes(Block), (p - range.start) % Granularity = 0
        PROVE  p <= b /\ b < p + Granularity
    <3>1. p \in Nat /\ ptr <= p /\ p < ptr + Granularity
      BY <1>7, <2>2
    <3>2. ptr - range.start = p - range.start
      <4> DEFINE x == ptr - range.start
                 y == p - range.start
      <4>1. x \in Nat /\ y \in Nat /\ x <= y /\ y < x + Granularity
        BY <1>2, <3>1
      <4>2. x % Granularity = 0 /\ y % Granularity = 0
        BY <1>2, <2>2
      <4> HIDE DEF x, y
      <4>3. x = y
        BY <1>2, <4>1, <4>2, OneAligned
      <4>4. QED BY <4>3 DEF x, y
    <3>3. QED BY <1>2, <1>7, <3>1, <3>2
  <2>3. ChangesOnly'
    BY <1>1, <1>6, <2>1, <2>2 DEF ChangesOnly, Bytes
  <2>4. ptr' \in Nat /\ range.start <= ptr'
    BY <1>1, <1>2
  <2>5. Block = Range(Block.start, Block.end) /\ Block.start \in Nat /\ range.start <= Block.start
        /\ Block.start < Block.end /\ Block.end = (IF ptr' <= range.end THEN ptr' ELSE range.end)
    BY <1>2, <1>3, <1>4
  <2>6. QED
    <3> HIDE DEF ChangesOnly
    <3>1. QED BY <1>1, <1>5, <2>1, <2>3, <2>4, <2>5 DEF Differences
<1>9. ASSUME NEW m \in mismatch
      PROVE  Differences'
  <2>1. /\ mismatch = {m} /\ m = Range(m.start, m.end) /\ m.start \in Nat /\ range.start <= m.start
        /\ m.start < m.end /\ m.end = ptr
    BY <1>1, <1>2, <1>9 DEF Differences
  <2> DEFINE n == Range(m.start, BlockEnd)
  <2>2. mismatch' = {n} /\ n.start = m.start /\ n.end = BlockEnd /\ Bytes(n) = m.start .. BlockEnd - 1
        /\ Bytes(m) = m.start .. ptr - 1
    BY <2>1 DEF Extend, Range, Bytes
  <2> HIDE DEF n
  <2>3. ASSUME quiet, NEW p \in Bytes(n), (p - range.start) % Granularity = 0
        PROVE  \E a \in Bytes(n) : p <= a /\ a < p + Granularity /\ stored[range][a] # mem[a]
    <3>1. CASE p < ptr
      <4>1. p \in Bytes(m)
        BY <1>2, <1>3, <2>1, <2>2, <3>1
      <4>2. PICK a \in Bytes(m) : p <= a /\ a < p + Granularity /\ stored[range][a] # mem[a]
        BY <1>1, <2>3, <4>1 DEF Differences, ChangesOnly
      <4>3. a \in Bytes(n)
        BY <1>2, <1>3, <2>1, <2>2
      <4>4. QED BY <4>2, <4>3
    <3>2. CASE ptr <= p
      <4>1. p \in Nat /\ p < ptr + Granularity
        BY SMTT(30), <1>2, <1>3, <2>1, <2>2, <3>2
      <4> DEFINE x == ptr - range.start
                 y == p - range.start
      <4>2. x \in Nat /\ y \in Nat /\ x <= y /\ y < x + Granularity
        BY <1>2, <3>2, <4>1
      <4>3. x % Granularity = 0 /\ y % Granularity = 0
        BY <1>2, <2>3
      <4> HIDE DEF x, y
      <4>4. x = y
        BY <1>2, <4>2, <4>3, OneAligned
      <4>5. p = ptr
        BY <1>2, <4>1, <4>4 DEF x, y
      <4>6. b \in Bytes(n)
        <5>1. m.start <= b
          BY <1>2, <1>7, <2>1
        <5>2. BlockEnd \in Nat /\ m.start \in Nat
          BY <1>3, <2>1
        <5>3. b \in m.start .. BlockEnd - 1
          BY <1>7, <5>1, <5>2
        <5>4. QED BY <2>2, <5>3
      <4>7. QED BY <1>6, <1>7, <4>5, <4>6
    <3>3. QED BY <1>2, <1>3, <2>1, <2>2, <3>1, <3>2
  <2>4. ChangesOnly'
    BY <1>1, <2>2, <2>3 DEF ChangesOnly, Bytes
  <2>5. ptr' \in Nat /\ range.start <= ptr'
    BY <1>1, <1>2
  <2>6. n = Range(n.start, n.end) /\ n.start \in Nat /\ range.start <= n.start
        /\ n.start < n.end /\ n.end = (IF ptr' <= range.end THEN ptr' ELSE range.end)
    BY <1>2, <1>3, <2>1, <2>2 DEF n
  <2>7. QED BY <1>1, <1>5, <2>2, <2>4, <2>5, <2>6 DEF Differences
<1>10. QED BY <1>8, <1>9

LEMMA DifferencesKept ==
  ASSUME Placed, Differences, [Next]_vars
  PROVE  Differences'
<1>1. ASSUME NEW a \in Addresses, NEW v \in Values, Change(a, v) PROVE Differences'
  BY <1>1 DEF Differences, ChangesOnly, Change, recorderVars
<1>2. ASSUME NEW r \in todo, CheckKnown(r) PROVE Differences'
  <2>1. r.start \in Nat /\ r.start <= r.start /\ (r.start - r.start) % Granularity = 0
    BY RangeFacts, AddressAssumption, MultipleIsAligned DEF Placed
  <2>2. QED BY <1>2, <2>1 DEF CheckKnown, Differences, ChangesOnly
<1>3. CASE EndDifference
  <2>1. /\ range.start \in Nat /\ ptr \in Nat /\ range.start <= ptr
        /\ Granularity \in Nat \ {0} /\ (ptr - range.start) % Granularity = 0
    BY <1>3, RangeFacts, AddressAssumption DEF EndDifference, Placed, Differences
  <2>2. ptr - range.start \in Nat /\ (ptr + Granularity) - range.start = (ptr - range.start) + Granularity
    BY <2>1
  <2>3. ((ptr + Granularity) - range.start) % Granularity = 0
    BY <2>1, <2>2, NextAligned
  <2>4. ptr + Granularity \in Nat /\ range.start <= ptr + Granularity
    BY <2>1
  <2>5. QED BY <1>3, <2>3, <2>4 DEF EndDifference, Differences, ChangesOnly
<1>4. CASE UNCHANGED << mem, stored, stage, range, ptr, mismatch, quiet >>
  BY <1>4 DEF Differences, ChangesOnly, Bytes
<1>5. CASE stage' # "diff"
  BY <1>5 DEF Differences
<1>6. QED BY <1>1, <1>2, <1>3, <1>4, <1>5, ChangesExtended
  DEF Next, vars, recorderVars, AddRange, RemoveRange, LogEvent, CheckNew, CheckOther, EndDiff,
      CopyRange, WriteEvent, EndEvent

\* Only changes are written, whatever programs do: a block that is equal is in no
\* difference, for memory, ranges and a granularity of any size.
THEOREM OnlyChanges == Spec => []ChangesOnly
<1>1. Init => Placed /\ Differences
  BY PlacedInit
<1>2. Placed /\ Differences /\ [Next]_vars => (Placed /\ Differences)'
  BY PlacedKept, DifferencesKept
<1>3. Placed /\ Differences => ChangesOnly
  BY DEF Differences, ChangesOnly
<1>4. QED BY <1>1, <1>2, <1>3, PTL DEF Spec

-----------------------------------------------------------------------------
(* The inductive invariant. *)

\* The reader has the monitored ranges, which are disjoint, and the copies are of
\* ranges.
RangesKnown ==
  /\ persistent \subseteq Ranges /\ DOMAIN stored \subseteq Ranges /\ oneshot \subseteq Ranges
  /\ DOMAIN updated = persistent
  /\ \A r \in persistent : DOMAIN updated[r] = Bytes(r)
  /\ \A x, y \in persistent : x = y \/ Disjoint(x, y)
  /\ \A x, y \in oneshot : x = y \/ ~Same(x, y)
  /\ readable = TRUE

\* Where log_event is.
StageKnown ==
  /\ stage \in {"idle", "check", "diff", "copy", "event"}
  /\ todo \subseteq persistent
  /\ stage \in {"idle", "event"} => todo = {}
  /\ stage \in {"diff", "copy"} => range \in todo
  /\ stage = "diff" => range \in DOMAIN stored
  /\ stage # "diff" => mismatch = {}
  /\ DOMAIN temps = (IF stage = "event" THEN oneshot ELSE {})
  /\ \A r \in DOMAIN temps : temps[r] = Data(r)

\* No two copies are of the same range to the order, nor will they be.
CopiesApart ==
  /\ \A x, y \in DOMAIN stored : x = y \/ ~Same(x, y)
  /\ stage = "copy" => range \in DOMAIN stored \/ Matches(DOMAIN stored, range) = {}

\* What the recorder compares with is what the reader knows.
CopiesKnown ==
  \A r \in persistent \intersect DOMAIN stored :
    (stage \in {"diff", "copy"} /\ r = range) \/ stored[r] = updated[r]

\* The ranges that are done have been shown.
DoneShown ==
  /\ stage # "idle" => \A r \in persistent \ todo : updated[r] = Data(r)
  /\ stage = "copy" => updated[range] = Data(range)

\* Of the range being compared the reader knows what is behind ptr, but for the
\* difference found last, and what is ahead of it as the copy has it.
DiffShown ==
  stage = "diff" =>
    /\ ptr \in Nat /\ range.start <= ptr
    /\ \A m \in mismatch : /\ m = Range(m.start, m.end)
                           /\ m.start \in Nat /\ m.end \in Nat
                           /\ range.start <= m.start /\ m.start < m.end
                           /\ m.end <= range.end /\ m.end <= ptr
    /\ \A m, n \in mismatch : m = n
    /\ \A a \in Bytes(range) :
         /\ a >= ptr => updated[range][a] = stored[range][a]
         /\ a < ptr => \/ updated[range][a] = mem[a]
                       \/ \E m \in mismatch : a \in Bytes(m)

IInv == RangesKnown /\ StageKnown /\ CopiesApart /\ CopiesKnown /\ DoneShown /\ DiffShown

-----------------------------------------------------------------------------
(* The reader finds the range. *)

LEMMA LocatedIs ==
  ASSUME RangesKnown, NEW r \in persistent, NEW w,
         w.start \in Nat, w.end \in Nat,
         r.start <= w.start, w.start < w.end, w.end <= r.end
  PROVE  Located(updated, w) = {r}
<1>1. ASSUME NEW y \in persistent, y.start <= w.start, y # r
      PROVE  y.end <= r.start /\ y.start < r.start
  <2>1. Disjoint(y, r) /\ r \in Ranges /\ y \in Ranges
    BY <1>1 DEF RangesKnown
  <2>2. QED BY <1>1, <2>1, RangeFacts DEF Disjoint
<1>2. r \in Located(updated, w)
  <2>1. ASSUME NEW y \in persistent, y.start <= w.start PROVE y.start <= r.start
    <3>1. r.start \in Nat /\ y.start \in Nat
      BY RangeFacts DEF RangesKnown
    <3>2. CASE y = r
      BY <3>1, <3>2
    <3>3. CASE y # r
      BY <2>1, <1>1, <3>1, <3>3
    <3>4. QED BY <3>2, <3>3
  <2>2. QED BY <2>1 DEF Located, RangesKnown
<1>3. ASSUME NEW x \in Located(updated, w), x # r PROVE FALSE
  <2>1. x \in persistent /\ x.start <= w.start /\ w.end <= x.end /\ x.end <= r.start
    BY <1>3, <1>1 DEF Located, RangesKnown
  <2>2. x.end \in Nat /\ r.start \in Nat
    BY <2>1, RangeFacts DEF RangesKnown
  <2>3. QED BY <2>1, <2>2
<1>4. QED BY <1>2, <1>3

\* WriteRange changes the bytes of w in the range that holds it, and nothing else.
LEMMA WriteRangeDoes ==
  ASSUME RangesKnown, NEW r \in persistent, NEW w,
         w.start \in Nat, w.end \in Nat,
         r.start <= w.start, w.start < w.end, w.end <= r.end,
         WriteRange(w)
  PROVE  /\ readable' = TRUE /\ temps' = temps
         /\ DOMAIN updated' = persistent
         /\ \A x \in persistent : DOMAIN updated'[x] = Bytes(x)
         /\ \A x \in persistent \ {r} : updated'[x] = updated[x]
         /\ \A a \in Bytes(r) : updated'[r][a] = IF a \in Bytes(w) THEN mem[a] ELSE updated[r][a]
<1>1. Located(updated, w) = {r}
  BY LocatedIs
<1>2. updated' = [x \in persistent |->
                   IF x = r
                   THEN [a \in Bytes(r) |-> IF a \in Bytes(w) THEN mem[a] ELSE updated[r][a]]
                   ELSE updated[x]]
  BY <1>1 DEF WriteRange, RangesKnown
<1>3. readable' = TRUE /\ temps' = temps
  BY <1>1 DEF WriteRange, RangesKnown
<1>4. QED BY <1>2, <1>3 DEF RangesKnown

-----------------------------------------------------------------------------
(* Every step keeps it. *)

LEMMA InvInit == Init => IInv
  BY DEF Init, IInv, RangesKnown, StageKnown, CopiesApart, CopiesKnown, DoneShown, DiffShown

LEMMA KeptChange ==
  ASSUME Practices = {}, IInv, NEW a, NEW v, Change(a, v)
  PROVE  IInv'
<1>1. stage = "idle" /\ DOMAIN temps = {} /\ todo = {}
  BY DEF Change, IInv, StageKnown
<1>2. UNCHANGED << recorderVars, readerVars >>
  BY DEF Change
<1>3. QED BY <1>1, <1>2 DEF IInv, RangesKnown, StageKnown, CopiesApart, CopiesKnown,
             DoneShown, DiffShown, Matches, recorderVars, readerVars

LEMMA KeptAdd ==
  ASSUME Practices = {}, IInv, NEW r \in Mappings, AddRange(r)
  PROVE  IInv'
<1> DEFINE old == UNCHANGED << mem, stored, stage, oneshot, todo, range, ptr, mismatch, temps, readable >>
<1>1. /\ stage = "idle" /\ DOMAIN temps = {} /\ todo = {} /\ r \notin DOMAIN stored
      /\ persistent' = persistent \union {r} /\ old /\ r \in Ranges
  BY MappingAssumption DEF AddRange, IInv, StageKnown
<1>2. \A x \in persistent : x # r /\ Disjoint(x, r) /\ Disjoint(r, x)
  <2>1. ASSUME NEW x \in persistent PROVE ~Same(x, r) /\ Disjoint(x, r)
    BY DEF AddRange, Matches
  <2>2. Same(r, r)
    BY <1>1, RangeFacts DEF Same, Before
  <2>3. QED BY <2>1, <2>2 DEF Disjoint
<1>3. /\ DOMAIN updated' = persistent'
      /\ \A x \in persistent : updated'[x] = updated[x]
      /\ DOMAIN updated'[r] = Bytes(r)
  BY <1>1, <1>2 DEF AddRange, IInv, RangesKnown
<1>4. RangesKnown'
  BY <1>1, <1>2, <1>3 DEF IInv, RangesKnown, Bytes, Disjoint, Same, Before
<1>5. StageKnown' /\ CopiesApart'
  BY <1>1 DEF IInv, StageKnown, CopiesApart, Data
<1>6. CopiesKnown'
  BY <1>1, <1>3 DEF IInv, CopiesKnown
<1>7. DoneShown' /\ DiffShown'
  BY <1>1 DEF DoneShown, DiffShown
<1>8. QED BY <1>4, <1>5, <1>6, <1>7 DEF IInv

LEMMA KeptRemove ==
  ASSUME IInv, NEW r, RemoveRange(r)
  PROVE  IInv'
<1> DEFINE old == UNCHANGED << mem, stored, stage, oneshot, todo, range, ptr, mismatch, temps >>
<1>1. stage = "idle" /\ DOMAIN temps = {} /\ todo = {} /\ r \in persistent /\ old
  BY DEF RemoveRange, IInv, StageKnown
<1>2. Matches(persistent, r) = {r}
  <2>1. ASSUME NEW x \in persistent, Same(x, r) PROVE x = r
    <3>1. x \in Ranges /\ r \in Ranges /\ (x = r \/ Disjoint(x, r))
      BY <1>1 DEF IInv, RangesKnown
    <3>2. QED BY <2>1, <3>1, RangeFacts DEF Disjoint, Same, Before
  <2>2. Same(r, r)
    BY <1>1, RangeFacts DEF Same, Before, IInv, RangesKnown
  <2>3. QED BY <1>1, <2>1, <2>2 DEF Matches
<1>3. persistent' = persistent \ {r}
  BY <1>2 DEF RemoveRange
<1>4. /\ DOMAIN updated' = persistent'
      /\ \A x \in persistent' : updated'[x] = updated[x]
  BY <1>3 DEF RemoveRange, IInv, RangesKnown
<1>5. readable' = TRUE
  <2>1. r.start \in Nat /\ r.end \in Nat /\ r.start < r.end
    BY <1>1, RangeFacts DEF IInv, RangesKnown
  <2>2. Located(updated, r) = {r}
    BY <1>1, <2>1, LocatedIs DEF IInv
  <2>3. QED BY <2>2 DEF RemoveRange, IInv, RangesKnown
<1>6. RangesKnown'
  BY <1>1, <1>3, <1>4, <1>5 DEF IInv, RangesKnown, Bytes, Disjoint, Same, Before
<1>7. StageKnown' /\ CopiesApart'
  BY <1>1 DEF IInv, StageKnown, CopiesApart, Data
<1>8. CopiesKnown'
  BY <1>1, <1>3, <1>4 DEF IInv, CopiesKnown
<1>9. DoneShown' /\ DiffShown'
  BY <1>1 DEF DoneShown, DiffShown
<1>10. QED BY <1>6, <1>7, <1>8, <1>9 DEF IInv

LEMMA KeptLog ==
  ASSUME IInv, NEW s \in OneShots, LogEvent(s)
  PROVE  IInv'
<1>1. /\ stage = "idle" /\ DOMAIN temps = {} /\ stage' = "check" /\ todo' = persistent
      /\ oneshot' = s /\ s \subseteq Ranges
      /\ UNCHANGED << mem, persistent, stored, range, ptr, mismatch, updated, temps, readable >>
  BY MappingAssumption DEF LogEvent, IInv, StageKnown, readerVars
<1>2. \A x, y \in oneshot' : x = y \/ ~Same(x, y)
  BY <1>1 DEF LogEvent
<1>3. RangesKnown'
  BY <1>1, <1>2 DEF IInv, RangesKnown, Bytes, Disjoint, Same, Before
<1>4. StageKnown' /\ CopiesApart' /\ CopiesKnown' /\ DoneShown' /\ DiffShown'
  BY <1>1 DEF IInv, StageKnown, CopiesApart, CopiesKnown, DoneShown, DiffShown
<1>5. QED BY <1>3, <1>4 DEF IInv

LEMMA KeptEvent == ASSUME IInv, WriteEvent PROVE IInv'
<1>1. /\ stage = "check" /\ todo = {} /\ stage' = "event" /\ temps' = [r \in oneshot |-> Data(r)]
      /\ UNCHANGED << mem, persistent, stored, oneshot, todo, range, ptr, mismatch, updated, readable >>
  BY DEF WriteEvent
<1>2. RangesKnown'
  BY <1>1 DEF IInv, RangesKnown, Bytes, Disjoint, Same, Before
<1>3. StageKnown' /\ CopiesApart' /\ CopiesKnown' /\ DoneShown' /\ DiffShown'
  BY <1>1 DEF IInv, StageKnown, CopiesApart, CopiesKnown, DoneShown, DiffShown, Data
<1>4. QED BY <1>2, <1>3 DEF IInv

LEMMA KeptEnd == ASSUME IInv, EndEvent PROVE IInv'
<1>1. /\ stage = "event" /\ stage' = "idle" /\ DOMAIN temps' = {} /\ oneshot' = {}
      /\ UNCHANGED << mem, persistent, stored, todo, range, ptr, mismatch, updated, readable >>
  BY DEF EndEvent
<1>2. RangesKnown'
  BY <1>1 DEF IInv, RangesKnown, Bytes, Disjoint, Same, Before
<1>3. StageKnown' /\ CopiesApart' /\ CopiesKnown' /\ DoneShown' /\ DiffShown'
  BY <1>1 DEF IInv, StageKnown, CopiesApart, CopiesKnown, DoneShown, DiffShown
<1>4. QED BY <1>2, <1>3 DEF IInv

\* After RANGE_DATA with the memory of a whole range.
LEMMA WholeRange ==
  ASSUME RangesKnown, NEW r \in persistent, WriteRange(r)
  PROVE  /\ readable' = TRUE /\ temps' = temps /\ DOMAIN updated' = persistent
         /\ \A x \in persistent : DOMAIN updated'[x] = Bytes(x)
         /\ \A x \in persistent \ {r} : updated'[x] = updated[x]
         /\ updated'[r] = Data(r)
<1>1. r.start \in Nat /\ r.end \in Nat /\ r.start < r.end
  BY RangeFacts DEF RangesKnown
<1>2. Located(updated, r) = {r}
  BY <1>1, LocatedIs
<1>3. updated' = [x \in persistent |-> IF x = r THEN [a \in Bytes(r) |-> mem[a]] ELSE updated[x]]
  BY <1>2 DEF WriteRange, RangesKnown
<1>4. updated'[r] = Data(r)
  BY <1>3 DEF Data
<1>5. /\ readable' = TRUE /\ temps' = temps /\ DOMAIN updated' = persistent
      /\ \A x \in persistent : DOMAIN updated'[x] = Bytes(x)
      /\ \A x \in persistent \ {r} : updated'[x] = updated[x]
  BY <1>2, <1>3 DEF WriteRange, RangesKnown
<1>6. QED BY <1>4, <1>5

LEMMA KeptNew ==
  ASSUME IInv, NEW r \in todo, CheckNew(r)
  PROVE  IInv'
<1>1. /\ stage = "check" /\ r \in persistent /\ stage' = "copy" /\ range' = r /\ WriteRange(r)
      /\ Matches(DOMAIN stored, r) = {}
      /\ UNCHANGED << mem, persistent, stored, oneshot, todo, ptr, mismatch >>
  BY DEF CheckNew, IInv, StageKnown
<1>2. /\ readable' = TRUE /\ temps' = temps /\ DOMAIN updated' = persistent
      /\ \A x \in persistent : DOMAIN updated'[x] = Bytes(x)
      /\ \A x \in persistent \ {r} : updated'[x] = updated[x]
      /\ updated'[r] = Data(r)
  BY <1>1, WholeRange DEF IInv
<1>3. RangesKnown'
  BY <1>1, <1>2 DEF IInv, RangesKnown, Bytes, Disjoint, Same, Before
<1>4. StageKnown' /\ CopiesApart'
  BY <1>1, <1>2 DEF IInv, StageKnown, CopiesApart, Matches, Data
<1>5. CopiesKnown'
  BY <1>1, <1>2 DEF IInv, CopiesKnown
<1>6. DoneShown' /\ DiffShown'
  <2>1. \A x \in persistent \ todo : updated'[x] = updated[x] /\ updated[x] = [a \in Bytes(x) |-> mem[a]]
    BY <1>1, <1>2 DEF IInv, DoneShown, Data
  <2>2. updated'[r] = [a \in Bytes(r) |-> mem[a]]
    BY <1>2 DEF Data
  <2>3. QED BY <1>1, <2>1, <2>2 DEF DoneShown, DiffShown, Data
<1>7. QED BY <1>3, <1>4, <1>5, <1>6 DEF IInv

LEMMA KeptOther ==
  ASSUME IInv, NEW r \in todo, CheckOther(r)
  PROVE  IInv'
<1>1. /\ stage = "check" /\ r \in persistent /\ stage' = stage /\ WriteRange(r) /\ todo' = todo \ {r}
      /\ UNCHANGED << mem, persistent, stored, oneshot, range, ptr, mismatch >>
  BY DEF CheckOther, IInv, StageKnown
<1>2. /\ readable' = TRUE /\ temps' = temps /\ DOMAIN updated' = persistent
      /\ \A x \in persistent : DOMAIN updated'[x] = Bytes(x)
      /\ \A x \in persistent \ {r} : updated'[x] = updated[x]
      /\ updated'[r] = Data(r)
  BY <1>1, WholeRange DEF IInv
<1>3. r \notin DOMAIN stored
  BY DEF CheckOther, Matches, IInv, CopiesApart
<1>4. RangesKnown'
  BY <1>1, <1>2 DEF IInv, RangesKnown, Bytes, Disjoint, Same, Before
<1>5. StageKnown' /\ CopiesApart'
  BY <1>1, <1>2 DEF IInv, StageKnown, CopiesApart, Matches, Data
<1>6. CopiesKnown'
  BY <1>1, <1>2, <1>3 DEF IInv, CopiesKnown
<1>7. DoneShown' /\ DiffShown'
  <2>1. ASSUME NEW x \in persistent, x \notin todo' PROVE updated'[x] = [a \in Bytes(x) |-> mem[a]]
    <3>1. CASE x = r
      BY <1>2, <3>1 DEF Data
    <3>2. CASE x # r
      BY <1>1, <1>2, <2>1, <3>2 DEF IInv, DoneShown, Data
    <3>3. QED BY <3>1, <3>2
  <2>2. QED BY <1>1, <2>1 DEF DoneShown, DiffShown, Data
<1>8. QED BY <1>4, <1>5, <1>6, <1>7 DEF IInv

LEMMA KeptKnown ==
  ASSUME IInv, NEW r \in todo, CheckKnown(r)
  PROVE  IInv'
<1>1. /\ stage = "check" /\ r \in persistent /\ r \in DOMAIN stored
      /\ stage' = "diff" /\ range' = r /\ ptr' = r.start /\ mismatch' = {}
      /\ UNCHANGED << mem, persistent, stored, oneshot, todo, updated, temps, readable >>
  BY DEF CheckKnown, IInv, StageKnown, readerVars
<1>2. RangesKnown'
  BY <1>1 DEF IInv, RangesKnown, Bytes, Disjoint, Same, Before
<1>3. StageKnown' /\ CopiesApart' /\ CopiesKnown' /\ DoneShown'
  BY <1>1 DEF IInv, StageKnown, CopiesApart, CopiesKnown, DoneShown, Matches, Data
<1>4. DiffShown'
  <2>1. r.start \in Nat /\ r.end \in Nat /\ updated[r] = stored[r]
    BY <1>1, RangeFacts DEF IInv, RangesKnown, CopiesKnown
  <2>2. QED BY <1>1, <2>1 DEF DiffShown, Bytes
<1>5. QED BY <1>2, <1>3, <1>4 DEF IInv

LEMMA KeptCopy ==
  ASSUME IInv, CopyRange
  PROVE  IInv'
<1>1. /\ stage = "copy" /\ range \in todo /\ range \in persistent
      /\ stored' = [x \in DOMAIN stored \union {range} |-> IF x = range THEN Data(range) ELSE stored[x]]
      /\ todo' = todo \ {range} /\ stage' = "check"
      /\ UNCHANGED << mem, persistent, oneshot, mismatch, updated, temps, readable >>
  BY DEF CopyRange, IInv, StageKnown, readerVars
<1>2. RangesKnown'
  BY <1>1 DEF IInv, RangesKnown, Bytes, Disjoint, Same, Before
<1>3. StageKnown'
  BY <1>1 DEF IInv, StageKnown, Data
<1>4. CopiesApart'
  BY <1>1 DEF IInv, CopiesApart, Matches, Same
<1>5. CopiesKnown'
  BY <1>1 DEF IInv, CopiesKnown, DoneShown
<1>6. DoneShown' /\ DiffShown'
  BY <1>1 DEF IInv, DoneShown, DiffShown, Data
<1>7. QED BY <1>2, <1>3, <1>4, <1>5, <1>6 DEF IInv

-----------------------------------------------------------------------------
(* The comparison. *)

\* In the comparison: numbers, and the range in the reader.
LEMMA DiffFacts ==
  ASSUME IInv, stage = "diff"
  PROVE  /\ range \in todo /\ range \in persistent /\ range \in DOMAIN stored
         /\ range.start \in Nat /\ range.end \in Nat /\ range.start < range.end
         /\ ptr \in Nat /\ range.start <= ptr
         /\ Granularity \in Nat /\ Granularity > 0
<1>1. range \in todo /\ range \in persistent /\ range \in DOMAIN stored
  BY DEF IInv, StageKnown
<1>2. range.start \in Nat /\ range.end \in Nat /\ range.start < range.end
  BY <1>1, RangeFacts DEF IInv, RangesKnown
<1>3. QED BY <1>1, <1>2, AddressAssumption DEF IInv, DiffShown

\* Once the difference is written, the reader has what is behind ptr from memory
\* and what is ahead of it from the copy.
LEMMA MismatchWritten ==
  ASSUME IInv, stage = "diff", WriteMismatch
  PROVE  /\ readable' = TRUE /\ temps' = temps /\ DOMAIN updated' = persistent
         /\ \A x \in persistent : DOMAIN updated'[x] = Bytes(x)
         /\ \A x \in persistent \ {range} : updated'[x] = updated[x]
         /\ \A a \in Bytes(range) : /\ a < ptr => updated'[range][a] = mem[a]
                                    /\ a >= ptr => updated'[range][a] = stored[range][a]
<1>1. CASE mismatch = {} /\ UNCHANGED readerVars
  BY <1>1 DEF IInv, RangesKnown, DiffShown, readerVars
<1>2. ASSUME NEW m \in mismatch, WriteRange(m)
      PROVE  /\ readable' = TRUE /\ temps' = temps /\ DOMAIN updated' = persistent
             /\ \A x \in persistent : DOMAIN updated'[x] = Bytes(x)
             /\ \A x \in persistent \ {range} : updated'[x] = updated[x]
             /\ \A a \in Bytes(range) : /\ a < ptr => updated'[range][a] = mem[a]
                                        /\ a >= ptr => updated'[range][a] = stored[range][a]
  <2>1. /\ m.start \in Nat /\ m.end \in Nat /\ range.start <= m.start
        /\ m.start < m.end /\ m.end <= range.end /\ m.end <= ptr
        /\ \A n \in mismatch : m = n
    BY DEF IInv, DiffShown
  <2>2. /\ readable' = TRUE /\ temps' = temps
        /\ DOMAIN updated' = persistent
        /\ \A x \in persistent : DOMAIN updated'[x] = Bytes(x)
        /\ \A x \in persistent \ {range} : updated'[x] = updated[x]
        /\ \A a \in Bytes(range) :
             updated'[range][a] = IF a \in Bytes(m) THEN mem[a] ELSE updated[range][a]
    BY <1>2, <2>1, DiffFacts, WriteRangeDoes DEF IInv
  <2>3. ASSUME NEW a \in Bytes(range)
        PROVE  /\ a < ptr => updated'[range][a] = mem[a]
               /\ a >= ptr => updated'[range][a] = stored[range][a]
    <3>1. CASE a < ptr
      BY <2>1, <2>2, <2>3, <3>1, DiffFacts DEF IInv, DiffShown, Bytes
    <3>2. CASE a >= ptr
      <4>1. a \notin Bytes(m)
        BY <2>1, <3>2, DiffFacts DEF Bytes
      <4>2. QED BY <2>2, <3>2, <4>1, DiffFacts DEF IInv, DiffShown, Bytes
    <3>3. QED BY <3>1, <3>2
  <2>4. QED BY <2>2, <2>3
<1>3. QED BY <1>1, <1>2 DEF WriteMismatch

LEMMA KeptExtend ==
  ASSUME IInv, Extend
  PROVE  IInv'
<1>1. /\ stage = "diff" /\ ptr < range.end /\ stage' = stage /\ ptr' = ptr + Granularity
      /\ UNCHANGED << mem, persistent, stored, oneshot, todo, range, updated, temps, readable >>
  BY DEF Extend, readerVars
<1>2. RangesKnown'
  BY <1>1 DEF IInv, RangesKnown, Bytes, Disjoint, Same, Before
<1>3. StageKnown' /\ CopiesApart' /\ CopiesKnown' /\ DoneShown'
  BY <1>1 DEF IInv, StageKnown, CopiesApart, CopiesKnown, DoneShown, Matches, Data
<1>4. /\ BlockEnd \in Nat /\ ptr < BlockEnd /\ BlockEnd <= range.end /\ BlockEnd <= ptr'
      /\ \A a \in Bytes(range) : a < ptr' => a < BlockEnd
  BY <1>1, DiffFacts DEF BlockEnd, Bytes
<1>5. PICK s \in Nat :
        /\ mismatch' = {Range(s, BlockEnd)}
        /\ range.start <= s /\ s <= ptr
        /\ \A m \in mismatch : m.start = s /\ m.end <= ptr
        /\ mismatch = {} => s = ptr
  <2>1. CASE mismatch = {}
    BY <1>1, <2>1, DiffFacts DEF Extend, Block
  <2>2. CASE mismatch # {}
    <3>1. PICK m \in mismatch : TRUE
      BY <2>2
    <3>2. /\ m.start \in Nat /\ range.start <= m.start /\ m.start < m.end /\ m.end <= ptr
          /\ m.end \in Nat /\ mismatch = {m}
      BY <1>1, <3>1 DEF IInv, DiffShown
    <3>3. QED BY <1>1, <3>2, DiffFacts DEF Extend
  <2>3. QED BY <2>1, <2>2
<1>6. DiffShown'
  <2>1. ASSUME NEW m \in mismatch'
        PROVE  /\ m = Range(m.start, m.end) /\ m.start = s /\ m.end = BlockEnd
               /\ m.start \in Nat /\ m.end \in Nat
               /\ range.start <= m.start /\ m.start < m.end
               /\ m.end <= range.end /\ m.end <= ptr'
    BY <1>4, <1>5, DiffFacts, <1>1 DEF Range
  <2>2. \A m, n \in mismatch' : m = n
    BY <1>5
  <2>3. ASSUME NEW a \in Bytes(range), a >= ptr'
        PROVE  updated[range][a] = stored[range][a]
    BY <1>1, <2>3, DiffFacts DEF IInv, DiffShown, Bytes
  <2>4. ASSUME NEW a \in Bytes(range), a < ptr', updated[range][a] # mem[a]
        PROVE  a \in s .. BlockEnd - 1
    <3>1. a \in Nat /\ a < BlockEnd
      BY <1>4, <2>4, DiffFacts, <1>1 DEF Bytes
    <3>2. CASE a >= ptr
      BY <1>4, <1>5, <3>1, <3>2, DiffFacts, <1>1
    <3>3. CASE a < ptr
      <4>1. PICK m \in mismatch : a \in Bytes(m)
        BY <1>1, <2>4, <3>3 DEF IInv, DiffShown
      <4>2. m.start = s /\ m.end \in Nat
        BY <1>1, <1>5 DEF IInv, DiffShown
      <4>3. QED BY <3>1, <1>4, <4>1, <4>2 DEF Bytes
    <3>4. QED BY <3>1, <3>2, <3>3, DiffFacts, <1>1
  <2>5. ASSUME NEW a \in Bytes(range), a < ptr'
        PROVE  updated[range][a] = mem[a] \/ \E m \in mismatch' : a \in Bytes(m)
    <3>1. Bytes(Range(s, BlockEnd)) = s .. BlockEnd - 1
      BY DEF Bytes, Range
    <3>2. QED BY <1>5, <2>4, <2>5, <3>1
  <2>6. ptr' \in Nat /\ range.start <= ptr'
    BY <1>1, DiffFacts
  <2>7. QED BY <1>1, <2>1, <2>2, <2>3, <2>5, <2>6 DEF DiffShown, Bytes
<1>7. QED BY <1>2, <1>3, <1>6 DEF IInv

LEMMA KeptEndDifference ==
  ASSUME IInv, EndDifference
  PROVE  IInv'
<1>1. /\ stage = "diff" /\ ptr < range.end /\ stage' = stage /\ ptr' = ptr + Granularity
      /\ ~Differs /\ WriteMismatch /\ mismatch' = {}
      /\ UNCHANGED << mem, persistent, stored, oneshot, todo, range >>
  BY DEF EndDifference
<1>2. /\ readable' = TRUE /\ temps' = temps /\ DOMAIN updated' = persistent
      /\ \A x \in persistent : DOMAIN updated'[x] = Bytes(x)
      /\ \A x \in persistent \ {range} : updated'[x] = updated[x]
      /\ \A a \in Bytes(range) : /\ a < ptr => updated'[range][a] = mem[a]
                                 /\ a >= ptr => updated'[range][a] = stored[range][a]
  BY <1>1, MismatchWritten
<1>3. RangesKnown'
  BY <1>1, <1>2 DEF IInv, RangesKnown, Bytes, Disjoint, Same, Before
<1>4. StageKnown' /\ CopiesApart'
  BY <1>1, <1>2 DEF IInv, StageKnown, CopiesApart, Matches, Data
<1>5. CopiesKnown'
  BY <1>1, <1>2 DEF IInv, CopiesKnown
<1>6. DoneShown'
  <2>1. \A x \in persistent \ todo : updated'[x] = updated[x] /\ updated[x] = [a \in Bytes(x) |-> mem[a]]
    BY <1>1, <1>2, DiffFacts DEF IInv, DoneShown, Data
  <2>2. QED BY <1>1, <2>1 DEF DoneShown, Data
<1>7. DiffShown'
  <2>1. ASSUME NEW a \in Bytes(range)
        PROVE  /\ a >= ptr' => updated'[range][a] = stored[range][a]
               /\ a < ptr' => updated'[range][a] = mem[a]
    <3>1. a \in Nat /\ a < range.end
      BY <1>1, DiffFacts DEF Bytes
    <3>2. CASE a < ptr
      BY <1>1, <1>2, <3>1, <3>2, DiffFacts
    <3>3. CASE a >= ptr /\ a < ptr'
      <4>1. a \in Bytes(Block)
        BY <1>1, <3>1, <3>3, DiffFacts DEF Bytes, Block, BlockEnd, Range
      <4>2. stored[range][a] = mem[a]
        BY <1>1, <4>1 DEF Differs
      <4>3. QED BY <1>1, <1>2, <3>1, <3>3, <4>2, DiffFacts
    <3>4. CASE a >= ptr /\ a >= ptr'
      BY <1>1, <1>2, <3>1, <3>4, DiffFacts
    <3>5. QED BY <1>1, <3>1, <3>2, <3>3, <3>4, DiffFacts
  <2>2. ptr' \in Nat /\ range.start <= ptr'
    BY <1>1, DiffFacts
  <2>3. QED BY <1>1, <2>1, <2>2 DEF DiffShown, Bytes
<1>8. QED BY <1>3, <1>4, <1>5, <1>6, <1>7 DEF IInv

LEMMA KeptEndDiff ==
  ASSUME TypeOK, IInv, EndDiff
  PROVE  IInv'
<1>1. /\ stage = "diff" /\ ptr >= range.end /\ stage' = "copy"
      /\ WriteMismatch /\ mismatch' = {}
      /\ UNCHANGED << mem, persistent, stored, oneshot, todo, range >>
  BY DEF EndDiff
<1>2. /\ readable' = TRUE /\ temps' = temps /\ DOMAIN updated' = persistent
      /\ \A x \in persistent : DOMAIN updated'[x] = Bytes(x)
      /\ \A x \in persistent \ {range} : updated'[x] = updated[x]
      /\ \A a \in Bytes(range) : /\ a < ptr => updated'[range][a] = mem[a]
                                 /\ a >= ptr => updated'[range][a] = stored[range][a]
  BY <1>1, MismatchWritten
<1>3. RangesKnown'
  BY <1>1, <1>2 DEF IInv, RangesKnown, Bytes, Disjoint, Same, Before
<1>4. StageKnown' /\ CopiesApart'
  BY <1>1, <1>2, DiffFacts DEF IInv, StageKnown, CopiesApart, Matches, Data
<1>5. CopiesKnown' /\ DiffShown'
  BY <1>1, <1>2 DEF IInv, CopiesKnown, DiffShown
<1>6. DoneShown'
  <2>1. \A x \in persistent \ todo : updated'[x] = updated[x] /\ updated[x] = [a \in Bytes(x) |-> mem[a]]
    BY <1>1, <1>2, DiffFacts DEF IInv, DoneShown, Data
  <2>2. \A a \in Bytes(range) : updated'[range][a] = mem[a]
    BY <1>1, <1>2, DiffFacts DEF Bytes
  <2>3. updated'[range] = [a \in Bytes(range) |-> updated'[range][a]]
    <3>1. updated[range] = [a \in Bytes(range) |-> updated[range][a]]
      BY <1>1, DiffFacts DEF TypeOK, Copies, IInv, RangesKnown
    <3>2. CASE UNCHANGED readerVars
      BY <3>1, <3>2 DEF readerVars
    <3>3. CASE \E m \in mismatch : WriteRange(m)
      BY <3>1, <3>3, <1>1, DiffFacts DEF WriteRange, IInv, RangesKnown
    <3>4. QED BY <1>1, <3>2, <3>3 DEF WriteMismatch
  <2>4. QED BY <1>1, <2>1, <2>2, <2>3 DEF DoneShown, Data
<1>7. QED BY <1>3, <1>4, <1>5, <1>6 DEF IInv

-----------------------------------------------------------------------------
(* Types. *)

LEMMA BytesAreAddresses ==
  ASSUME NEW r \in Ranges
  PROVE  Bytes(r) \subseteq Addresses
  BY AddressAssumption DEF Ranges, Bytes, Addresses

LEMMA DataType ==
  ASSUME mem \in [Addresses -> Values], NEW r \in Ranges
  PROVE  Data(r) \in [Bytes(r) -> Values]
  BY BytesAreAddresses DEF Data

LEMMA WriteRangeType ==
  ASSUME TypeOK, NEW w, WriteRange(w)
  PROVE  Copies(updated)'
<1>1. ASSUME NEW x \in DOMAIN updated
      PROVE  x \in Ranges /\ updated'[x] \in [Bytes(x) -> Values]
  <2>1. /\ x \in Ranges /\ updated[x] \in [Bytes(x) -> Values] /\ Bytes(x) \subseteq Addresses
        /\ mem \in [Addresses -> Values]
    BY BytesAreAddresses DEF TypeOK, Copies
  <2>2. CASE x \in Located(updated, w)
    <3>1. updated'[x] = [a \in Bytes(x) |-> IF a \in Bytes(w) THEN mem[a] ELSE updated[x][a]]
      BY <2>1, <2>2 DEF WriteRange
    <3>2. QED BY <2>1, <3>1
  <2>3. CASE x \notin Located(updated, w)
    BY <2>1, <2>3 DEF WriteRange
  <2>4. QED BY <2>2, <2>3
<1>2. DOMAIN updated' = DOMAIN updated
  BY DEF WriteRange
<1>3. QED BY <1>1, <1>2 DEF Copies

LEMMA UpdatedType ==
  ASSUME TypeOK, [Next]_vars
  PROVE  Copies(updated)'
<1>1. ASSUME NEW r \in Mappings, AddRange(r) PROVE Copies(updated)'
  <2>1. r \in Ranges /\ [a \in Bytes(r) |-> Zero] \in [Bytes(r) -> Values]
    BY MappingAssumption, AddressAssumption
  <2>2. QED BY <1>1, <2>1 DEF AddRange, TypeOK, Copies
<1>2. ASSUME NEW r \in Mappings, RemoveRange(r) PROVE Copies(updated)'
  BY <1>2 DEF RemoveRange, TypeOK, Copies
<1>3. ASSUME NEW r \in todo, CheckNew(r) \/ CheckOther(r) PROVE Copies(updated)'
  BY <1>3, WriteRangeType DEF CheckNew, CheckOther
<1>4. CASE EndDifference \/ EndDiff
  BY <1>4, WriteRangeType DEF EndDifference, EndDiff, WriteMismatch, readerVars, TypeOK, Copies
<1>5. CASE updated' = updated
  BY <1>5 DEF TypeOK, Copies
<1>6. QED BY <1>1, <1>2, <1>3, <1>4, <1>5
  DEF Next, vars, readerVars, Change, LogEvent, CheckKnown, Extend, CopyRange, WriteEvent, EndEvent

LEMMA StoredType ==
  ASSUME TypeOK, Placed, [Next]_vars
  PROVE  Copies(stored)'
<1>1. CASE CopyRange
  <2>1. range \in Ranges
    BY <1>1 DEF CopyRange, Placed
  <2>2. Data(range) \in [Bytes(range) -> Values]
    BY <2>1, DataType DEF TypeOK
  <2>3. QED BY <1>1, <2>1, <2>2 DEF CopyRange, TypeOK, Copies
<1>2. CASE stored' = stored
  BY <1>2 DEF TypeOK, Copies
<1>3. QED BY <1>1, <1>2
  DEF Next, vars, recorderVars, Change, AddRange, RemoveRange, LogEvent, CheckNew, CheckOther,
      CheckKnown, Extend, EndDifference, EndDiff, WriteEvent, EndEvent

LEMMA MemoryType ==
  ASSUME TypeOK, [Next]_vars
  PROVE  mem' \in [Addresses -> Values] /\ quiet' \in BOOLEAN /\ persistent' \subseteq Mappings
<1>1. mem' \in [Addresses -> Values]
  BY DEF TypeOK, Next, vars, Change, AddRange, RemoveRange, LogEvent, CheckNew, CheckOther,
         CheckKnown, Extend, EndDifference, EndDiff, CopyRange, WriteEvent, EndEvent
<1>2. quiet' \in BOOLEAN
  BY DEF TypeOK, Next, vars, Change, AddRange, RemoveRange, LogEvent, CheckNew, CheckOther,
         CheckKnown, Extend, EndDifference, EndDiff, CopyRange, WriteEvent, EndEvent
<1>3. persistent' \subseteq Mappings
  BY DEF TypeOK, Next, vars, recorderVars, Change, AddRange, RemoveRange, LogEvent, CheckNew,
         CheckOther, CheckKnown, Extend, EndDifference, EndDiff, CopyRange, WriteEvent, EndEvent
<1>4. QED BY <1>1, <1>2, <1>3

LEMMA LocalsType ==
  ASSUME TypeOK, Placed, [Next]_vars
  PROVE  range'.start \in Nat /\ range'.end \in Nat /\ ptr' \in Nat
<1>1. ASSUME NEW r \in todo, CheckNew(r) \/ CheckKnown(r)
      PROVE  range'.start \in Nat /\ range'.end \in Nat /\ ptr' \in Nat
  <2>1. r.start \in Nat /\ r.end \in Nat
    BY RangeFacts DEF Placed
  <2>2. QED BY <1>1, <2>1 DEF CheckNew, CheckKnown, TypeOK
<1>2. CASE CopyRange
  BY <1>2 DEF CopyRange, NoRange, Range
<1>3. CASE Extend \/ EndDifference
  BY <1>3, AddressAssumption DEF Extend, EndDifference, TypeOK
<1>4. CASE UNCHANGED << range, ptr >>
  BY <1>4 DEF TypeOK
<1>5. QED BY <1>1, <1>2, <1>3, <1>4
  DEF Next, vars, recorderVars, Change, AddRange, RemoveRange, LogEvent, CheckOther, EndDiff,
      WriteEvent, EndEvent

LEMMA TempsType ==
  ASSUME TypeOK, Placed, [Next]_vars
  PROVE  Copies(temps)'
<1>1. CASE WriteEvent
  <2>1. \A r \in oneshot : r \in Ranges /\ Data(r) \in [Bytes(r) -> Values]
    BY DataType DEF Placed, TypeOK
  <2>2. QED BY <1>1, <2>1 DEF WriteEvent, Copies
<1>2. CASE EndEvent
  BY <1>2 DEF EndEvent, Copies
<1>3. CASE temps' = temps
  BY <1>3 DEF TypeOK, Copies
<1>4. QED BY <1>1, <1>2, <1>3
  DEF Next, vars, readerVars, Change, AddRange, RemoveRange, LogEvent, CheckNew, CheckOther,
      CheckKnown, Extend, EndDifference, EndDiff, WriteMismatch, WriteRange, CopyRange

LEMMA MismatchType ==
  ASSUME Placed, Differences
  PROVE  mismatch = {} \/ \E s, e \in 0 .. Top : mismatch = {Range(s, e)}
<1>1. CASE stage # "diff"
  BY <1>1 DEF Placed
<1>2. ASSUME NEW m \in mismatch, stage = "diff"
      PROVE  \E s, e \in 0 .. Top : mismatch = {Range(s, e)}
  <2>1. range.end \in Nat /\ range.end <= Top
    <3>1. range \in Ranges
      BY <1>2 DEF Placed
    <3>2. QED BY <3>1, AddressAssumption DEF Ranges
  <2>2. /\ m = Range(m.start, m.end) /\ mismatch = {m}
        /\ m.start \in Nat /\ m.end \in Nat /\ m.start < m.end /\ m.end <= range.end
    BY <1>2, <2>1 DEF Differences
  <2>3. m.start \in 0 .. Top /\ m.end \in 0 .. Top
    BY <2>1, <2>2, AddressAssumption
  <2>4. QED BY <2>2, <2>3
<1>3. QED BY <1>1, <1>2

LEMMA TypeInit == Init => TypeOK
<1> SUFFICES ASSUME Init PROVE TypeOK
  OBVIOUS
<1>1. Copies(stored) /\ Copies(updated) /\ Copies(temps)
  BY DEF Init, Copies
<1>2. range.start \in Nat /\ range.end \in Nat
  BY DEF Init, NoRange, Range
<1>3. QED BY <1>1, <1>2 DEF Init, TypeOK

LEMMA TypeKept ==
  ASSUME TypeOK, Placed, Differences, [Next]_vars
  PROVE  TypeOK'
<1>1. Placed' /\ Differences'
  BY PlacedKept, DifferencesKept
<1>2. mem' \in [Addresses -> Values] /\ quiet' \in BOOLEAN /\ persistent' \subseteq Mappings
  BY MemoryType
<1>3. (mismatch = {} \/ \E s, e \in 0 .. Top : mismatch = {Range(s, e)})'
  BY <1>1, MismatchType, PTL
<1>4. (/\ todo \subseteq persistent /\ oneshot \subseteq Ranges
       /\ stage \in {"idle", "check", "diff", "copy", "event"} /\ readable \in BOOLEAN)'
  BY <1>1 DEF Placed
<1>5. QED BY <1>2, <1>3, <1>4, UpdatedType, StoredType, TempsType, LocalsType DEF TypeOK

\* Copies and what the reader has of the ranges keep to bytes of memory, whatever
\* programs do: whatever is added, removed and logged, and whenever memory changes.
THEOREM TypeCorrect == Spec => []TypeOK
<1>1. Init => TypeOK /\ Placed /\ Differences
  BY TypeInit, PlacedInit
<1>2. TypeOK /\ Placed /\ Differences /\ [Next]_vars => (TypeOK /\ Placed /\ Differences)'
  BY TypeKept, PlacedKept, DifferencesKept
<1>3. QED BY <1>1, <1>2, PTL DEF Spec

-----------------------------------------------------------------------------
(* The theorems. *)

LEMMA Kept ==
  ASSUME Practices = {}, TypeOK, IInv, [Next]_vars
  PROVE  IInv'
<1>1. ASSUME NEW a \in Addresses, NEW v \in Values, Change(a, v) PROVE IInv'
  BY <1>1, KeptChange
<1>2. ASSUME NEW r \in Mappings, AddRange(r) \/ RemoveRange(r) PROVE IInv'
  BY <1>2, KeptAdd, KeptRemove
<1>3. ASSUME NEW s \in OneShots, LogEvent(s) PROVE IInv'
  BY <1>3, KeptLog
<1>4. ASSUME NEW r \in todo, CheckNew(r) \/ CheckOther(r) \/ CheckKnown(r) PROVE IInv'
  BY <1>4, KeptNew, KeptOther, KeptKnown
<1>5. CASE Extend \/ EndDifference \/ EndDiff \/ CopyRange
  BY <1>5, KeptExtend, KeptEndDifference, KeptEndDiff, KeptCopy
<1>6. CASE WriteEvent \/ EndEvent
  BY <1>6, KeptEvent, KeptEnd
<1>7. CASE UNCHANGED vars
  <2>1. UNCHANGED << mem, persistent, stored, stage, oneshot, todo, range, ptr, mismatch,
                     updated, temps, readable >>
    BY <1>7 DEF vars, recorderVars, readerVars
  <2>2. RangesKnown'
    BY <2>1 DEF IInv, RangesKnown, Bytes, Disjoint, Same, Before
  <2>3. StageKnown' /\ CopiesApart'
    BY <2>1 DEF IInv, StageKnown, CopiesApart, Matches, Data
  <2>4. CopiesKnown' /\ DoneShown' /\ DiffShown'
    BY <2>1 DEF IInv, CopiesKnown, DoneShown, DiffShown, Data
  <2>5. QED BY <2>2, <2>3, <2>4 DEF IInv
<1>8. QED BY <1>1, <1>2, <1>3, <1>4, <1>5, <1>6, <1>7 DEF Next

LEMMA InvCorrect == ASSUME Practices = {} PROVE Spec => []IInv
<1>1. TypeOK /\ IInv /\ [Next]_vars => IInv'
  BY Kept
<1>2. QED BY <1>1, InvInit, TypeCorrect, PTL DEF Spec

\* At an event the reader shows every range as it is in memory.
LEMMA ShownAtEvent == IInv => EventShowsMemory
<1> SUFFICES ASSUME IInv, stage = "event", NEW r \in persistent \union oneshot
             PROVE  Fetch(r) = {Data(r)}
  BY DEF EventShowsMemory, IInv, RangesKnown
<1> DEFINE from(d) == {[a \in Bytes(r) |-> d[x][a]] : x \in Located(d, r)}
<1>1. r \in Ranges /\ r.start \in Nat /\ r.end \in Nat /\ r.start < r.end
  BY RangeFacts DEF IInv, RangesKnown
<1>2. DOMAIN temps = oneshot /\ \A x \in oneshot : temps[x] = Data(x)
  BY DEF IInv, StageKnown
<1>3. ASSUME NEW x \in Located(temps, r)
      PROVE  [a \in Bytes(r) |-> temps[x][a]] = Data(r)
  <2>1. x \in oneshot /\ x \in Ranges /\ x.start <= r.start /\ r.end <= x.end
    BY <1>2 DEF Located, IInv, RangesKnown
  <2>2. Bytes(r) \subseteq Bytes(x)
    BY <1>1, <2>1, RangeFacts DEF Bytes
  <2>3. QED BY <1>2, <2>1, <2>2 DEF Data
<1>4. CASE Located(temps, r) # {}
  <2>1. from(temps) = {Data(r)}
    BY <1>3, <1>4
  <2>2. QED BY <2>1 DEF Fetch
<1>5. CASE Located(temps, r) = {}
  <2>1. r \notin oneshot
    <3>1. ASSUME r \in oneshot PROVE r \in Located(temps, r)
      <4>1. \A y \in oneshot : y.start \in Nat /\ (y.start <= r.start => y.start <= r.start)
        BY RangeFacts DEF IInv, RangesKnown
      <4>2. QED BY <1>1, <1>2, <3>1, <4>1 DEF Located
    <3>2. QED BY <1>5, <3>1
  <2>2. r \in persistent /\ updated[r] = Data(r)
    BY <2>1 DEF IInv, StageKnown, DoneShown
  <2>3. Located(updated, r) = {r}
    BY <1>1, <2>2, LocatedIs DEF IInv
  <2>4. from(updated) = {Data(r)}
    BY <2>2, <2>3 DEF Data
  <2>5. from(temps) = {}
    BY <1>5
  <2>6. QED BY <2>4, <2>5 DEF Fetch
<1>6. QED BY <1>4, <1>5

\* The reader shows memory as it was at every event, for programs that do not add a
\* range again and are quiet while an event is logged.
THEOREM EventsShown == ASSUME Practices = {} PROVE Spec => []EventShowsMemory
  BY InvCorrect, ShownAtEvent, PTL

\* Between events the recorder compares with what the reader knows.
THEOREM CopiesAgree == ASSUME Practices = {} PROVE Spec => []CopiesShown
<1>1. IInv => CopiesShown
  BY DEF IInv, CopiesKnown, CopiesShown
<1>2. QED BY <1>1, InvCorrect, PTL

=============================================================================
