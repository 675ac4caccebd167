--------------------------- MODULE FlightRecorder ---------------------------
(***************************************************************************)
(* The flight recorder: it writes a file of events with the changes of     *)
(* monitored memory since the event before (src/attic/lib/                 *)
(* flightrecorder.cpp, interval.h), and a tool that reads the file later   *)
(* shows memory as it was at each event (src/tools/etnaviv/parse_fdr.py).  *)
(*                                                                         *)
(* The file is a sequence of records that the reader takes in order, so    *)
(* the model has no file: a record is applied to the reader as it is       *)
(* written.                                                                *)
(***************************************************************************)
EXTENDS Naturals, FiniteSets

CONSTANTS
  Top,          \* bound: addresses are 0 .. Top - 1
  Values,       \* what a byte can be
  Zero,         \* what a bytearray starts with
  Granularity,  \* diff_granularity (256)
  Mappings,     \* bound: ranges the program may have monitored
  OneShots,     \* bound: sets of ranges added to an event
  Practices     \* what programs do: subset of {"again", "race"}

Addresses == 0 .. Top - 1
Range(s, e) == [start |-> s, end |-> e]
Ranges == {r \in [start : Addresses, end : 1 .. Top] : r.start < r.end}
Bytes(r) == r.start .. r.end - 1

ASSUME AddressAssumption == Top \in Nat /\ Granularity \in Nat \ {0} /\ Zero \in Values
ASSUME MappingAssumption == Mappings \subseteq Ranges /\ OneShots \subseteq SUBSET Ranges

VARIABLES
  mem,         \* memory of the program
  persistent,  \* monitored ranges
  stored,      \* copies of monitored ranges, to compare with
  stage,       \* where log_event is; the mutex is free in "idle"
  oneshot,     \* ranges of the event being logged
  todo,        \* monitored ranges not yet checked for this event
  range,       \* the range that is compared or copied
  ptr,         \* bdiff: next block
  mismatch,    \* bdiff: the difference found so far, if any
  updated,     \* reader: updated_ranges
  temps,       \* reader: temp_ranges
  readable,    \* the reader has raised no exception
  quiet        \* memory has not changed since log_event began

recorderVars == << persistent, stored, stage, oneshot, todo, range, ptr, mismatch >>
readerVars == << updated, temps, readable >>
vars == << mem, recorderVars, readerVars, quiet >>

-----------------------------------------------------------------------------
(* Intervals [start, end).  The order of the sets and maps takes two       *)
(* ranges for the same when one lies in the other.                         *)

Before(a, b) == a.start < b.start /\ a.end < b.end
Same(a, b) == ~Before(a, b) /\ ~Before(b, a)
Disjoint(a, b) == a.end <= b.start \/ b.end <= a.start

\* What find comes upon, what erase removes.
Matches(s, r) == {x \in s : Same(x, r)}

\* Memory of a range.
Data(r) == [a \in Bytes(r) |-> mem[a]]

\* Of a local variable that is not in use.
NoRange == Range(0, 0)

-----------------------------------------------------------------------------
(* The reader. *)

\* The range of d that bisect_right finds for w, if it holds all of w.
Located(d, w) ==
  {x \in DOMAIN d : /\ x.start <= w.start /\ w.end <= x.end
                    /\ \A y \in DOMAIN d : y.start <= w.start => y.start <= x.start}

\* RANGE_DATA with the memory of a range, or an exception.
WriteRange(w) ==
  /\ updated' = [x \in DOMAIN updated |->
                   IF x \in Located(updated, w)
                   THEN [a \in DOMAIN updated[x] |-> IF a \in Bytes(w) THEN mem[a] ELSE updated[x][a]]
                   ELSE updated[x]]
  /\ readable' = (readable /\ Located(updated, w) # {})
  /\ UNCHANGED temps

\* fdr[r.start:r.end]: the temporary ranges of the event first; {} for an exception.
Fetch(r) ==
  LET from(d) == {[a \in Bytes(r) |-> d[x][a]] : x \in Located(d, r)}
  IN IF from(temps) # {} THEN from(temps) ELSE from(updated)

-----------------------------------------------------------------------------
Init ==
  /\ mem \in [Addresses -> Values]
  /\ persistent = {} /\ todo = {}
  /\ stored = << >> /\ updated = << >> /\ temps = << >>
  /\ stage = "idle"
  /\ oneshot = {}
  /\ range = NoRange /\ ptr = 0 /\ mismatch = {}
  /\ readable = TRUE
  /\ quiet = FALSE

\* The program writes to its memory; while it logs an event only another of its
\* threads, or the GPU, can.
Change(a, v) ==
  /\ stage = "idle" \/ "race" \in Practices
  /\ mem[a] # v
  /\ mem' = [mem EXCEPT ![a] = v]
  /\ quiet' = FALSE
  /\ UNCHANGED << recorderVars, readerVars >>

AddRange_ByteMore(r) ==
  /\ stage = "idle"
  /\ \A x \in persistent : Disjoint(x, r) \/ Same(x, r)
  /\ Matches(persistent, r) = {}
  /\ r \in DOMAIN stored => "again" \in Practices
  /\ persistent' = persistent \union {r}
  /\ updated' = [x \in DOMAIN updated \union {r} |->
                   IF x = r THEN [a \in r.start .. r.end |-> Zero] ELSE updated[x]]
  /\ UNCHANGED << mem, stored, stage, oneshot, todo, range, ptr, mismatch, temps, readable, quiet >>

\* fdr_add_monitored_range.  An interval that matches one in the set is refused;
\* one that overlaps another, each with a part of its own, would not be, and
\* callers promise that there is none.
AddRange(r) ==
  /\ stage = "idle"
  /\ \A x \in persistent : Disjoint(x, r) \/ Same(x, r)
  /\ Matches(persistent, r) = {}
  /\ r \in DOMAIN stored => "again" \in Practices
  /\ persistent' = persistent \union {r}
  /\ updated' = [x \in DOMAIN updated \union {r} |->
                   IF x = r THEN [a \in Bytes(r) |-> Zero] ELSE updated[x]]
  /\ UNCHANGED << mem, stored, stage, oneshot, todo, range, ptr, mismatch, temps, readable, quiet >>

\* fdr_remove_monitored_range, with a complete match.  The copy stays.
RemoveRange(r) ==
  /\ stage = "idle"
  /\ r \in persistent
  /\ persistent' = persistent \ Matches(persistent, r)
  /\ updated' = [x \in DOMAIN updated \ {r} |-> updated[x]]
  /\ readable' = (readable /\ r \in Located(updated, r))
  /\ UNCHANGED << mem, stored, stage, oneshot, todo, range, ptr, mismatch, temps, quiet >>

-----------------------------------------------------------------------------
(* fdr_log_event, with the mutex. *)

\* fdr_event_add_oneshot_range has bounced the ranges that match another.
LogEvent(s) ==
  /\ stage = "idle"
  /\ \A x, y \in s : x # y => ~Same(x, y)
  /\ stage' = "check"
  /\ oneshot' = s
  /\ todo' = persistent
  /\ quiet' = TRUE
  /\ UNCHANGED << mem, persistent, stored, range, ptr, mismatch, readerVars >>

\* The ranges in the order of their addresses.
IsNext(r) == r \in todo /\ \A x \in todo : r.start <= x.start

\* Not in storage: write all of it.
CheckNew(r) ==
  /\ stage = "check" /\ IsNext(r)
  /\ Matches(DOMAIN stored, r) = {}
  /\ WriteRange(r)
  /\ stage' = "copy"
  /\ range' = r
  /\ UNCHANGED << mem, persistent, stored, oneshot, todo, ptr, mismatch, quiet >>

\* In storage with other bounds: write all of it, leave the copy.
CheckOther(r) ==
  /\ stage = "check" /\ IsNext(r)
  /\ \E copy \in Matches(DOMAIN stored, r) : copy # r
  /\ WriteRange(r)
  /\ todo' = todo \ {r}
  /\ UNCHANGED << mem, persistent, stored, stage, oneshot, range, ptr, mismatch, quiet >>

CheckKnown(r) ==
  /\ stage = "check" /\ IsNext(r)
  /\ r \in DOMAIN stored
  /\ stage' = "diff"
  /\ range' = r
  /\ ptr' = r.start
  /\ mismatch' = {}
  /\ UNCHANGED << mem, persistent, stored, oneshot, todo, readerVars, quiet >>

\* bdiff, one block.
BlockEnd == IF ptr + Granularity <= range.end THEN ptr + Granularity ELSE range.end
Block == Range(ptr, BlockEnd)
Differs == \E a \in Bytes(Block) : stored[range][a] # mem[a]

Extend_LosesStart ==
  /\ stage = "diff" /\ ptr < range.end
  /\ Differs
  /\ mismatch' = {Block}
  /\ ptr' = ptr + Granularity
  /\ UNCHANGED << mem, persistent, stored, stage, oneshot, todo, range, readerVars, quiet >>

Extend ==
  /\ stage = "diff" /\ ptr < range.end
  /\ Differs
  /\ mismatch' = IF mismatch = {} THEN {Block} ELSE {Range(m.start, BlockEnd) : m \in mismatch}
  /\ ptr' = ptr + Granularity
  /\ UNCHANGED << mem, persistent, stored, stage, oneshot, todo, range, readerVars, quiet >>

\* Writes the difference that ended, if there is one.
WriteMismatch ==
  \/ mismatch = {} /\ UNCHANGED readerVars
  \/ \E m \in mismatch : WriteRange(m)

EndDifference_NotEnded ==
  /\ stage = "diff" /\ ptr < range.end
  /\ ~Differs
  /\ WriteMismatch
  /\ ptr' = ptr + Granularity
  /\ UNCHANGED << mem, persistent, stored, stage, oneshot, todo, range, mismatch, quiet >>

\* A block that is equal ends the difference before it.
EndDifference ==
  /\ stage = "diff" /\ ptr < range.end
  /\ ~Differs
  /\ WriteMismatch
  /\ mismatch' = {}
  /\ ptr' = ptr + Granularity
  /\ UNCHANGED << mem, persistent, stored, stage, oneshot, todo, range, quiet >>

EndDiff ==
  /\ stage = "diff" /\ ptr >= range.end
  /\ WriteMismatch
  /\ mismatch' = {}
  /\ stage' = "copy"
  /\ UNCHANGED << mem, persistent, stored, oneshot, todo, range, ptr, quiet >>

CopyRange ==
  /\ stage = "copy"
  /\ stored' = [x \in DOMAIN stored \union {range} |-> IF x = range THEN Data(range) ELSE stored[x]]
  /\ todo' = todo \ {range}
  /\ stage' = "check"
  /\ range' = NoRange /\ ptr' = 0
  /\ UNCHANGED << mem, persistent, oneshot, mismatch, readerVars, quiet >>

\* The temporary ranges, then the event: here the reader stops to show memory.
WriteEvent ==
  /\ stage = "check" /\ todo = {}
  /\ temps' = [r \in oneshot |-> Data(r)]
  /\ stage' = "event"
  /\ UNCHANGED << mem, persistent, stored, oneshot, todo, range, ptr, mismatch, updated, readable, quiet >>

EndEvent ==
  /\ stage = "event"
  /\ temps' = << >>
  /\ oneshot' = {}
  /\ stage' = "idle"
  /\ quiet' = FALSE
  /\ UNCHANGED << mem, persistent, stored, todo, range, ptr, mismatch, updated, readable >>

Next ==
  \/ \E a \in Addresses, v \in Values : Change(a, v)
  \/ \E r \in Mappings : AddRange(r) \/ RemoveRange(r)
  \/ \E s \in OneShots : LogEvent(s)
  \/ \E r \in todo : CheckNew(r) \/ CheckOther(r) \/ CheckKnown(r)
  \/ Extend \/ EndDifference \/ EndDiff \/ CopyRange
  \/ WriteEvent \/ EndEvent

Spec == Init /\ [][Next]_vars

-----------------------------------------------------------------------------
(* Properties. *)

Copies(d) == \A r \in DOMAIN d : r \in Ranges /\ d[r] \in [Bytes(r) -> Values]

\* Every variable has its type.
TypeOK ==
  /\ mem \in [Addresses -> Values]
  /\ persistent \subseteq Mappings /\ todo \subseteq persistent
  /\ Copies(stored) /\ Copies(updated) /\ Copies(temps)
  /\ stage \in {"idle", "check", "diff", "copy", "event"}
  /\ oneshot \subseteq Ranges
  /\ range.start \in Nat /\ range.end \in Nat /\ ptr \in Nat
  /\ mismatch = {} \/ \E s, e \in 0 .. Top : mismatch = {Range(s, e)}
  /\ readable \in BOOLEAN /\ quiet \in BOOLEAN

\* The reader shows the memory of every monitored or temporary range "at the time
\* of recorded events" (parse_fdr.py), from the changes that were written since the
\* ranges were added.  Memory that changes while the event is logged has no one
\* content then.
EventShowsMemory ==
  stage = "event" /\ quiet =>
    /\ readable
    /\ \A r \in persistent \union oneshot : Fetch(r) = {Data(r)}

\* Only changes are written (flightrecorder.h: "Then write ranges that changed"): bdiff
\* puts no block that is equal into a difference.
ChangesOnly ==
  stage = "diff" /\ quiet =>
    \A m \in mismatch : \A p \in Bytes(m) :
      (p - range.start) % Granularity = 0 =>
        \E a \in Bytes(m) : p <= a /\ a < p + Granularity /\ stored[range][a] # mem[a]

\* What the recorder compares with is what the reader knows, between two events.
CopiesShown ==
  stage = "idle" =>
    \A r \in persistent \intersect DOMAIN stored : stored[r] = updated[r]

=============================================================================
