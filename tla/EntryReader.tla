----------------------------- MODULE EntryReader -----------------------------
(***************************************************************************)
(* The Reader of dwarf/entry.go, through which every lookup, the type      *)
(* reader and the stack walk read the entries of the info section.         *)
(*                                                                         *)
(* A section is a sequence of units, each with the offset of its first     *)
(* entry.  An entry is one offset wide and is reduced to what a reader     *)
(* looks at: whether it has children, its sibling attribute (0 if none),   *)
(* and a tag: "null" for tag 0, "block" for an entry with children,        *)
(* "var" for a parameter or variable, "bad" for one that cannot be         *)
(* decoded.  The end of b.data is the end of the unit; after an error the  *)
(* data is not looked at again.                                            *)
(*                                                                         *)
(* The loops of SkipChildren and of walkStack are taken entry by entry.    *)
(* SkipChildren calls itself and has no local state: the number of calls   *)
(* in progress is all there is to its stack.                               *)
(***************************************************************************)
EXTENDS Integers, Sequences, FiniteSetsExt

CONSTANT Sections    \* the sections that are read

VARIABLES units,     \* d.unit
          r,         \* the Reader
          depth,     \* calls of SkipChildren that are in their loop
          got,       \* offsets of the variables that walkStack has found
          last,      \* history: the entry last returned, or where the scan began, or 0
          op         \* history: the method last called

vars == <<units, r, depth, got, last, op>>

Nil == [tag |-> "nil", children |-> FALSE, sibling |-> 0]

UnitEnd(k) == units[k].off + Len(units[k].data)
Entries(k) == units[k].off..(UnitEnd(k) - 1)
EntryAt(k, off) == units[k].data[off - units[k].off + 1]

-----------------------------------------------------------------------------
(* What a compiler writes: units one after the other, in each of them a    *)
(* forest.  An entry's subtree ends where as many null entries as entries  *)
(* with children have been seen; a sibling attribute names the entry that  *)
(* comes next.                                                             *)
EntryType == [tag : {"null", "block", "var", "bad"}, children : BOOLEAN, sibling : Nat]

Opens(k, a, b) == Cardinality({o \in a..b : EntryAt(k, o).children})
Closes(k, a, b) == Cardinality({o \in a..b : EntryAt(k, o).tag = "null"})
Balanced(k, off) == {o \in off..(UnitEnd(k) - 1) : Opens(k, off, o) = Closes(k, off, o)}
EndIn(k, off) == IF EntryAt(k, off).children THEN 1 + Min(Balanced(k, off)) ELSE off + 1

WellFormed ==
  /\ units \in Seq([off : Nat \ {0}, data : Seq(EntryType)]) \ {<< >>}
  /\ \A j, k \in DOMAIN units : j < k => UnitEnd(j) <= units[k].off
  /\ \A k \in DOMAIN units : \A o \in Entries(k) :
       EntryAt(k, o).children =>
         /\ EntryAt(k, o).tag = "block"
         /\ Balanced(k, o) # {}
         /\ EntryAt(k, o).sibling # 0 =>
              EntryAt(k, o).sibling = EndIn(k, o) /\ EndIn(k, o) < UnitEnd(k)

-----------------------------------------------------------------------------
(* The methods, as functions of the Reader. *)

(* Reader, Seek(0) and Seek(off). *)
SeekIn(q, off) ==
  LET at == {k \in DOMAIN units : units[k].off <= off /\ off < UnitEnd(k)} IN
  IF off = 0
  THEN [q EXCEPT !.err = FALSE, !.lastChildren = FALSE,
                 !.unit = 1, !.off = units[1].off]
  ELSE IF at = {}
  THEN [q EXCEPT !.err = TRUE, !.lastChildren = FALSE]
  ELSE [q EXCEPT !.err = FALSE, !.lastChildren = FALSE,
                 !.unit = Min(at), !.off = off]

(* A faulty variant: an empty unit is taken for the end of the section. *)
MaybeNextUnitOnce(q) ==
  IF q.off < UnitEnd(q.unit) \/ q.unit = Len(units) THEN q
  ELSE [q EXCEPT !.unit = @ + 1, !.off = units[q.unit + 1].off]

(* maybeNextUnit: the next unit that is not empty, or the last one. *)
MaybeNextUnit(q) ==
  LET later == {k \in (q.unit + 1)..Len(units) :
                  units[k].data # << >> \/ k = Len(units)} IN
  IF q.off < UnitEnd(q.unit) \/ later = {} THEN q
  ELSE [q EXCEPT !.unit = Min(later), !.off = units[Min(later)].off]

(* Next returns the Reader and the entry, Nil at the end or for an error. *)
NextIn(q) ==
  LET n == MaybeNextUnit(q)
      e == EntryAt(n.unit, n.off)
  IN IF q.err THEN [r |-> q, e |-> Nil]
     ELSE IF n.off = UnitEnd(n.unit) THEN [r |-> n, e |-> Nil]
     ELSE IF e.tag = "bad" THEN [r |-> [n EXCEPT !.err = TRUE], e |-> Nil]
     ELSE [r |-> [n EXCEPT !.off = @ + 1,
                           !.lastChildren = e.children,
                           !.lastSibling = IF e.children THEN e.sibling ELSE @],
           e |-> e]

(* A call of SkipChildren up to its loop, which it may not get to. *)
SkipIn(q) ==
  IF q.err \/ ~q.lastChildren THEN [r |-> q, loops |-> 0]
  ELSE IF q.lastSibling >= q.off THEN [r |-> SeekIn(q, q.lastSibling), loops |-> 0]
  ELSE [r |-> q, loops |-> 1]

-----------------------------------------------------------------------------
Init ==
  /\ units \in Sections
  /\ WellFormed
  /\ r = [unit |-> 1, off |-> units[1].off, err |-> FALSE,
          lastChildren |-> FALSE, lastSibling |-> 0]
  /\ depth = 0
  /\ got = {}
  /\ last = 0
  /\ op = "new"

(* The last call has returned. *)
Idle == depth = 0 /\ op # "scan"

Next ==
  LET x == NextIn(r) IN
  /\ Idle
  /\ r' = x.r
  /\ last' = IF x.e = Nil THEN 0 ELSE x.r.off - 1
  /\ op' = "next"
  /\ UNCHANGED <<units, depth, got>>

SkipChildren ==
  /\ Idle
  /\ r' = SkipIn(r).r
  /\ depth' = SkipIn(r).loops
  /\ op' = IF r.err \/ ~r.lastChildren THEN op ELSE "skip"
  /\ UNCHANGED <<units, got, last>>

(* A faulty variant: the children of children are not skipped. *)
SkipLoopFlat ==
  LET x == NextIn(r) IN
  /\ depth > 0
  /\ r' = x.r
  /\ depth' = IF x.e.tag \in {"nil", "null"} THEN depth - 1 ELSE depth
  /\ UNCHANGED <<units, got, last, op>>

(* The loop of the innermost call: an entry, and a call for its children. *)
SkipLoop ==
  LET x == NextIn(r) IN
  /\ depth > 0
  /\ \/ /\ x.e.tag \in {"nil", "null"}
        /\ r' = x.r
        /\ depth' = depth - 1
     \/ /\ x.e.tag \notin {"nil", "null"}
        /\ ~x.e.children
        /\ r' = x.r
        /\ UNCHANGED depth
     \/ /\ x.e.tag \notin {"nil", "null"}
        /\ x.e.children
        /\ r' = SkipIn(x.r).r
        /\ depth' = depth + SkipIn(x.r).loops
  /\ UNCHANGED <<units, got, last, op>>

(* Offsets come from entries returned before, and from their attributes. *)
Positions == UNION {Entries(k) : k \in DOMAIN units}

Seek(off) ==
  /\ Idle
  /\ r' = SeekIn(r, off)
  /\ op' = "seek"
  /\ UNCHANGED <<units, depth, got, last>>

(* walkStack: the parameters and variables from a function's entry to the  *)
(* first entry with tag 0.  The end of the section is not looked for there.*)
Scan(off) ==
  /\ Idle
  /\ r' = SeekIn(r, off)
  /\ got' = {}
  /\ last' = off
  /\ op' = "scan"
  /\ UNCHANGED <<units, depth>>

(* A faulty variant: the scan goes on to the end of the unit. *)
ScanLoopUnit ==
  LET x == NextIn(r) IN
  /\ op = "scan"
  /\ r' = x.r
  /\ got' = got \cup (IF x.e.tag = "var" THEN {x.r.off - 1} ELSE {})
  /\ op' = IF x.e.tag = "nil" THEN "scanned" ELSE op
  /\ UNCHANGED <<units, depth, last>>

ScanLoop ==
  LET x == NextIn(r) IN
  /\ op = "scan"
  /\ r' = x.r
  /\ got' = got \cup (IF x.e.tag = "var" THEN {x.r.off - 1} ELSE {})
  /\ op' = IF x.e.tag \in {"nil", "null"} THEN "scanned" ELSE op
  /\ UNCHANGED <<units, depth, last>>

Step == \/ Next
        \/ SkipChildren
        \/ SkipLoop
        \/ \E off \in Positions \cup {0} : Seek(off)
        \/ \E off \in Positions : Scan(off)
        \/ ScanLoop

Spec == Init /\ [][Step]_vars

-----------------------------------------------------------------------------
UnitOf(off) == CHOOSE k \in DOMAIN units : units[k].off <= off /\ off < UnitEnd(k)
SubtreeEnd(off) == EndIn(UnitOf(off), off)
HasBad(a, b) == \E o \in a..b : o \in Positions /\ EntryAt(UnitOf(o), o).tag = "bad"

(* The Reader stays inside the section. *)
TypeOK ==
  /\ r \in [unit : DOMAIN units, off : Nat, err : BOOLEAN, lastChildren : BOOLEAN, lastSibling : Nat]
  /\ r.off \in units[r.unit].off..UnitEnd(r.unit)
  /\ depth \in Nat
  /\ got \subseteq Positions
  /\ last \in Positions \cup {0}
  /\ op \in {"new", "next", "skip", "seek", "scan", "scanned"}

(* When SkipChildren returns, the Reader is behind the whole subtree of    *)
(* the entry that Next returned, with sibling attributes or without,       *)
(* whatever was read, skipped and sought before; it fails only on an entry *)
(* that cannot be decoded.                                                 *)
SkipsSubtree ==
  op = "skip" /\ depth = 0 =>
    IF r.err THEN HasBad(last, SubtreeEnd(last) - 1)
             ELSE r.off = SubtreeEnd(last) /\ r.unit = UnitOf(last)

(* Next returns the first entry at or after the Reader's offset, in this   *)
(* unit or in the next one that has any: no entry is left out.             *)
NextInOrder ==
  [][op' = "next" /\ ~r.err =>
       LET ahead == {o \in Positions : o >= r.off} IN
       IF ahead = {} THEN last' = 0 /\ ~r'.err
       ELSE IF r'.err THEN HasBad(Min(ahead), Min(ahead))
       ELSE last' = Min(ahead)]_vars

(* The scan of walkStack reports only parameters and variables of its      *)
(* function, and all of them if none is in a nested block.                 *)
ScanIsOwn ==
  op \in {"scan", "scanned"} /\ EntryAt(UnitOf(last), last).children =>
    LET tree == last..(SubtreeEnd(last) - 1)
        own == {o \in tree : EntryAt(UnitOf(last), o).tag = "var"}
        flat == \A o \in tree \ {last} : ~EntryAt(UnitOf(last), o).children
    IN /\ got \subseteq own
       /\ op = "scanned" /\ flat /\ ~HasBad(last, SubtreeEnd(last) - 1) => got = own
=============================================================================
