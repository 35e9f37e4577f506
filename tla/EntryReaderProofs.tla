-------------------------- MODULE EntryReaderProofs --------------------------
(***************************************************************************)
(* Proofs about the Reader of the info section, for every section that a   *)
(* compiler may write: any number of units, entries and levels.            *)
(***************************************************************************)
EXTENDS EntryReader, TLAPS, FiniteSetTheorems, WellFoundedInduction

-----------------------------------------------------------------------------
(* Least elements. *)
LEMMA FirstOf ==
  ASSUME NEW S, S \subseteq Nat, S # {}
  PROVE  Min(S) \in S /\ \A x \in S : Min(S) <= x
<1> DEFINE less == OpToRel(<, Nat)
<1>1. IsWellFoundedOn(less, Nat)
  BY NatLessThanWellFounded
<1>2. \A x, y \in S : x < y => <<x, y>> \in less
  BY DEF OpToRel
<1> HIDE DEF less
<1>3. PICK m \in S : \A x \in S : ~(<<x, m>> \in less)
  BY <1>1, WFMin
<1>4. \A x \in S : ~(x < m)
  BY <1>2, <1>3, Zenon
<1>5. \A x \in S : m <= x
  BY <1>4
<1>6. QED
  BY <1>3, <1>5, Zenon DEF Min

-----------------------------------------------------------------------------
(* How many numbers of T are between a and b. *)
Count(T, a, b) == Cardinality({o \in a..b : o \in T})

(* What is counted in an interval is counted in its two parts. *)
LEMMA CountInParts ==
  ASSUME NEW T, NEW a \in Int, NEW b \in Int, NEW c \in Int, a <= b + 1, b <= c
  PROVE  /\ Count(T, a, c) \in Nat /\ Count(T, a, b) \in Nat /\ Count(T, b + 1, c) \in Nat
         /\ Count(T, a, c) = Count(T, a, b) + Count(T, b + 1, c)
<1> DEFINE L == {o \in a..b : o \in T}
           R == {o \in (b + 1)..c : o \in T}
           W == {o \in a..c : o \in T}
<1>1. IsFiniteSet(a..b) /\ IsFiniteSet((b + 1)..c) /\ IsFiniteSet(a..c)
  <2>1. b + 1 \in Int
    OBVIOUS
  <2>2. QED
    BY <2>1, FS_Interval
<1>2. IsFiniteSet(L) /\ IsFiniteSet(R) /\ IsFiniteSet(W)
  <2>1. L \in SUBSET (a..b) /\ R \in SUBSET ((b + 1)..c) /\ W \in SUBSET (a..c)
    OBVIOUS
  <2>2. QED
    BY <1>1, <2>1, FS_Subset
<1>3. Cardinality(L) \in Nat /\ Cardinality(R) \in Nat /\ Cardinality(W) \in Nat
  BY <1>2, FS_CardinalityType
<1>4. W = L \cup R /\ L \cap R = {}
  OBVIOUS
<1> HIDE DEF L, R, W
<1>5. Cardinality(L \cup R) = Cardinality(L) + Cardinality(R) - Cardinality(L \cap R)
  BY <1>2, FS_Union
<1>6. Cardinality(W) = Cardinality(L) + Cardinality(R)
  BY <1>3, <1>4, <1>5, FS_EmptySet
<1>7. QED
  BY <1>3, <1>6, Zenon DEF L, R, W, Count

(* One number is counted or not. *)
LEMMA CountOne ==
  ASSUME NEW T, NEW a \in Int
  PROVE  Count(T, a, a) = IF a \in T THEN 1 ELSE 0
<1>1. CASE a \in T
  <2>1. {o \in a..a : o \in T} = {a}
    BY <1>1
  <2>2. QED
    BY <1>1, <2>1, FS_Singleton DEF Count
<1>2. CASE a \notin T
  <2>1. {o \in a..a : o \in T} = {}
    BY <1>2
  <2>2. QED
    BY <1>2, <2>1, FS_EmptySet DEF Count
<1>3. QED
  BY <1>1, <1>2

(* The entries with children, and those that end a list of children. *)
Opening(k) == {o \in Int : EntryAt(k, o).children}
Closing(k) == {o \in Int : EntryAt(k, o).tag = "null"}

LEMMA CountsAre ==
  ASSUME NEW k, NEW a \in Int, NEW b \in Int
  PROVE  /\ Opens(k, a, b) = Count(Opening(k), a, b)
         /\ Closes(k, a, b) = Count(Closing(k), a, b)
<1>1. /\ {o \in a..b : EntryAt(k, o).children} = {o \in a..b : o \in Opening(k)}
      /\ {o \in a..b : EntryAt(k, o).tag = "null"} = {o \in a..b : o \in Closing(k)}
  BY DEF Opening, Closing
<1>2. QED
  BY <1>1, Zenon DEF Opens, Closes, Count

(* How many entries with children are still open after the entry at b, of  *)
(* those from a on.                                                        *)
Level(k, a, b) == Opens(k, a, b) - Closes(k, a, b)

LEMMA LevelInParts ==
  ASSUME NEW k, NEW a \in Int, NEW b \in Int, NEW c \in Int, a <= b + 1, b <= c
  PROVE  /\ Level(k, a, c) \in Int /\ Level(k, a, b) \in Int /\ Level(k, b + 1, c) \in Int
         /\ Level(k, a, c) = Level(k, a, b) + Level(k, b + 1, c)
         /\ Level(k, a, c) = 0 <=> Opens(k, a, c) = Closes(k, a, c)
<1> DEFINE O == Opening(k)
           C == Closing(k)
<1>1. b + 1 \in Int
  OBVIOUS
<1>2. /\ Opens(k, a, c) = Count(O, a, c) /\ Closes(k, a, c) = Count(C, a, c)
      /\ Opens(k, a, b) = Count(O, a, b) /\ Closes(k, a, b) = Count(C, a, b)
      /\ Opens(k, b + 1, c) = Count(O, b + 1, c) /\ Closes(k, b + 1, c) = Count(C, b + 1, c)
  BY <1>1, CountsAre
<1> HIDE DEF O, C
<1>3. /\ Count(O, a, c) \in Nat /\ Count(O, a, b) \in Nat /\ Count(O, b + 1, c) \in Nat
      /\ Count(O, a, c) = Count(O, a, b) + Count(O, b + 1, c)
  BY CountInParts
<1>4. /\ Count(C, a, c) \in Nat /\ Count(C, a, b) \in Nat /\ Count(C, b + 1, c) \in Nat
      /\ Count(C, a, c) = Count(C, a, b) + Count(C, b + 1, c)
  BY CountInParts
<1>5. QED
  BY <1>2, <1>3, <1>4 DEF Level

LEMMA LevelOfOne ==
  ASSUME NEW k, NEW a \in Int, EntryAt(k, a).children => EntryAt(k, a).tag # "null"
  PROVE  Level(k, a, a) = IF EntryAt(k, a).children THEN 1
                          ELSE IF EntryAt(k, a).tag = "null" THEN -1 ELSE 0
<1>1. /\ Opens(k, a, a) = IF a \in Opening(k) THEN 1 ELSE 0
      /\ Closes(k, a, a) = IF a \in Closing(k) THEN 1 ELSE 0
  BY CountsAre, CountOne
<1>2. QED
  BY <1>1 DEF Level, Opening, Closing

-----------------------------------------------------------------------------
(* The sections. *)
LEMMA UnitFacts ==
  ASSUME WellFormed, NEW k \in DOMAIN units
  PROVE  /\ Len(units) \in Nat /\ DOMAIN units = 1..Len(units) /\ 1 \in DOMAIN units
         /\ units[k].off \in Nat \ {0} /\ UnitEnd(k) \in Nat /\ units[k].off <= UnitEnd(k)
         /\ Entries(k) \subseteq Nat \ {0}
         /\ \A o \in Entries(k) : EntryAt(k, o) \in EntryType
         /\ units[k].data = << >> <=> Entries(k) = {}
<1>1. /\ Len(units) \in Nat /\ DOMAIN units = 1..Len(units) /\ Len(units) # 0
      /\ units[k] \in [off : Nat \ {0}, data : Seq(EntryType)]
  <2> DEFINE UnitType == [off : Nat \ {0}, data : Seq(EntryType)]
  <2>1. units \in Seq(UnitType) /\ units # << >>
    BY DEF WellFormed
  <2> HIDE DEF UnitType
  <2>2. Len(units) \in Nat /\ DOMAIN units = 1..Len(units) /\ Len(units) # 0 /\ units[k] \in UnitType
    BY <2>1
  <2>3. QED
    BY <2>2 DEF UnitType
<1>2. /\ units[k].off \in Nat \ {0} /\ units[k].data \in Seq(EntryType)
      /\ Len(units[k].data) \in Nat
      /\ units[k].data = << >> <=> Len(units[k].data) = 0
  BY <1>1
<1>3. \A o \in Entries(k) : o - units[k].off + 1 \in 1..Len(units[k].data)
  BY <1>2 DEF Entries, UnitEnd
<1>4. \A o \in Entries(k) : EntryAt(k, o) \in EntryType
  BY <1>2, <1>3 DEF EntryAt
<1>5. QED
  BY <1>1, <1>2, <1>4 DEF Entries, UnitEnd

(* An offset is in one unit. *)
LEMMA UnitsDisjoint ==
  ASSUME WellFormed, NEW j \in DOMAIN units, NEW k \in DOMAIN units, NEW o,
         o \in Entries(k), units[j].off <= o, o < UnitEnd(j)
  PROVE  j = k
<1>1. /\ j \in Nat /\ k \in Nat /\ o \in Nat /\ units[k].off <= o /\ o < UnitEnd(k)
      /\ units[j].off \in Nat /\ units[k].off \in Nat /\ UnitEnd(j) \in Nat /\ UnitEnd(k) \in Nat
  BY UnitFacts DEF Entries
<1>2. /\ j < k => UnitEnd(j) <= units[k].off
      /\ k < j => UnitEnd(k) <= units[j].off
  BY DEF WellFormed
<1>3. QED
  BY <1>1, <1>2

LEMMA UnitOfEntry ==
  ASSUME WellFormed, NEW k \in DOMAIN units, NEW o \in Entries(k)
  PROVE  UnitOf(o) = k /\ o \in Positions /\ SubtreeEnd(o) = EndIn(k, o)
<1>1. units[k].off <= o /\ o < UnitEnd(k)
  BY UnitFacts DEF Entries
<1>2. /\ UnitOf(o) \in DOMAIN units
      /\ units[UnitOf(o)].off <= o /\ o < UnitEnd(UnitOf(o))
  BY <1>1, Zenon DEF UnitOf
<1>3. UnitOf(o) = k
  BY <1>2, UnitsDisjoint, Zenon
<1>4. QED
  BY <1>3 DEF SubtreeEnd, Positions

(* An entry with children: up to the end of its subtree, something is open. *)
LEMMA SubtreeLevels ==
  ASSUME WellFormed, NEW k \in DOMAIN units, NEW a \in Entries(k), EntryAt(k, a).children
  PROVE  /\ EndIn(k, a) - 1 \in Entries(k) /\ a < EndIn(k, a) - 1 /\ EndIn(k, a) \in Nat
         /\ Level(k, a, EndIn(k, a) - 1) = 0
         /\ EntryAt(k, EndIn(k, a) - 1).tag = "null"
         /\ \A o \in a..(EndIn(k, a) - 2) : Level(k, a, o) \in Int /\ Level(k, a, o) > 0
<1> DEFINE m == Min(Balanced(k, a))
<1>1. /\ a \in Nat /\ units[k].off \in Nat /\ UnitEnd(k) \in Nat
      /\ units[k].off <= a /\ a < UnitEnd(k)
  BY UnitFacts DEF Entries
<1>2. Balanced(k, a) \subseteq Nat /\ Balanced(k, a) # {}
  BY <1>1 DEF Balanced, WellFormed
<1>3. m \in Balanced(k, a) /\ \A o \in Balanced(k, a) : m <= o
  BY <1>2, FirstOf
<1>4. EndIn(k, a) = 1 + m
  BY DEF EndIn
<1> HIDE DEF m
<1>5. m \in a..(UnitEnd(k) - 1) /\ Opens(k, a, m) = Closes(k, a, m)
  BY <1>3 DEF Balanced
<1>6. m \in Nat /\ a <= m /\ m < UnitEnd(k)
  BY <1>1, <1>5
<1>7. ASSUME NEW o \in a..(UnitEnd(k) - 1)
      PROVE  /\ Level(k, a, o) \in Int
             /\ Level(k, a, o) = 0 <=> o \in Balanced(k, a)
  <2>1. o \in Int /\ a <= o + 1 /\ o <= o
    BY <1>1
  <2>2. Level(k, a, o) \in Int /\ (Level(k, a, o) = 0 <=> Opens(k, a, o) = Closes(k, a, o))
    BY <1>1, <2>1, LevelInParts
  <2>3. QED
    BY <2>2 DEF Balanced
<1>8. ASSUME NEW o \in a..(UnitEnd(k) - 1)
      PROVE  Level(k, o, o) \in Int /\ Level(k, o, o) >= -1
  <2>1. o \in Entries(k) /\ o \in Int
    BY <1>1 DEF Entries
  <2>2. EntryAt(k, o).children => EntryAt(k, o).tag # "null"
    BY <2>1 DEF WellFormed
  <2>3. QED
    BY <2>1, <2>2, LevelOfOne
<1>9. Level(k, a, a) = 1
  <2>1. EntryAt(k, a).tag # "null"
    BY DEF WellFormed
  <2>2. QED
    BY <1>1, <2>1, LevelOfOne
<1>10. a # m
  BY <1>1, <1>5, <1>7, <1>9, <1>3
<1>11. \A o \in a..(m - 1) : Level(k, a, o) > 0
  <2> DEFINE B == {o \in a..(m - 1) : ~(Level(k, a, o) > 0)}
  <2>1. SUFFICES ASSUME B # {}
                 PROVE  FALSE
    OBVIOUS
  <2>2. B \subseteq Nat
    BY <1>1, <1>6
  <2>3. PICK f \in B : \A o \in B : f <= o
    BY <2>1, <2>2, FirstOf, Zenon
  <2>4. f \in Nat /\ a <= f /\ f < m /\ ~(Level(k, a, f) > 0)
    BY <1>1, <1>6, <2>3
  <2>5. f # a
    BY <1>9, <2>4
  <2>6. f - 1 \in a..(m - 1) /\ f - 1 \notin B /\ f \in a..(UnitEnd(k) - 1) /\ f - 1 \in a..(UnitEnd(k) - 1)
    BY <1>1, <1>6, <2>3, <2>4, <2>5
  <2>7. Level(k, a, f - 1) > 0
    BY <2>6
  <2>8. Level(k, a, f) = Level(k, a, f - 1) + Level(k, (f - 1) + 1, f)
    <3>1. f - 1 \in Int /\ a <= (f - 1) + 1 /\ f - 1 <= f
      BY <1>1, <2>4
    <3>2. QED
      BY <1>1, <2>4, <3>1, LevelInParts
  <2>9. (f - 1) + 1 = f
    BY <2>4
  <2>10. Level(k, a, f) = 0
    BY <1>7, <1>8, <2>4, <2>6, <2>7, <2>8, <2>9
  <2>11. f \in Balanced(k, a)
    BY <1>7, <2>6, <2>10
  <2>12. QED
    BY <1>3, <1>6, <2>4, <2>11
<1>12. \A o \in a..(m - 1) : Level(k, a, o) \in Int
  BY <1>1, <1>6, <1>7
<1>13. Level(k, a, m) = 0
  BY <1>3, <1>5, <1>7
<1>14. EndIn(k, a) - 1 = m /\ EndIn(k, a) - 2 = m - 1
  BY <1>4, <1>6
<1>15. EntryAt(k, m).tag = "null"
  <2>1. m - 1 \in Int /\ a <= (m - 1) + 1 /\ m - 1 <= m /\ (m - 1) + 1 = m /\ m - 1 \in a..(m - 1)
    BY <1>1, <1>6, <1>10
  <2>2. Level(k, a, m) = Level(k, a, m - 1) + Level(k, (m - 1) + 1, m)
    BY <1>1, <1>6, <2>1, LevelInParts
  <2>3. Level(k, a, m - 1) > 0 /\ Level(k, a, m - 1) \in Int /\ Level(k, m, m) \in Int
    BY <1>5, <1>8, <1>11, <1>12, <2>1
  <2>4. Level(k, m, m) < 0
    BY <1>13, <2>1, <2>2, <2>3
  <2>5. EntryAt(k, m).children => EntryAt(k, m).tag # "null"
    <3>1. m \in Entries(k)
      BY <1>1, <1>6 DEF Entries
    <3>2. QED
      BY <3>1 DEF WellFormed
  <2>6. QED
    BY <1>6, <2>4, <2>5, LevelOfOne
<1>16. QED
  BY <1>1, <1>4, <1>6, <1>10, <1>11, <1>12, <1>13, <1>14, <1>15 DEF Entries

-----------------------------------------------------------------------------
(* The methods. *)

(* A Reader is inside the section. *)
Readers ==
  {q \in [unit : DOMAIN units, off : Nat, err : BOOLEAN, lastChildren : BOOLEAN, lastSibling : Nat] :
     q.off \in units[q.unit].off..UnitEnd(q.unit)}

(* What the Reader keeps of the last entry is about the one before its offset. *)
FreshIn(q) ==
  ~q.err /\ q.lastChildren =>
    /\ q.off - 1 \in Entries(q.unit)
    /\ EntryAt(q.unit, q.off - 1).children
    /\ q.lastSibling = EntryAt(q.unit, q.off - 1).sibling

(* Seek finds the entry at an offset. *)
LEMMA SeekFinds ==
  ASSUME WellFormed, NEW q, NEW k \in DOMAIN units, NEW o \in Entries(k)
  PROVE  SeekIn(q, o) = [q EXCEPT !.err = FALSE, !.lastChildren = FALSE, !.unit = k, !.off = o]
<1> DEFINE at == {j \in DOMAIN units : units[j].off <= o /\ o < UnitEnd(j)}
<1>1. o # 0 /\ units[k].off <= o /\ o < UnitEnd(k)
  BY UnitFacts DEF Entries
<1>2. \A j \in at : j = k
  BY UnitsDisjoint
<1>3. at = {k} /\ k \in Nat
  BY <1>1, <1>2, UnitFacts
<1> HIDE DEF at
<1>4. Min(at) = k
  BY <1>3, FirstOf
<1>5. at # {}
  BY <1>3
<1>6. QED
  BY <1>1, <1>4, <1>5 DEF SeekIn, at

(* Next inside a unit. *)
LEMMA NextInside ==
  ASSUME WellFormed, NEW q, ~q.err, q.unit \in DOMAIN units, q.off \in Entries(q.unit)
  PROVE  NextIn(q) =
           IF EntryAt(q.unit, q.off).tag = "bad" THEN [r |-> [q EXCEPT !.err = TRUE], e |-> Nil]
           ELSE [r |-> [q EXCEPT !.off = @ + 1,
                                 !.lastChildren = EntryAt(q.unit, q.off).children,
                                 !.lastSibling = IF EntryAt(q.unit, q.off).children
                                                 THEN EntryAt(q.unit, q.off).sibling ELSE @],
                 e |-> EntryAt(q.unit, q.off)]
<1>1. q.off < UnitEnd(q.unit) /\ q.off # UnitEnd(q.unit)
  BY UnitFacts DEF Entries
<1>2. MaybeNextUnit(q) = q
  BY <1>1 DEF MaybeNextUnit
<1>3. QED
  BY <1>1, <1>2, Zenon DEF NextIn

(* Next finds the first entry from the offset of the Reader on, which it   *)
(* may have to look for in a later unit; or it finds that there is none.   *)
NoneAhead(q, x) ==
  /\ \A p \in Positions : p < q.off
  /\ q.off = UnitEnd(q.unit)
  /\ x.e = Nil
  /\ x.r \in Readers
  /\ x.r.err = FALSE /\ x.r.lastChildren = q.lastChildren

Found(q, x, k, o) ==
  /\ q.off <= o
  /\ \A p \in Positions : p < q.off \/ o <= p
  /\ x.r \in Readers
  /\ x.r.unit = k
  /\ IF EntryAt(k, o).tag = "bad"
     THEN x.e = Nil /\ x.r.err = TRUE
     ELSE /\ x.e = EntryAt(k, o)
          /\ x.r.err = FALSE
          /\ x.r.off = o + 1
          /\ x.r.lastChildren = EntryAt(k, o).children
          /\ EntryAt(k, o).children => x.r.lastSibling = EntryAt(k, o).sibling

(* The entry at the offset of a Reader. *)
LEMMA NextFindsHere ==
  ASSUME WellFormed, NEW q \in Readers, ~q.err, q.off \in Entries(q.unit)
  PROVE  LET x == NextIn(q)
             e == EntryAt(q.unit, q.off)
         IN /\ x.r \in Readers
            /\ x.r.unit = q.unit
            /\ IF e.tag = "bad"
               THEN x.e = Nil /\ x.r.err = TRUE
               ELSE /\ x.e = e
                    /\ x.r.err = FALSE
                    /\ x.r.off = q.off + 1
                    /\ x.r.lastChildren = e.children
                    /\ e.children => x.r.lastSibling = e.sibling
<1> DEFINE e == EntryAt(q.unit, q.off)
           R == [unit : DOMAIN units, off : Nat, err : BOOLEAN, lastChildren : BOOLEAN, lastSibling : Nat]
           b == [q EXCEPT !.err = TRUE]
           g == [q EXCEPT !.off = @ + 1, !.lastChildren = e.children,
                          !.lastSibling = IF e.children THEN e.sibling ELSE @]
<1>1. /\ q \in R /\ q.unit \in DOMAIN units /\ q.off \in Nat /\ q.err = FALSE
      /\ q.lastChildren \in BOOLEAN /\ q.lastSibling \in Nat
      /\ units[q.unit].off <= q.off /\ q.off < UnitEnd(q.unit)
      /\ units[q.unit].off \in Nat /\ UnitEnd(q.unit) \in Nat
  BY UnitFacts DEF Readers, Entries
<1>2. e \in EntryType
  BY <1>1, UnitFacts
<1>3. e.children \in BOOLEAN /\ e.sibling \in Nat
  BY <1>2 DEF EntryType
<1>4. NextIn(q) = IF e.tag = "bad" THEN [r |-> b, e |-> Nil] ELSE [r |-> g, e |-> e]
  BY <1>1, NextInside
<1> HIDE DEF e
<1>5. b \in R /\ b.unit = q.unit /\ b.off = q.off /\ b.err = TRUE
  BY <1>1
<1>6. /\ g \in R /\ g.unit = q.unit /\ g.off = q.off + 1 /\ g.err = FALSE
      /\ g.lastChildren = e.children /\ (e.children => g.lastSibling = e.sibling)
  <2> DEFINE t == IF e.children THEN e.sibling ELSE q.lastSibling
  <2>1. t \in Nat /\ (e.children => t = e.sibling)
    BY <1>1, <1>3
  <2>2. g = [q EXCEPT !.off = q.off + 1, !.lastChildren = e.children, !.lastSibling = t]
    BY <1>1
  <2> HIDE DEF t, g
  <2>3. g.unit = q.unit /\ g.off = q.off + 1 /\ g.err = FALSE /\ g.lastSibling = t
    BY <1>1, <2>2
  <2>4. g.lastChildren = e.children
    BY <1>1, <2>2
  <2>5. g = [unit |-> q.unit, off |-> q.off + 1, err |-> FALSE, lastChildren |-> e.children, lastSibling |-> t]
    BY <1>1, <2>2
  <2>6. g \in R
    BY <1>1, <1>3, <2>1, <2>5
  <2>7. QED
    BY <2>1, <2>3, <2>4, <2>6
<1> HIDE DEF b, g
<1>7. b \in Readers /\ g \in Readers
  BY <1>1, <1>5, <1>6 DEF Readers
<1>8. CASE e.tag = "bad"
  <2>1. NextIn(q).r = b /\ NextIn(q).e = Nil
    BY <1>4, <1>8
  <2>2. QED
    BY <1>5, <1>7, <1>8, <2>1 DEF e
<1>9. CASE e.tag # "bad"
  <2>1. NextIn(q).r = g /\ NextIn(q).e = e
    BY <1>4, <1>9
  <2>2. QED
    BY <1>6, <1>7, <1>9, <2>1 DEF e
<1>10. QED
  BY <1>8, <1>9

(* The next unit that has an entry, if there is one. *)
LEMMA NextUnit ==
  ASSUME WellFormed, NEW q \in Readers, ~q.err, q.off = UnitEnd(q.unit), q.unit # Len(units)
  PROVE  \E k \in DOMAIN units :
           /\ MaybeNextUnit(q) = [q EXCEPT !.unit = k, !.off = units[k].off]
           /\ q.off <= units[k].off
           /\ \A p \in Positions : p < q.off \/ units[k].off <= p
           /\ Entries(k) = {} => \A p \in Positions : p < q.off
<1> DEFINE later == {k \in (q.unit + 1)..Len(units) : units[k].data # << >> \/ k = Len(units)}
<1>1. /\ q.unit \in DOMAIN units /\ q.off \in Nat
      /\ units[q.unit].off <= q.off
  BY UnitFacts DEF Readers
<1>2. /\ Len(units) \in Nat /\ DOMAIN units = 1..Len(units) /\ UnitEnd(q.unit) \in Nat
      /\ units[q.unit].off \in Nat
  BY <1>1, UnitFacts
<1>3. Len(units) \in later /\ later \subseteq Nat /\ later \subseteq DOMAIN units /\ later # {}
  BY <1>1, <1>2
<1>4. PICK m \in later : m = Min(later) /\ \A k \in later : m <= k
  BY <1>3, FirstOf
<1>5. MaybeNextUnit(q) = [q EXCEPT !.unit = m, !.off = units[m].off]
  <2>1. ~(q.off < UnitEnd(q.unit))
    BY <1>1
  <2>2. MaybeNextUnit(q) = [q EXCEPT !.unit = Min(later), !.off = units[Min(later)].off]
    BY <1>3, <2>1 DEF MaybeNextUnit
  <2>3. QED
    BY <1>4, <2>2
<1>6. m \in DOMAIN units /\ m \in Nat /\ q.unit \in Nat /\ q.unit < m
  <2>1. m \in (q.unit + 1)..Len(units)
    BY <1>4
  <2>2. q.unit \in 1..Len(units)
    BY <1>1, <1>2
  <2> HIDE DEF later
  <2>3. QED
    BY <1>2, <2>1, <2>2
<1>7. /\ units[m].off \in Nat /\ UnitEnd(m) \in Nat /\ units[m].off <= UnitEnd(m)
  BY <1>6, UnitFacts
<1>8. UnitEnd(q.unit) <= units[m].off
  BY <1>1, <1>6 DEF WellFormed
<1>9. ASSUME NEW k \in DOMAIN units, k < m, q.unit < k
      PROVE  Entries(k) = {}
  <2>1. k \notin later
    <3>1. k \in Nat /\ ~(m <= k)
      BY <1>2, <1>6, <1>9
    <3>2. QED
      BY <1>4, <3>1, Zenon
  <2>2. k \in (q.unit + 1)..Len(units)
    BY <1>2, <1>6, <1>9
  <2>3. units[k].data = << >>
    BY <2>1, <2>2
  <2>4. QED
    BY <2>3, UnitFacts
<1>10. Entries(m) = {} => m = Len(units)
  BY <1>4, <1>6, UnitFacts
<1> HIDE DEF later
<1>11. ASSUME NEW p \in Positions
       PROVE  /\ p < q.off \/ units[m].off <= p
              /\ Entries(m) = {} => p < q.off
  <2>1. PICK k \in DOMAIN units : p \in Entries(k)
    BY DEF Positions
  <2>2. /\ units[k].off <= p /\ p < UnitEnd(k) /\ units[k].off \in Nat /\ UnitEnd(k) \in Nat
        /\ k \in Nat /\ p \in Nat
    BY <2>1, UnitFacts DEF Entries
  <2>3. /\ k > m => UnitEnd(m) <= units[k].off
        /\ k < q.unit => UnitEnd(k) <= units[q.unit].off
    BY <1>1, <1>6 DEF WellFormed
  <2>4. ~(k < m /\ q.unit < k) /\ (Entries(m) = {} => k # m)
    BY <1>9, <2>1
  <2>5. Entries(m) = {} => ~(k > m)
    BY <1>2, <1>10, <2>2
  <2>6. CASE k > m
    BY <1>7, <2>2, <2>3, <2>5, <2>6
  <2>7. CASE k = m
    BY <2>2, <2>4, <2>7
  <2>8. CASE k < q.unit
    BY <1>1, <1>2, <2>2, <2>3, <2>8
  <2>9. CASE k = q.unit
    BY <1>1, <2>2, <2>9
  <2>10. QED
    BY <1>6, <2>2, <2>4, <2>6, <2>7, <2>8, <2>9
<1>12. q.off <= units[m].off
  BY <1>8
<1>13. QED
  BY <1>5, <1>6, <1>11, <1>12

LEMMA NextFinds ==
  ASSUME WellFormed, NEW q \in Readers, ~q.err
  PROVE  \/ NoneAhead(q, NextIn(q))
         \/ \E k \in DOMAIN units : \E o \in Entries(k) : Found(q, NextIn(q), k, o)
<1> DEFINE R == [unit : DOMAIN units, off : Nat, err : BOOLEAN, lastChildren : BOOLEAN, lastSibling : Nat]
<1>1. /\ q \in R /\ q.unit \in DOMAIN units /\ q.off \in Nat /\ q.err = FALSE
      /\ units[q.unit].off <= q.off /\ q.off <= UnitEnd(q.unit)
  BY UnitFacts DEF Readers
<1>2. /\ Len(units) \in Nat /\ DOMAIN units = 1..Len(units) /\ UnitEnd(q.unit) \in Nat
      /\ units[q.unit].off \in Nat
  BY <1>1, UnitFacts
<1>3. ASSUME NEW p \in Positions
      PROVE  \E k \in DOMAIN units : p \in Entries(k) /\ p \in Nat /\ p < UnitEnd(k) /\ UnitEnd(k) \in Nat
  <2>1. PICK k \in DOMAIN units : p \in Entries(k)
    BY DEF Positions
  <2>2. QED
    BY <2>1, UnitFacts DEF Entries
<1>4. CASE q.off < UnitEnd(q.unit)
  <2>1. q.off \in Entries(q.unit)
    BY <1>1, <1>2, <1>4 DEF Entries
  <2>2. \A p \in Positions : p < q.off \/ q.off <= p
    BY <1>1, <1>3
  <2>3. Found(q, NextIn(q), q.unit, q.off)
    <3>1. q.off <= q.off /\ q.off \in Nat
      BY <1>1
    <3>2. QED
      BY <2>1, <2>2, <3>1, NextFindsHere, Zenon DEF Found
  <2>4. QED
    BY <1>1, <2>1, <2>3
<1>5. CASE q.off = UnitEnd(q.unit) /\ q.unit = Len(units)
  <2>1. (q.unit + 1)..Len(units) = {}
    BY <1>1, <1>2, <1>5
  <2>2. MaybeNextUnit(q) = q
    BY <2>1 DEF MaybeNextUnit
  <2>3. NextIn(q) = [r |-> q, e |-> Nil]
    BY <1>1, <1>5, <2>2, Zenon DEF NextIn
  <2>4. ASSUME NEW p \in Positions
        PROVE  p < q.off
    <3>1. PICK k \in DOMAIN units : p \in Entries(k) /\ p \in Nat /\ p < UnitEnd(k) /\ UnitEnd(k) \in Nat
      BY <1>3
    <3>2. k < q.unit => UnitEnd(k) <= units[q.unit].off
      BY <1>1 DEF WellFormed
    <3>3. QED
      BY <1>1, <1>2, <1>5, <3>1, <3>2
  <2>5. QED
    BY <1>1, <1>5, <2>3, <2>4 DEF NoneAhead
<1>6. CASE q.off = UnitEnd(q.unit) /\ q.unit # Len(units)
  <2>1. PICK k \in DOMAIN units :
          /\ MaybeNextUnit(q) = [q EXCEPT !.unit = k, !.off = units[k].off]
          /\ q.off <= units[k].off
          /\ \A p \in Positions : p < q.off \/ units[k].off <= p
          /\ Entries(k) = {} => \A p \in Positions : p < q.off
    BY <1>6, NextUnit
  <2> DEFINE n == [q EXCEPT !.unit = k, !.off = units[k].off]
  <2>2. /\ units[k].off \in Nat /\ UnitEnd(k) \in Nat /\ units[k].off <= UnitEnd(k)
    BY UnitFacts
  <2>3. /\ n \in R /\ n.unit = k /\ n.off = units[k].off /\ n.err = FALSE
        /\ n.lastChildren = q.lastChildren
    BY <1>1, <2>2
  <2>4. MaybeNextUnit(q) = n
    BY <2>1
  <2> HIDE DEF n
  <2>5. n \in Readers
    BY <2>2, <2>3 DEF Readers
  <2>6. CASE Entries(k) = {}
    <3>1. units[k].off = UnitEnd(k)
      BY <2>2, <2>6 DEF Entries
    <3>2. NextIn(q) = [r |-> n, e |-> Nil]
      BY <1>1, <2>3, <2>4, <3>1, Zenon DEF NextIn
    <3>3. NextIn(q).r = n /\ NextIn(q).e = Nil
      BY <3>2
    <3>4. QED
      BY <1>6, <2>1, <2>3, <2>5, <2>6, <3>3, Zenon DEF NoneAhead
  <2>7. CASE Entries(k) # {}
    <3>1. units[k].off \in Entries(k) /\ units[k].off # UnitEnd(k) /\ units[k].off < UnitEnd(k)
      BY <2>2, <2>7 DEF Entries
    <3>2. MaybeNextUnit(n) = n
      BY <2>3, <3>1 DEF MaybeNextUnit
    <3>3. NextIn(q) = NextIn(n)
      BY <1>1, <2>3, <2>4, <3>1, <3>2, Zenon DEF NextIn
    <3>4. Found(q, NextIn(n), k, units[k].off)
      <4>1. n.off \in Entries(n.unit) /\ ~n.err
        BY <2>3, <3>1
      <4>2. QED
        BY <2>1, <2>3, <2>5, <4>1, NextFindsHere DEF Found
    <3>5. QED
      BY <3>1, <3>3, <3>4
  <2>8. QED
    BY <2>6, <2>7
<1>7. QED
  BY <1>1, <1>2, <1>4, <1>5, <1>6

(* What Next leaves behind. *)
LEMMA NextKeeps ==
  ASSUME WellFormed, NEW q \in Readers, FreshIn(q)
  PROVE  LET x == NextIn(q)
         IN /\ x.r \in Readers
            /\ FreshIn(x.r)
            /\ x.e.tag = "nil" => x.e = Nil
            /\ x.e.tag # "nil" => x.r.off - 1 \in Positions /\ x.r.err = FALSE
            /\ ~x.r.err /\ x.r.lastChildren => x.e.tag \notin {"nil", "null"}
<1> DEFINE x == NextIn(q)
<1>1. Nil.tag = "nil"
  BY DEF Nil
<1>2. CASE q.err
  <2>1. NextIn(q) = [r |-> q, e |-> Nil]
    BY <1>2 DEF NextIn
  <2>2. x.r = q /\ x.e = Nil
    BY <2>1
  <2>3. QED
    BY <1>1, <1>2, <2>2 DEF FreshIn
<1>3. CASE ~q.err /\ NoneAhead(q, NextIn(q))
  <2>1. ~q.lastChildren
    <3>1. SUFFICES ASSUME q.lastChildren
                   PROVE  FALSE
      OBVIOUS
    <3>2. /\ q.unit \in DOMAIN units /\ q.off - 1 \in Entries(q.unit)
          /\ EntryAt(q.unit, q.off - 1).children /\ q.off \in Nat
      BY <1>3, <3>1 DEF FreshIn, Readers
    <3>3. /\ EndIn(q.unit, q.off - 1) - 1 \in Entries(q.unit)
          /\ q.off - 1 < EndIn(q.unit, q.off - 1) - 1 /\ EndIn(q.unit, q.off - 1) \in Nat
      BY <3>2, SubtreeLevels
    <3>4. EndIn(q.unit, q.off - 1) - 1 < q.off
      BY <1>3, <3>2, <3>3 DEF NoneAhead, Positions
    <3>5. QED
      BY <3>2, <3>3, <3>4
  <2>2. x.r \in Readers /\ x.e = Nil /\ x.r.lastChildren = FALSE
    <3>1. q.lastChildren \in BOOLEAN
      BY DEF Readers
    <3>2. QED
      BY <1>3, <2>1, <3>1 DEF NoneAhead
  <2> HIDE DEF x
  <2>3. FreshIn(x.r)
    BY <2>2 DEF FreshIn
  <2>4. QED
    BY <1>1, <2>2, <2>3 DEF x
<1>4. ASSUME ~q.err, NEW k \in DOMAIN units, NEW o \in Entries(k), Found(q, x, k, o)
      PROVE  /\ x.r \in Readers
             /\ FreshIn(x.r)
             /\ x.e.tag = "nil" => x.e = Nil
             /\ x.e.tag # "nil" => x.r.off - 1 \in Positions /\ x.r.err = FALSE
             /\ ~x.r.err /\ x.r.lastChildren => x.e.tag \notin {"nil", "null"}
  <2> HIDE DEF x
  <2>1. x.r \in Readers /\ x.r.unit = k
    BY <1>4 DEF Found
  <2>2. CASE EntryAt(k, o).tag = "bad"
    <3>1. x.e = Nil /\ x.r.err = TRUE
      BY <1>4, <2>2 DEF Found
    <3>2. QED
      BY <1>1, <2>1, <3>1 DEF FreshIn
  <2>3. CASE EntryAt(k, o).tag # "bad"
    <3>1. /\ x.e = EntryAt(k, o) /\ x.r.err = FALSE /\ x.r.off = o + 1
          /\ x.r.lastChildren = EntryAt(k, o).children
          /\ EntryAt(k, o).children => x.r.lastSibling = EntryAt(k, o).sibling
      BY <1>4, <2>3 DEF Found
    <3>2. o \in Nat /\ o + 1 - 1 = o /\ o \in Positions /\ EntryAt(k, o) \in EntryType
      BY UnitFacts DEF Positions
    <3>3. EntryAt(k, o).tag # "nil"
      BY <3>2 DEF EntryType
    <3>4. EntryAt(k, o).children => EntryAt(k, o).tag = "block"
      BY DEF WellFormed
    <3>5. x.r.off - 1 = o
      BY <3>1, <3>2
    <3>6. FreshIn(x.r)
      BY <2>1, <3>1, <3>5 DEF FreshIn
    <3>7. QED
      BY <2>1, <3>1, <3>2, <3>3, <3>4, <3>5, <3>6
  <2>4. QED
    BY <2>2, <2>3
<1>5. QED
  <2>1. \/ q.err
        \/ ~q.err /\ NoneAhead(q, x)
        \/ ~q.err /\ \E k \in DOMAIN units : \E o \in Entries(k) : Found(q, x, k, o)
    BY NextFinds, Zenon
  <2>2. CASE ~q.err /\ \E k \in DOMAIN units : \E o \in Entries(k) : Found(q, x, k, o)
    <3>1. PICK k \in DOMAIN units : \E o \in Entries(k) : Found(q, x, k, o)
      BY <2>2, Zenon
    <3>2. PICK o \in Entries(k) : Found(q, x, k, o)
      BY <3>1, Zenon
    <3>3. QED
      BY <1>4, <2>2, <3>2, Zenon
  <2>3. QED
    BY <1>2, <1>3, <2>1, <2>2, Zenon

(* SkipChildren after an entry with children: its loop is to come, or a    *)
(* sibling attribute has led it to the end of the subtree.                 *)
LEMMA SkipCases ==
  ASSUME WellFormed, NEW q \in Readers, ~q.err, q.lastChildren, FreshIn(q)
  PROVE  LET y == SkipIn(q)
             end == EndIn(q.unit, q.off - 1)
         IN \/ y.r = q /\ y.loops = 1
            \/ /\ y.loops = 0
               /\ y.r \in Readers
               /\ y.r.unit = q.unit /\ y.r.off = end /\ end \in Entries(q.unit)
               /\ y.r.err = FALSE /\ y.r.lastChildren = FALSE
<1> DEFINE a == q.off - 1
           end == EndIn(q.unit, a)
           s == [q EXCEPT !.err = FALSE, !.lastChildren = FALSE, !.unit = q.unit, !.off = end]
           R == [unit : DOMAIN units, off : Nat, err : BOOLEAN, lastChildren : BOOLEAN, lastSibling : Nat]
<1>1. /\ q \in R /\ q.unit \in DOMAIN units /\ q.off \in Nat /\ q.lastSibling \in Nat
      /\ a \in Entries(q.unit) /\ EntryAt(q.unit, a).children
      /\ q.lastSibling = EntryAt(q.unit, a).sibling
  BY DEF Readers, FreshIn
<1>2. CASE q.lastSibling >= q.off
  <2>1. q.off # 0
    <3>1. a \in Nat
      BY <1>1, UnitFacts
    <3>2. QED
      BY <1>1, <3>1
  <2>2. q.lastSibling = end /\ end < UnitEnd(q.unit)
    <3>1. EntryAt(q.unit, a).sibling # 0
      BY <1>1, <1>2, <2>1
    <3>2. QED
      BY <1>1, <3>1 DEF WellFormed
  <2>3. end - 1 \in Entries(q.unit) /\ end \in Nat
    BY <1>1, SubtreeLevels
  <2>4. end \in Entries(q.unit)
    <3>1. units[q.unit].off \in Nat /\ UnitEnd(q.unit) \in Nat
      BY <1>1, UnitFacts
    <3> HIDE DEF end
    <3>2. QED
      BY <2>2, <2>3, <3>1 DEF Entries
  <2>5. SeekIn(q, end) = s
    <3> HIDE DEF end
    <3>1. \A j \in DOMAIN units : \A o \in Entries(j) :
            SeekIn(q, o) = [q EXCEPT !.err = FALSE, !.lastChildren = FALSE, !.unit = j, !.off = o]
      BY SeekFinds
    <3>2. QED
      BY <1>1, <2>4, <3>1, Zenon
  <2>6. SkipIn(q) = [r |-> s, loops |-> 0]
    BY <1>2, <2>2, <2>5 DEF SkipIn
  <2> HIDE DEF end
  <2>7. s \in R /\ s.unit = q.unit /\ s.off = end /\ s.err = FALSE /\ s.lastChildren = FALSE
    BY <1>1, <2>3
  <2>8. SkipIn(q).r = s /\ SkipIn(q).loops = 0
    BY <2>6
  <2>9. units[q.unit].off \in Nat /\ UnitEnd(q.unit) \in Nat
    BY <1>1, UnitFacts
  <2> HIDE DEF s
  <2>10. s.off \in units[q.unit].off..UnitEnd(q.unit)
    BY <2>4, <2>7, <2>9 DEF Entries
  <2>11. s \in Readers
    BY <2>7, <2>10 DEF Readers
  <2>12. QED
    BY <2>4, <2>7, <2>8, <2>11 DEF end
<1>3. CASE ~(q.lastSibling >= q.off)
  <2>1. SkipIn(q) = [r |-> q, loops |-> 1]
    BY <1>3 DEF SkipIn
  <2>2. QED
    BY <2>1
<1>4. QED
  BY <1>2, <1>3

-----------------------------------------------------------------------------
(* The inductive invariant, of a Reader q, the depth d of SkipChildren,    *)
(* the variables g found by a scan, the last entry l and the last call c.  *)

(* An entry of the unit cannot be decoded. *)
BadIn(k, a, b) == \E o \in a..b : o \in Entries(k) /\ EntryAt(k, o).tag = "bad"

InSection(q, d, g, l, c) ==
  /\ q \in Readers
  /\ d \in Nat
  /\ g \subseteq Positions
  /\ l \in Positions \cup {0}
  /\ c \in {"new", "next", "skip", "seek", "scan", "scanned"}

(* Between calls, SkipChildren has something to do only after Next. *)
Current(q, d, l, c) ==
  d = 0 /\ c # "scan" /\ ~q.err /\ q.lastChildren => c = "next" /\ l = q.off - 1

(* The calls of SkipChildren in progress are as many as the entries that   *)
(* are open, and the first entry has been open all the time.               *)
Skipping(q, d, l, c) ==
  d > 0 =>
    /\ c = "skip"
    /\ \E k \in DOMAIN units :
         /\ l \in Entries(k)
         /\ EntryAt(k, l).children
         /\ IF q.err THEN BadIn(k, l, EndIn(k, l) - 1)
            ELSE /\ q.unit = k
                 /\ l < q.off
                 /\ d = Level(k, l, q.off - 1)
                 /\ \A o \in l..(q.off - 1) : Level(k, l, o) # 0

Skipped(q, d, l, c) ==
  c = "skip" /\ d = 0 =>
    \E k \in DOMAIN units :
      /\ l \in Entries(k)
      /\ IF q.err THEN BadIn(k, l, EndIn(k, l) - 1)
         ELSE q.off = EndIn(k, l) /\ q.unit = k

(* A scan has seen no null entry yet. *)
Scanning(q, g, l, c) ==
  c = "scan" =>
    /\ ~q.err
    /\ \A k \in DOMAIN units :
         l \in Entries(k) /\ EntryAt(k, l).children =>
           /\ q.unit = k
           /\ l <= q.off
           /\ \A o \in l..(q.off - 1) : EntryAt(k, o).tag # "null"
           /\ g = {o \in l..(q.off - 1) : EntryAt(k, o).tag = "var"}

Own(k, l) == {o \in l..(EndIn(k, l) - 1) : EntryAt(k, o).tag = "var"}
Flat(k, l) == \A o \in (l..(EndIn(k, l) - 1)) \ {l} : ~EntryAt(k, o).children

Scanned(g, l, c) ==
  c \in {"scan", "scanned"} =>
    /\ l # 0
    /\ \A k \in DOMAIN units :
         l \in Entries(k) /\ EntryAt(k, l).children =>
           /\ g \subseteq Own(k, l)
           /\ c = "scanned" /\ Flat(k, l) /\ ~BadIn(k, l, EndIn(k, l) - 1) => g = Own(k, l)

Good(q, d, g, l, c) ==
  /\ InSection(q, d, g, l, c)
  /\ FreshIn(q)
  /\ Current(q, d, l, c)
  /\ Skipping(q, d, l, c)
  /\ Skipped(q, d, l, c)
  /\ Scanning(q, g, l, c)
  /\ Scanned(g, l, c)

ReaderInv == WellFormed /\ Good(r, depth, got, last, op)

(* One lemma for each action. *)
LEMMA NextGood ==
  ASSUME WellFormed, NEW q, NEW g, NEW l, NEW c, Good(q, 0, g, l, c)
  PROVE  LET x == NextIn(q)
         IN Good(x.r, 0, g, IF x.e = Nil THEN 0 ELSE x.r.off - 1, "next")
<1> DEFINE x == NextIn(q)
           z == IF x.e = Nil THEN 0 ELSE x.r.off - 1
<1>1. q \in Readers /\ FreshIn(q) /\ g \subseteq Positions
  BY DEF Good, InSection
<1>2. /\ x.r \in Readers /\ FreshIn(x.r)
      /\ x.e.tag = "nil" => x.e = Nil
      /\ x.e.tag # "nil" => x.r.off - 1 \in Positions
      /\ ~x.r.err /\ x.r.lastChildren => x.e.tag \notin {"nil", "null"}
  BY <1>1, NextKeeps, Zenon
<1> HIDE DEF x
<1>3. Nil.tag = "nil"
  BY DEF Nil
<1>4. InSection(x.r, 0, g, z, "next")
  BY <1>1, <1>2 DEF InSection
<1>5. Current(x.r, 0, z, "next")
  BY <1>2, <1>3 DEF Current
<1>6. /\ Skipping(x.r, 0, z, "next") /\ Skipped(x.r, 0, z, "next")
      /\ Scanning(x.r, g, z, "next") /\ Scanned(g, z, "next")
  BY DEF Skipping, Skipped, Scanning, Scanned
<1>7. QED
  BY <1>2, <1>4, <1>5, <1>6, Zenon DEF Good, x

LEMMA SkipGood ==
  ASSUME WellFormed, NEW q, NEW g, NEW l, NEW c, Good(q, 0, g, l, c), c # "scan"
  PROVE  LET y == SkipIn(q)
         IN Good(y.r, y.loops, g, l, IF q.err \/ ~q.lastChildren THEN c ELSE "skip")
<1> DEFINE y == SkipIn(q)
<1>1. /\ q \in Readers /\ FreshIn(q) /\ g \subseteq Positions /\ l \in Positions \cup {0}
      /\ Current(q, 0, l, c)
  BY DEF Good, InSection
<1>2. CASE q.err \/ ~q.lastChildren
  <2>1. SkipIn(q) = [r |-> q, loops |-> 0]
    BY <1>2 DEF SkipIn
  <2>2. y.r = q /\ y.loops = 0
    BY <2>1
  <2>3. QED
    BY <1>2, <2>2, Zenon
<1>3. CASE ~q.err /\ q.lastChildren
  <2> DEFINE k == q.unit
  <2>1. l = q.off - 1
    BY <1>1, <1>3 DEF Current
  <2>2. k \in DOMAIN units /\ l \in Entries(k) /\ EntryAt(k, l).children /\ q.off \in Nat
    BY <1>1, <1>3, <2>1 DEF FreshIn, Readers
  <2>3. l \in Int /\ l < q.off
    BY <2>1, <2>2
  <2>4. Level(k, l, l) = 1
    <3>1. EntryAt(k, l).tag # "null"
      BY <2>2 DEF WellFormed
    <3>2. QED
      BY <2>2, <2>3, <3>1, LevelOfOne
  <2>5. CASE y.r = q /\ y.loops = 1
    <3>1. InSection(q, 1, g, l, "skip") /\ Current(q, 1, l, "skip")
      BY <1>1 DEF InSection, Current
    <3>2. Skipping(q, 1, l, "skip")
      <4>1. 1 = Level(k, l, q.off - 1)
        BY <2>1, <2>4
      <4>2. \A o \in l..(q.off - 1) : o = l
        BY <2>1, <2>2
      <4>3. QED
        BY <1>3, <2>2, <2>3, <2>4, <4>1, <4>2 DEF Skipping
    <3>3. Skipped(q, 1, l, "skip") /\ Scanning(q, g, l, "skip") /\ Scanned(g, l, "skip")
      BY DEF Skipped, Scanning, Scanned
    <3>4. Good(q, 1, g, l, "skip")
      BY <1>1, <3>1, <3>2, <3>3, Zenon DEF Good
    <3>5. QED
      BY <1>3, <2>5, <3>4, Zenon
  <2>6. CASE /\ y.loops = 0
             /\ y.r \in Readers
             /\ y.r.unit = k /\ y.r.off = EndIn(k, q.off - 1)
             /\ y.r.err = FALSE /\ y.r.lastChildren = FALSE
    <3> HIDE DEF y
    <3>1. InSection(y.r, 0, g, l, "skip") /\ Current(y.r, 0, l, "skip") /\ FreshIn(y.r)
      BY <1>1, <2>6 DEF InSection, Current, FreshIn
    <3>2. Skipped(y.r, 0, l, "skip")
      BY <2>1, <2>2, <2>6, Zenon DEF Skipped
    <3>3. Skipping(y.r, 0, l, "skip") /\ Scanning(y.r, g, l, "skip") /\ Scanned(g, l, "skip")
      BY DEF Skipping, Scanning, Scanned
    <3>4. Good(y.r, 0, g, l, "skip")
      BY <3>1, <3>2, <3>3, Zenon DEF Good
    <3>5. QED
      BY <1>3, <2>6, <3>4, Zenon DEF y
  <2>7. QED
    BY <1>1, <1>3, <2>5, <2>6, SkipCases, Zenon
<1>4. QED
  BY <1>2, <1>3

(* Seek and the start of a scan. *)
LEMMA SeekIs ==
  ASSUME WellFormed, NEW q \in Readers, NEW off \in Positions \cup {0}
  PROVE  LET s == SeekIn(q, off)
         IN /\ s \in Readers /\ s.err = FALSE /\ s.lastChildren = FALSE
            /\ \A k \in DOMAIN units : off \in Entries(k) => s.unit = k /\ s.off = off
<1> DEFINE R == [unit : DOMAIN units, off : Nat, err : BOOLEAN, lastChildren : BOOLEAN, lastSibling : Nat]
<1>1. q \in R
  BY DEF Readers
<1>2. ASSUME NEW k \in DOMAIN units, off \in Entries(k)
      PROVE  LET s == SeekIn(q, off)
             IN s \in Readers /\ s.err = FALSE /\ s.lastChildren = FALSE /\ s.unit = k /\ s.off = off
  <2> DEFINE s == [q EXCEPT !.err = FALSE, !.lastChildren = FALSE, !.unit = k, !.off = off]
  <2>1. SeekIn(q, off) = s
    <3>1. \A j \in DOMAIN units : \A o \in Entries(j) :
            SeekIn(q, o) = [q EXCEPT !.err = FALSE, !.lastChildren = FALSE, !.unit = j, !.off = o]
      BY SeekFinds
    <3>2. QED
      BY <1>2, <3>1, Zenon
  <2>2. off \in Nat /\ off \in units[k].off..UnitEnd(k)
    BY <1>2, UnitFacts DEF Entries
  <2>3. s \in R /\ s.err = FALSE /\ s.lastChildren = FALSE /\ s.unit = k /\ s.off = off
    BY <1>1, <2>2
  <2> HIDE DEF s
  <2>4. s \in Readers
    BY <2>2, <2>3 DEF Readers
  <2>5. QED
    BY <2>1, <2>3, <2>4
<1>3. CASE off \in Positions
  <2>1. PICK k \in DOMAIN units : off \in Entries(k)
    BY <1>3 DEF Positions
  <2>2. QED
    BY <1>2, <2>1, Zenon
<1>4. CASE off = 0
  <2> DEFINE s == [q EXCEPT !.err = FALSE, !.lastChildren = FALSE, !.unit = 1, !.off = units[1].off]
  <2>1. SeekIn(q, off) = s
    BY <1>4 DEF SeekIn
  <2>2. 1 \in DOMAIN units
    BY UnitFacts DEF Readers
  <2>3. units[1].off \in Nat /\ units[1].off <= UnitEnd(1) /\ UnitEnd(1) \in Nat
    BY <2>2, UnitFacts
  <2>4. s \in R /\ s.err = FALSE /\ s.lastChildren = FALSE /\ s.unit = 1 /\ s.off = units[1].off
    BY <1>1, <2>2, <2>3
  <2>5. \A k \in DOMAIN units : off \notin Entries(k)
    BY <1>4, UnitFacts
  <2> HIDE DEF s
  <2>6. s \in Readers
    BY <2>3, <2>4 DEF Readers
  <2>7. QED
    BY <2>1, <2>4, <2>5, <2>6
<1>5. QED
  BY <1>3, <1>4

LEMMA SeekGood ==
  ASSUME WellFormed, NEW q, NEW g, NEW l, NEW c, Good(q, 0, g, l, c), NEW off \in Positions \cup {0}
  PROVE  Good(SeekIn(q, off), 0, g, l, "seek")
<1> DEFINE s == SeekIn(q, off)
<1>1. q \in Readers /\ g \subseteq Positions /\ l \in Positions \cup {0}
  BY DEF Good, InSection
<1>2. s \in Readers /\ s.err = FALSE /\ s.lastChildren = FALSE
  BY <1>1, SeekIs, Zenon
<1> HIDE DEF s
<1>3. InSection(s, 0, g, l, "seek") /\ FreshIn(s) /\ Current(s, 0, l, "seek")
  BY <1>1, <1>2 DEF InSection, FreshIn, Current
<1>4. Skipping(s, 0, l, "seek") /\ Skipped(s, 0, l, "seek") /\ Scanning(s, g, l, "seek") /\ Scanned(g, l, "seek")
  BY DEF Skipping, Skipped, Scanning, Scanned
<1>5. QED
  BY <1>3, <1>4, Zenon DEF Good, s

LEMMA ScanGood ==
  ASSUME WellFormed, NEW q, NEW g, NEW l, NEW c, Good(q, 0, g, l, c), NEW off \in Positions
  PROVE  Good(SeekIn(q, off), 0, {}, off, "scan")
<1> DEFINE s == SeekIn(q, off)
<1>1. q \in Readers
  BY DEF Good, InSection
<1>2. /\ s \in Readers /\ s.err = FALSE /\ s.lastChildren = FALSE
      /\ \A k \in DOMAIN units : off \in Entries(k) => s.unit = k /\ s.off = off
  BY <1>1, SeekIs, Zenon
<1> HIDE DEF s
<1>3. InSection(s, 0, {}, off, "scan") /\ FreshIn(s) /\ Current(s, 0, off, "scan")
  BY <1>2 DEF InSection, FreshIn, Current
<1>4. Skipping(s, 0, off, "scan") /\ Skipped(s, 0, off, "scan")
  BY DEF Skipping, Skipped
<1>5. off \in Nat \ {0}
  BY UnitFacts DEF Positions
<1>6. Scanned({}, off, "scan")
  BY <1>5 DEF Scanned
<1>7. Scanning(s, {}, off, "scan")
  <2>1. off..(off - 1) = {}
    BY <1>5
  <2>2. QED
    BY <1>2, <1>5, <2>1 DEF Scanning
<1>8. QED
  BY <1>3, <1>4, <1>6, <1>7, Zenon DEF Good, s

(* While a call is in its loop, the Reader is inside the subtree. *)
LEMMA SkippingInside ==
  ASSUME WellFormed, NEW k \in DOMAIN units, NEW l \in Entries(k), EntryAt(k, l).children,
         NEW n \in Nat, l < n, \A o \in l..(n - 1) : Level(k, l, o) # 0
  PROVE  /\ n \in Entries(k) /\ n < EndIn(k, l)
         /\ Level(k, l, n - 1) \in Int /\ Level(k, n, n) \in Int /\ Level(k, l, n) \in Int
         /\ Level(k, l, n) = Level(k, l, n - 1) + Level(k, n, n)
         /\ Level(k, l, n) = 0 => n = EndIn(k, l) - 1
<1> DEFINE E == EndIn(k, l)
<1>1. /\ E - 1 \in Entries(k) /\ l < E - 1 /\ E \in Nat /\ Level(k, l, E - 1) = 0
      /\ \A o \in l..(E - 2) : Level(k, l, o) > 0
  BY SubtreeLevels
<1> HIDE DEF E
<1>2. /\ l \in Nat /\ units[k].off \in Nat /\ UnitEnd(k) \in Nat
      /\ units[k].off <= l /\ l < UnitEnd(k) /\ E - 1 < UnitEnd(k)
  BY <1>1, UnitFacts DEF Entries
<1>3. n <= E - 1
  <2>1. E - 1 \notin l..(n - 1)
    BY <1>1
  <2>2. QED
    BY <1>1, <1>2, <2>1
<1>4. n \in Entries(k)
  BY <1>1, <1>2, <1>3 DEF Entries
<1>5. /\ Level(k, l, n - 1) \in Int /\ Level(k, (n - 1) + 1, n) \in Int /\ Level(k, l, n) \in Int
      /\ Level(k, l, n) = Level(k, l, n - 1) + Level(k, (n - 1) + 1, n)
  <2>1. l \in Int /\ n - 1 \in Int /\ n \in Int /\ l <= (n - 1) + 1 /\ n - 1 <= n
    BY <1>2
  <2>2. QED
    BY <2>1, LevelInParts
<1>6. (n - 1) + 1 = n
  OBVIOUS
<1>7. Level(k, l, n) = 0 => n = E - 1
  <2>1. n # E - 1 => n \in l..(E - 2)
    BY <1>1, <1>2, <1>3
  <2>2. QED
    BY <1>1, <1>5, <2>1
<1>8. QED
  BY <1>1, <1>3, <1>4, <1>5, <1>6, <1>7 DEF E

(* A sibling attribute passes over a subtree, in which nothing of the      *)
(* outer ones is closed.                                                   *)
LEMMA SkippingOver ==
  ASSUME WellFormed, NEW k \in DOMAIN units, NEW l \in Entries(k), NEW n \in Entries(k), l < n,
         EntryAt(k, n).children, \A o \in l..(n - 1) : Level(k, l, o) # 0,
         Level(k, l, n - 1) > 0
  PROVE  /\ n < EndIn(k, n) /\ EndIn(k, n) \in Nat
         /\ Level(k, l, EndIn(k, n) - 1) = Level(k, l, n - 1)
         /\ \A o \in l..(EndIn(k, n) - 1) : Level(k, l, o) # 0
<1> DEFINE E == EndIn(k, n)
<1>1. /\ E - 1 \in Entries(k) /\ n < E - 1 /\ E \in Nat /\ Level(k, n, E - 1) = 0
      /\ \A o \in n..(E - 2) : Level(k, n, o) \in Int /\ Level(k, n, o) > 0
  BY SubtreeLevels
<1> HIDE DEF E
<1>2. l \in Nat /\ n \in Nat /\ (n - 1) + 1 = n
  BY UnitFacts
<1>3. ASSUME NEW o \in n..(E - 1)
      PROVE  /\ Level(k, l, n - 1) \in Int
             /\ Level(k, l, o) = Level(k, l, n - 1) + Level(k, n, o)
  <2>1. l \in Int /\ n - 1 \in Int /\ o \in Int /\ l <= (n - 1) + 1 /\ n - 1 <= o
    BY <1>2
  <2>2. /\ Level(k, l, n - 1) \in Int
        /\ Level(k, l, o) = Level(k, l, n - 1) + Level(k, (n - 1) + 1, o)
    BY <2>1, LevelInParts
  <2>3. QED
    BY <1>2, <2>2
<1>4. E - 1 \in n..(E - 1)
  BY <1>1, <1>2
<1>5. Level(k, l, E - 1) = Level(k, l, n - 1)
  BY <1>1, <1>3, <1>4
<1>6. ASSUME NEW o \in l..(E - 1)
      PROVE  Level(k, l, o) # 0
  <2>1. CASE o < n
    BY <1>2, <2>1
  <2>2. CASE n <= o /\ o < E - 1
    <3>1. o \in n..(E - 2) /\ o \in n..(E - 1)
      BY <1>1, <1>2, <2>2
    <3>2. QED
      BY <1>1, <1>3, <3>1
  <2>3. CASE o = E - 1
    BY <1>5, <2>3, <1>3, <1>4
  <2>4. QED
    BY <1>1, <1>2, <2>1, <2>2, <2>3
<1>7. QED
  BY <1>1, <1>2, <1>5, <1>6 DEF E

LEMMA SkipLoopGood ==
  ASSUME WellFormed, NEW q, NEW d, NEW g, NEW l, NEW c, Good(q, d, g, l, c), d > 0
  PROVE  LET x == NextIn(q)
             y == SkipIn(x.r)
         IN /\ x.e.tag \in {"nil", "null"} => Good(x.r, d - 1, g, l, c)
            /\ x.e.tag \notin {"nil", "null"} /\ ~x.e.children => Good(x.r, d, g, l, c)
            /\ x.e.tag \notin {"nil", "null"} /\ x.e.children => Good(y.r, d + y.loops, g, l, c)
<1> DEFINE x == NextIn(q)
           y == SkipIn(x.r)
<1>1. /\ q \in Readers /\ FreshIn(q) /\ d \in Nat /\ g \subseteq Positions
      /\ l \in Positions \cup {0} /\ c = "skip"
  BY DEF Good, InSection, Skipping
<1>2. PICK k \in DOMAIN units :
        /\ l \in Entries(k)
        /\ EntryAt(k, l).children
        /\ IF q.err THEN BadIn(k, l, EndIn(k, l) - 1)
           ELSE /\ q.unit = k
                /\ l < q.off
                /\ d = Level(k, l, q.off - 1)
                /\ \A o \in l..(q.off - 1) : Level(k, l, o) # 0
  BY DEF Good, Skipping
(* The conjuncts that do not depend on the case. *)
<1>3. ASSUME NEW p \in Readers, FreshIn(p), NEW b \in Nat,
             Current(p, b, l, c), Skipping(p, b, l, c), Skipped(p, b, l, c)
      PROVE  Good(p, b, g, l, c)
  <2>1. InSection(p, b, g, l, c)
    BY <1>1, <1>3 DEF InSection
  <2>2. Scanning(p, g, l, c) /\ Scanned(g, l, c)
    BY <1>1 DEF Scanning, Scanned
  <2>3. QED
    BY <1>3, <2>1, <2>2, Zenon DEF Good
<1>4. ASSUME NEW p \in Readers, p.err, BadIn(k, l, EndIn(k, l) - 1), NEW b \in Nat
      PROVE  Good(p, b, g, l, c)
  <2>1. FreshIn(p) /\ Current(p, b, l, c)
    BY <1>4 DEF FreshIn, Current
  <2>2. Skipping(p, b, l, c)
    BY <1>1, <1>2, <1>4 DEF Skipping
  <2>3. Skipped(p, b, l, c)
    BY <1>1, <1>2, <1>4 DEF Skipped
  <2>4. QED
    BY <1>3, <2>1, <2>2, <2>3
<1>5. ASSUME NEW p \in Readers, FreshIn(p), p.err = FALSE, p.unit = k, l < p.off, NEW b \in Nat, b > 0,
             b = Level(k, l, p.off - 1), \A o \in l..(p.off - 1) : Level(k, l, o) # 0
      PROVE  Good(p, b, g, l, c)
  <2>1. Current(p, b, l, c) /\ Skipped(p, b, l, c)
    BY <1>5 DEF Current, Skipped
  <2>2. Skipping(p, b, l, c)
    BY <1>1, <1>2, <1>5 DEF Skipping
  <2>3. QED
    BY <1>3, <1>5, <2>1, <2>2
<1>6. CASE q.err
  <2>1. NextIn(q) = [r |-> q, e |-> Nil]
    BY <1>6 DEF NextIn
  <2>2. x.r = q /\ x.e.tag = "nil"
    BY <2>1 DEF Nil
  <2>3. d - 1 \in Nat
    BY <1>1
  <2>4. Good(q, d - 1, g, l, c)
    BY <1>1, <1>2, <1>4, <1>6, <2>3
  <2>5. QED
    BY <2>2, <2>4, Zenon
<1>7. CASE ~q.err
  <2> DEFINE n == q.off
             e == EntryAt(k, n)
  <2>1. /\ q.unit = k /\ l < n /\ d = Level(k, l, n - 1)
        /\ \A o \in l..(n - 1) : Level(k, l, o) # 0
    BY <1>2, <1>7
  <2>2. n \in Nat /\ l \in Nat
    BY <1>1, <1>2, UnitFacts DEF Readers
  <2>3. /\ n \in Entries(k) /\ n < EndIn(k, l)
        /\ Level(k, n, n) \in Int /\ Level(k, l, n) = d + Level(k, n, n)
        /\ Level(k, l, n) = 0 => n = EndIn(k, l) - 1
    BY <1>2, <2>1, <2>2, SkippingInside
  <2>4. e \in EntryType /\ (e.children => e.tag = "block") /\ e.tag # "nil"
    BY <2>3, UnitFacts DEF WellFormed, EntryType
  <2>5. Level(k, n, n) = IF e.children THEN 1 ELSE IF e.tag = "null" THEN -1 ELSE 0
    BY <2>2, <2>4, LevelOfOne
  <2>6. /\ x.r \in Readers /\ x.r.unit = k
        /\ IF e.tag = "bad"
           THEN x.e = Nil /\ x.r.err = TRUE
           ELSE /\ x.e = e
                /\ x.r.err = FALSE
                /\ x.r.off = n + 1
                /\ x.r.lastChildren = e.children
                /\ e.children => x.r.lastSibling = e.sibling
    BY <1>1, <1>7, <2>1, <2>3, NextFindsHere, Zenon
  <2>7. FreshIn(x.r)
    BY <1>1, NextKeeps, Zenon
  <2> HIDE DEF x, e
  <2>8. CASE e.tag = "bad"
    <3>1. x.e = Nil /\ x.r.err = TRUE /\ x.e.tag = "nil"
      BY <2>6, <2>8 DEF Nil
    <3>2. BadIn(k, l, EndIn(k, l) - 1)
      <4>1. EndIn(k, l) \in Nat
        BY <1>2, SubtreeLevels
      <4>2. n \in l..(EndIn(k, l) - 1)
        BY <2>1, <2>2, <2>3, <4>1
      <4>3. QED
        BY <2>3, <2>8, <4>2 DEF BadIn, e
    <3>3. d - 1 \in Nat
      BY <1>1
    <3>4. Good(x.r, d - 1, g, l, c)
      BY <1>4, <2>6, <3>1, <3>2, <3>3
    <3>5. QED
      BY <3>1, <3>4 DEF x
  <2>9. CASE e.tag # "bad"
    <3>1. /\ x.e = e /\ x.r.err = FALSE /\ x.r.off = n + 1 /\ x.r.lastChildren = e.children
          /\ l < x.r.off /\ x.r.off - 1 = n
      BY <2>1, <2>2, <2>6, <2>9
    <3>2. Level(k, l, n) # 0 => \A o \in l..(x.r.off - 1) : Level(k, l, o) # 0
      BY <2>1, <2>2, <3>1
    <3>3. CASE e.tag = "null"
      <4>1. ~e.children /\ Level(k, l, n) = d - 1 /\ d - 1 \in Nat
        BY <1>1, <2>3, <2>4, <2>5, <3>3
      <4>2. CASE d - 1 = 0
        <5>1. x.r.off = EndIn(k, l)
          <6>1. EndIn(k, l) \in Nat
            BY <1>2, SubtreeLevels
          <6>2. QED
            BY <2>2, <2>3, <3>1, <4>1, <4>2, <6>1
        <5>2. Skipped(x.r, d - 1, l, c)
          BY <1>2, <2>6, <3>1, <5>1 DEF Skipped
        <5>3. Current(x.r, d - 1, l, c) /\ Skipping(x.r, d - 1, l, c)
          BY <3>1, <4>1, <4>2 DEF Current, Skipping
        <5>4. Good(x.r, d - 1, g, l, c)
          BY <1>3, <2>6, <2>7, <4>1, <5>2, <5>3
        <5>5. QED
          BY <3>1, <3>3, <5>4 DEF x
      <4>3. CASE d - 1 > 0
        <5>1. Good(x.r, d - 1, g, l, c)
          <6>1. d - 1 = Level(k, l, x.r.off - 1) /\ \A o \in l..(x.r.off - 1) : Level(k, l, o) # 0
            BY <3>1, <3>2, <4>1, <4>3
          <6>2. QED
            BY <1>5, <2>6, <2>7, <3>1, <4>1, <4>3, <6>1
        <5>2. QED
          BY <3>1, <3>3, <5>1 DEF x
      <4>4. d - 1 = 0 \/ d - 1 > 0
        BY <1>1, <4>1
      <4>5. QED
        BY <4>2, <4>3, <4>4, Zenon
    <3>4. CASE e.tag # "null" /\ ~e.children
      <4>1. Level(k, l, n) = d
        BY <1>1, <2>3, <2>5, <3>4
      <4>2. Good(x.r, d, g, l, c)
        <5>1. d = Level(k, l, x.r.off - 1) /\ \A o \in l..(x.r.off - 1) : Level(k, l, o) # 0
          BY <1>1, <3>1, <3>2, <4>1
        <5>2. QED
          BY <1>1, <1>5, <2>6, <2>7, <3>1, <5>1
      <4>3. QED
        BY <2>4, <3>1, <3>4, <4>2 DEF x
    <3>5. CASE e.children
      <4>1. Level(k, l, n) = d + 1
        BY <1>1, <2>3, <2>5, <3>5
      <4>2. \/ y.r = x.r /\ y.loops = 1
            \/ /\ y.loops = 0
               /\ y.r \in Readers
               /\ y.r.unit = k /\ y.r.off = EndIn(k, n)
               /\ y.r.err = FALSE /\ y.r.lastChildren = FALSE
        <5>1. ~x.r.err /\ x.r.lastChildren
          BY <3>1, <3>5
        <5>2. QED
          BY <2>6, <2>7, <3>1, <5>1, SkipCases
      <4> HIDE DEF y
      <4>3. CASE y.r = x.r /\ y.loops = 1
        <5>1. d + 1 \in Nat /\ d + 1 > 0 /\ d + 1 # 0
          BY <1>1
        <5>2. Good(x.r, d + 1, g, l, c)
          BY <1>5, <2>6, <2>7, <3>1, <3>2, <4>1, <5>1
        <5>3. QED
          BY <2>4, <3>1, <3>5, <4>3, <5>2 DEF x, y
      <4>4. CASE /\ y.loops = 0
                 /\ y.r \in Readers
                 /\ y.r.unit = k /\ y.r.off = EndIn(k, n)
                 /\ y.r.err = FALSE /\ y.r.lastChildren = FALSE
        <5>1. /\ n < EndIn(k, n) /\ EndIn(k, n) \in Nat
              /\ Level(k, l, EndIn(k, n) - 1) = d
              /\ \A o \in l..(EndIn(k, n) - 1) : Level(k, l, o) # 0
          BY <1>2, <2>1, <2>3, <3>5, SkippingOver DEF e
        <5>2. FreshIn(y.r)
          BY <4>4 DEF FreshIn
        <5>3. l < y.r.off
          BY <2>1, <2>2, <4>4, <5>1
        <5>4. Good(y.r, d, g, l, c)
          BY <1>1, <1>5, <4>4, <5>1, <5>2, <5>3
        <5>5. d + y.loops = d
          BY <1>1, <4>4
        <5>6. QED
          BY <2>4, <3>1, <3>5, <5>4, <5>5 DEF x, y
      <4>5. QED
        BY <4>2, <4>3, <4>4
    <3>6. QED
      BY <3>3, <3>4, <3>5
  <2>10. QED
    BY <2>8, <2>9
<1>8. QED
  BY <1>6, <1>7

(* Where nothing is opened or closed, the level does not change. *)
LEMMA LevelFlat ==
  ASSUME NEW k, NEW a \in Int, NEW b \in Int,
         \A o \in a..b : ~EntryAt(k, o).children /\ EntryAt(k, o).tag # "null"
  PROVE  Level(k, a, b) = 0
<1>1. /\ {o \in a..b : EntryAt(k, o).children} = {}
      /\ {o \in a..b : EntryAt(k, o).tag = "null"} = {}
  OBVIOUS
<1>2. Opens(k, a, b) = 0 /\ Closes(k, a, b) = 0
  BY <1>1, FS_EmptySet, Zenon DEF Opens, Closes
<1>3. QED
  BY <1>2 DEF Level

(* In a function without blocks, the first null entry is its last one. *)
LEMMA FirstNullEnds ==
  ASSUME WellFormed, NEW k \in DOMAIN units, NEW l \in Entries(k), EntryAt(k, l).children, Flat(k, l),
         NEW n \in l..(EndIn(k, l) - 1), EntryAt(k, n).tag = "null",
         \A o \in l..(n - 1) : EntryAt(k, o).tag # "null"
  PROVE  n = EndIn(k, l) - 1
<1> DEFINE E == EndIn(k, l)
<1>1. /\ E - 1 \in Entries(k) /\ l < E - 1 /\ E \in Nat
      /\ \A o \in l..(E - 2) : Level(k, l, o) > 0
  BY SubtreeLevels
<1>2. l \in Nat /\ l \in Int /\ n \in Nat /\ l <= n /\ n <= E - 1
  BY <1>1, UnitFacts
<1>3. n \in Entries(k)
  <2>1. units[k].off \in Nat /\ UnitEnd(k) \in Nat
    BY UnitFacts
  <2> HIDE DEF E
  <2>2. QED
    BY <1>1, <1>2, <2>1 DEF Entries
<1>4. /\ EntryAt(k, l).tag = "block"
      /\ EntryAt(k, n).children => EntryAt(k, n).tag = "block"
  BY <1>3 DEF WellFormed
<1>5. l # n /\ l < n
  BY <1>2, <1>4
<1>6. \A o \in (l + 1)..(n - 1) : ~EntryAt(k, o).children /\ EntryAt(k, o).tag # "null"
  <2>1. ASSUME NEW o \in (l + 1)..(n - 1)
        PROVE  o \in (l..(E - 1)) \ {l} /\ o \in l..(n - 1)
    BY <1>1, <1>2
  <2>2. QED
    BY <2>1 DEF Flat
<1> HIDE DEF E
<1>7. Level(k, l, l) = 1 /\ Level(k, n, n) = -1
  <2>1. Level(k, l, l) = 1
    BY <1>2, <1>4, LevelOfOne
  <2>2. ~EntryAt(k, n).children
    BY <1>4
  <2>3. Level(k, n, n) = -1
    BY <1>2, <2>2, LevelOfOne
  <2>4. QED
    BY <2>1, <2>3
<1>8. Level(k, l + 1, n - 1) = 0
  <2>1. l + 1 \in Int /\ n - 1 \in Int
    BY <1>2
  <2>2. QED
    BY <1>6, <2>1, LevelFlat
<1>9. Level(k, l, n) = 0
  <2>1. n \in Int /\ n - 1 \in Int /\ (n - 1) + 1 = n /\ l <= l + 1 /\ l <= n - 1 /\ l <= (n - 1) + 1 /\ n - 1 <= n
    BY <1>2, <1>5
  <2>2. Level(k, l, n - 1) = Level(k, l, l) + Level(k, l + 1, n - 1)
    BY <1>2, <2>1, LevelInParts
  <2>3. Level(k, l, n) = Level(k, l, n - 1) + Level(k, (n - 1) + 1, n)
    BY <1>2, <2>1, LevelInParts
  <2>4. QED
    BY <1>7, <1>8, <2>1, <2>2, <2>3
<1>10. n \notin l..(E - 2)
  BY <1>1, <1>9
<1>11. n = E - 1
  BY <1>1, <1>2, <1>10
<1>12. QED
  BY <1>11 DEF E

LEMMA ScanLoopGood ==
  ASSUME WellFormed, NEW q, NEW d, NEW g, NEW l, Good(q, d, g, l, "scan")
  PROVE  LET x == NextIn(q)
         IN Good(x.r, d, g \cup (IF x.e.tag = "var" THEN {x.r.off - 1} ELSE {}), l,
                 IF x.e.tag \in {"nil", "null"} THEN "scanned" ELSE "scan")
<1> DEFINE x == NextIn(q)
           h == g \cup (IF x.e.tag = "var" THEN {x.r.off - 1} ELSE {})
           c == IF x.e.tag \in {"nil", "null"} THEN "scanned" ELSE "scan"
<1>1. /\ q \in Readers /\ FreshIn(q) /\ d \in Nat /\ ~(d > 0) /\ g \subseteq Positions
      /\ l \in Positions \cup {0} /\ ~q.err /\ l # 0
  BY DEF Good, InSection, Skipping, Scanning, Scanned
<1>2. /\ x.r \in Readers /\ FreshIn(x.r)
      /\ x.e.tag # "nil" => x.r.off - 1 \in Positions /\ x.r.err = FALSE
      /\ ~x.r.err /\ x.r.lastChildren => x.e.tag \notin {"nil", "null"}
  BY <1>1, NextKeeps, Zenon
<1> HIDE DEF x
<1>3. InSection(x.r, d, h, l, c)
  BY <1>1, <1>2 DEF InSection
<1>4. Current(x.r, d, l, c)
  BY <1>2 DEF Current
<1>5. Skipping(x.r, d, l, c) /\ Skipped(x.r, d, l, c)
  BY <1>1 DEF Skipping, Skipped
<1>6. c = "scan" => ~x.r.err
  BY <1>2
(* A function: the Reader is inside it until the first null entry. *)
<1>7. ASSUME NEW k \in DOMAIN units, l \in Entries(k), EntryAt(k, l).children
      PROVE  /\ c = "scan" =>
                  /\ x.r.unit = k
                  /\ l <= x.r.off
                  /\ \A o \in l..(x.r.off - 1) : EntryAt(k, o).tag # "null"
                  /\ h = {o \in l..(x.r.off - 1) : EntryAt(k, o).tag = "var"}
             /\ h \subseteq Own(k, l)
             /\ c = "scanned" /\ Flat(k, l) /\ ~BadIn(k, l, EndIn(k, l) - 1) => h = Own(k, l)
  <2> DEFINE n == q.off
             e == EntryAt(k, n)
             E == EndIn(k, l)
  <2>1. /\ q.unit = k /\ l <= n
        /\ \A o \in l..(n - 1) : EntryAt(k, o).tag # "null"
        /\ g = {o \in l..(n - 1) : EntryAt(k, o).tag = "var"}
    BY <1>7 DEF Good, Scanning
  <2>2. E - 1 \in Entries(k) /\ l < E - 1 /\ E \in Nat /\ EntryAt(k, E - 1).tag = "null"
    BY <1>7, SubtreeLevels
  <2>3. n \in Nat /\ l \in Nat /\ units[k].off \in Nat /\ UnitEnd(k) \in Nat /\ units[k].off <= l
    BY <1>1, <1>7, UnitFacts DEF Readers, Entries
  <2> HIDE DEF E
  <2>4. n <= E - 1
    <3>1. E - 1 \notin l..(n - 1)
      BY <2>1, <2>2
    <3>2. QED
      BY <2>2, <2>3, <3>1
  <2>5. n \in Entries(k) /\ n \in l..(E - 1)
    BY <2>1, <2>2, <2>3, <2>4 DEF Entries
  <2>6. /\ x.r.unit = k
        /\ IF e.tag = "bad"
           THEN x.e = Nil /\ x.r.err = TRUE
           ELSE x.e = e /\ x.r.off = n + 1
    BY <1>1, <2>1, <2>5, NextFindsHere, Zenon DEF x
  <2>7. e.tag # "nil"
    BY <2>5, UnitFacts DEF EntryType
  <2>8. /\ e.tag # "bad" => x.e = e /\ x.r.off = n + 1 /\ x.r.off - 1 = n
        /\ e.tag = "bad" => x.e.tag = "nil"
    BY <2>3, <2>6 DEF Nil
  <2> HIDE DEF n, e
  <2>9. h = g \cup (IF e.tag = "var" THEN {n} ELSE {})
    BY <2>8
  <2>10. h = {o \in l..n : EntryAt(k, o).tag = "var"}
    <3>1. \A o : o \in l..n <=> o \in l..(n - 1) \/ o = n
      BY <2>1, <2>3
    <3>2. QED
      BY <2>1, <2>9, <3>1 DEF e
  <2>11. h \subseteq Own(k, l)
    <3>1. \A o \in l..n : o \in l..(E - 1)
      BY <2>2, <2>3, <2>4
    <3>2. QED
      BY <2>10, <3>1 DEF Own, E
  <2>12. CASE c = "scan"
    <3>1. x.e.tag \notin {"nil", "null"}
      BY <2>12
    <3>2. e.tag # "bad" /\ e.tag # "null" /\ x.r.off = n + 1 /\ x.r.off - 1 = n
      BY <2>8, <3>1
    <3>3. l <= x.r.off /\ \A o \in l..n : EntryAt(k, o).tag # "null"
      BY <2>1, <2>3, <3>2 DEF e
    <3>4. QED
      BY <2>6, <2>10, <2>11, <2>12, <3>2, <3>3
  <2>13. CASE c = "scanned" /\ Flat(k, l) /\ ~BadIn(k, l, E - 1)
    <3>1. e.tag # "bad"
      BY <2>5, <2>13 DEF BadIn, e
    <3>2. e.tag = "null"
      BY <2>7, <2>8, <2>13, <3>1
    <3>3. n = E - 1
      BY <1>7, <2>1, <2>5, <2>13, <3>2, FirstNullEnds DEF E, e
    <3>4. h = Own(k, l)
      BY <2>10, <3>3 DEF Own, E
    <3>5. QED
      BY <2>11, <2>13, <3>4 DEF E
  <2>14. QED
    BY <2>11, <2>12, <2>13 DEF E
<1> HIDE DEF h, c
<1>8. Scanning(x.r, h, l, c)
  BY <1>6, <1>7 DEF Scanning
<1>9. Scanned(h, l, c)
  BY <1>1, <1>7 DEF Scanned
<1>10. QED
  BY <1>2, <1>3, <1>4, <1>5, <1>8, <1>9, Zenon DEF Good, x, h, c

-----------------------------------------------------------------------------
(* No step changes the section. *)
LEMMA SameSection ==
  ASSUME units' = units
  PROVE  ReaderInv' <=> WellFormed /\ Good(r', depth', got', last', op')
<1>1. /\ \A k : UnitEnd(k)' = UnitEnd(k) /\ Entries(k)' = Entries(k)
      /\ \A k, o : EntryAt(k, o)' = EntryAt(k, o)
      /\ Positions' = Positions
      /\ Readers' = Readers
  BY DEF UnitEnd, Entries, EntryAt, Positions, Readers
<1>2. \A k, a, b : /\ Opens(k, a, b)' = Opens(k, a, b)
                   /\ Closes(k, a, b)' = Closes(k, a, b)
                   /\ Level(k, a, b)' = Level(k, a, b)
  BY DEF Opens, Closes, Level, EntryAt
<1>3. \A k, a : Balanced(k, a)' = Balanced(k, a)
  BY <1>1, <1>2 DEF Balanced
<1>4. \A k, a : EndIn(k, a)' = EndIn(k, a)
  BY <1>1, <1>3 DEF EndIn
<1>5. WellFormed' <=> WellFormed
  BY <1>1, <1>3, <1>4 DEF WellFormed
<1>6. \A k, a, b : /\ BadIn(k, a, b)' <=> BadIn(k, a, b)
                   /\ Own(k, a)' = Own(k, a)
                   /\ Flat(k, a)' <=> Flat(k, a)
  BY <1>1, <1>4 DEF BadIn, Own, Flat
<1>7. /\ InSection(r, depth, got, last, op)' <=> InSection(r', depth', got', last', op')
      /\ FreshIn(r)' <=> FreshIn(r')
      /\ Current(r, depth, last, op)' <=> Current(r', depth', last', op')
  BY <1>1 DEF InSection, FreshIn, Current
<1>8. Skipping(r, depth, last, op)' <=> Skipping(r', depth', last', op')
  BY <1>1, <1>2, <1>4, <1>6 DEF Skipping
<1>9. Skipped(r, depth, last, op)' <=> Skipped(r', depth', last', op')
  BY <1>1, <1>4, <1>6 DEF Skipped
<1>10. Scanning(r, got, last, op)' <=> Scanning(r', got', last', op')
  BY <1>1 DEF Scanning
<1>11. Scanned(got, last, op)' <=> Scanned(got', last', op')
  BY <1>1, <1>4, <1>6 DEF Scanned
<1>12. QED
  BY <1>5, <1>7, <1>8, <1>9, <1>10, <1>11 DEF ReaderInv, Good

LEMMA InitGood ==
  ASSUME Init
  PROVE  ReaderInv
<1>1. WellFormed /\ depth = 0 /\ got = {} /\ last = 0 /\ op = "new"
  BY DEF Init
<1>2. 1 \in DOMAIN units
  <2>1. \E k : k \in DOMAIN units
    <3> DEFINE U == [off : Nat \ {0}, data : Seq(EntryType)]
    <3>1. units # << >> /\ units \in Seq(U)
      BY <1>1 DEF WellFormed
    <3> HIDE DEF U
    <3>2. Len(units) \in Nat /\ DOMAIN units = 1..Len(units) /\ Len(units) # 0
      BY <3>1
    <3>3. 1 \in 1..Len(units)
      BY <3>2
    <3>4. QED
      BY <3>2, <3>3
  <2>2. QED
    BY <1>1, <2>1, UnitFacts
<1>3. units[1].off \in Nat /\ units[1].off <= UnitEnd(1) /\ UnitEnd(1) \in Nat
  BY <1>1, <1>2, UnitFacts
<1>4. r \in Readers /\ r.lastChildren = FALSE
  BY <1>2, <1>3 DEF Init, Readers
<1>5. InSection(r, depth, got, last, op) /\ FreshIn(r) /\ Current(r, depth, last, op)
  BY <1>1, <1>4 DEF InSection, FreshIn, Current
<1>6. /\ Skipping(r, depth, last, op) /\ Skipped(r, depth, last, op)
      /\ Scanning(r, got, last, op) /\ Scanned(got, last, op)
  BY <1>1 DEF Skipping, Skipped, Scanning, Scanned
<1>7. QED
  BY <1>1, <1>5, <1>6 DEF ReaderInv, Good

LEMMA StepGood ==
  ASSUME ReaderInv, [Step]_vars
  PROVE  ReaderInv'
<1>1. WellFormed /\ Good(r, depth, got, last, op)
  BY DEF ReaderInv
<1>2. units' = units
  BY DEF Step, Next, SkipChildren, SkipLoop, Seek, Scan, ScanLoop, vars
<1>3. SUFFICES Good(r', depth', got', last', op')
  BY <1>1, <1>2, SameSection
<1>4. CASE Next
  <2>1. /\ depth = 0 /\ depth' = 0 /\ r' = NextIn(r).r /\ got' = got /\ op' = "next"
        /\ last' = IF NextIn(r).e = Nil THEN 0 ELSE NextIn(r).r.off - 1
    BY <1>4 DEF Next, Idle
  <2>2. QED
    BY <1>1, <2>1, NextGood, Zenon
<1>5. CASE SkipChildren
  <2>1. /\ depth = 0 /\ op # "scan" /\ r' = SkipIn(r).r /\ depth' = SkipIn(r).loops
        /\ got' = got /\ last' = last /\ op' = IF r.err \/ ~r.lastChildren THEN op ELSE "skip"
    BY <1>5 DEF SkipChildren, Idle
  <2>2. QED
    BY <1>1, <2>1, SkipGood, Zenon
<1>6. CASE SkipLoop
  <2> DEFINE x == NextIn(r)
             y == SkipIn(x.r)
  <2>1. /\ depth > 0 /\ got' = got /\ last' = last /\ op' = op
        /\ \/ x.e.tag \in {"nil", "null"} /\ r' = x.r /\ depth' = depth - 1
           \/ x.e.tag \notin {"nil", "null"} /\ ~x.e.children /\ r' = x.r /\ depth' = depth
           \/ x.e.tag \notin {"nil", "null"} /\ x.e.children /\ r' = y.r /\ depth' = depth + y.loops
    BY <1>6, Zenon DEF SkipLoop
  <2>2. /\ x.e.tag \in {"nil", "null"} => Good(x.r, depth - 1, got, last, op)
        /\ x.e.tag \notin {"nil", "null"} /\ ~x.e.children => Good(x.r, depth, got, last, op)
        /\ x.e.tag \notin {"nil", "null"} /\ x.e.children => Good(y.r, depth + y.loops, got, last, op)
    BY <1>1, <2>1, SkipLoopGood, Zenon
  <2> HIDE DEF x, y
  <2>3. QED
    BY <2>1, <2>2, Zenon
<1>7. ASSUME NEW off \in Positions \cup {0}, Seek(off)
      PROVE  Good(r', depth', got', last', op')
  <2>1. depth = 0 /\ depth' = 0 /\ r' = SeekIn(r, off) /\ got' = got /\ last' = last /\ op' = "seek"
    BY <1>7 DEF Seek, Idle
  <2>2. QED
    BY <1>1, <2>1, SeekGood, Zenon
<1>8. ASSUME NEW off \in Positions, Scan(off)
      PROVE  Good(r', depth', got', last', op')
  <2>1. depth = 0 /\ depth' = 0 /\ r' = SeekIn(r, off) /\ got' = {} /\ last' = off /\ op' = "scan"
    BY <1>8 DEF Scan, Idle
  <2>2. QED
    BY <1>1, <2>1, ScanGood, Zenon
<1>9. CASE ScanLoop
  <2> DEFINE x == NextIn(r)
  <2>1. /\ op = "scan" /\ r' = x.r /\ depth' = depth /\ last' = last
        /\ got' = got \cup (IF x.e.tag = "var" THEN {x.r.off - 1} ELSE {})
        /\ op' = IF x.e.tag \in {"nil", "null"} THEN "scanned" ELSE "scan"
    BY <1>9, Zenon DEF ScanLoop
  <2>2. QED
    BY <1>1, <2>1, ScanLoopGood, Zenon
<1>10. CASE UNCHANGED vars
  BY <1>1, <1>10 DEF vars
<1>11. QED
  BY <1>4, <1>5, <1>6, <1>7, <1>8, <1>9, <1>10 DEF Step

(* Whatever calls are made of a Reader, on any section: the invariant holds. *)
THEOREM ReaderInvariance == Spec => []ReaderInv
<1>1. Init => ReaderInv
  BY InitGood
<1>2. ReaderInv /\ [Step]_vars => ReaderInv'
  BY StepGood
<1>3. QED
  BY <1>1, <1>2, PTL DEF Spec

(* What the invariant says, in terms of the whole section. *)
LEMMA BadInHasBad ==
  ASSUME WellFormed, NEW k \in DOMAIN units, NEW a, NEW b, BadIn(k, a, b)
  PROVE  HasBad(a, b)
<1>1. PICK o \in a..b : o \in Entries(k) /\ EntryAt(k, o).tag = "bad"
  BY DEF BadIn
<1>2. UnitOf(o) = k /\ o \in Positions
  BY <1>1, UnitOfEntry
<1>3. QED
  BY <1>1, <1>2 DEF HasBad

(* The Reader stays inside the section: its unit is one of the section's,  *)
(* its offset within that unit, and what it returns are entries.           *)
THEOREM ReaderInSection == Spec => []TypeOK
<1>1. ReaderInv => TypeOK
  BY DEF ReaderInv, Good, InSection, Readers, TypeOK
<1>2. QED
  BY <1>1, ReaderInvariance, PTL

(* SkipChildren passes over the whole subtree and nothing else, however    *)
(* deep it is and wherever sibling attributes are, or stops at an entry    *)
(* that cannot be decoded.                                                 *)
THEOREM SkipsWholeSubtree == Spec => []SkipsSubtree
<1>1. ASSUME ReaderInv
      PROVE  SkipsSubtree
  <2>1. SUFFICES ASSUME op = "skip", depth = 0
                 PROVE  IF r.err THEN HasBad(last, SubtreeEnd(last) - 1)
                                 ELSE r.off = SubtreeEnd(last) /\ r.unit = UnitOf(last)
    BY DEF SkipsSubtree
  <2>2. PICK k \in DOMAIN units :
          /\ last \in Entries(k)
          /\ IF r.err THEN BadIn(k, last, EndIn(k, last) - 1)
             ELSE r.off = EndIn(k, last) /\ r.unit = k
    BY <1>1, <2>1 DEF ReaderInv, Good, Skipped
  <2>3. UnitOf(last) = k /\ SubtreeEnd(last) = EndIn(k, last)
    BY <1>1, <2>2, UnitOfEntry DEF ReaderInv
  <2>4. QED
    BY <1>1, <2>2, <2>3, BadInHasBad, Zenon DEF ReaderInv
<1>2. QED
  BY <1>1, ReaderInvariance, PTL

(* A frame's scan collects variables of its function only, and all of them *)
(* if they are not in nested blocks and every entry can be decoded.        *)
THEOREM ScanFindsOwn == Spec => []ScanIsOwn
<1>1. ASSUME ReaderInv
      PROVE  ScanIsOwn
  <2> DEFINE k == UnitOf(last)
  <2>1. SUFFICES ASSUME op \in {"scan", "scanned"}, EntryAt(k, last).children
                 PROVE  /\ got \subseteq Own(k, last)
                        /\ op = "scanned" /\ Flat(k, last) /\ ~HasBad(last, SubtreeEnd(last) - 1)
                             => got = Own(k, last)
    BY DEF ScanIsOwn, Own, Flat, SubtreeEnd
  <2>2. last \in Positions
    BY <1>1, <2>1 DEF ReaderInv, Good, InSection, Scanned
  <2>3. PICK j \in DOMAIN units : last \in Entries(j)
    BY <2>2 DEF Positions
  <2>4. k = j /\ SubtreeEnd(last) = EndIn(j, last)
    BY <1>1, <2>3, UnitOfEntry DEF ReaderInv
  <2>5. /\ got \subseteq Own(j, last)
        /\ op = "scanned" /\ Flat(j, last) /\ ~BadIn(j, last, EndIn(j, last) - 1) => got = Own(j, last)
    BY <1>1, <2>1, <2>3, <2>4 DEF ReaderInv, Good, Scanned
  <2>6. QED
    BY <1>1, <2>3, <2>4, <2>5, BadInHasBad, Zenon DEF ReaderInv
<1>2. QED
  BY <1>1, ReaderInvariance, PTL

(* Next leaves out no entry: it returns the first one from the offset of   *)
(* the Reader on, over units without entries too.                          *)
THEOREM NextReadsInOrder == Spec => NextInOrder
<1> DEFINE ahead == {o \in Positions : o >= r.off}
           P == op' = "next" /\ ~r.err =>
                  IF ahead = {} THEN last' = 0 /\ ~r'.err
                  ELSE IF r'.err THEN HasBad(Min(ahead), Min(ahead))
                  ELSE last' = Min(ahead)
<1>1. ASSUME ReaderInv, [Step]_vars
      PROVE  [P]_vars
  <2>1. SUFFICES ASSUME Step, op' = "next", ~r.err, ~(UNCHANGED vars)
                 PROVE  IF ahead = {} THEN last' = 0 /\ ~r'.err
                        ELSE IF r'.err THEN HasBad(Min(ahead), Min(ahead))
                        ELSE last' = Min(ahead)
    BY <1>1
  <2>2. ~SkipLoop /\ ~ScanLoop /\ ~(\E off : Seek(off)) /\ ~(\E off : Scan(off))
    <3>1. depth > 0 => op = "skip"
      BY <1>1 DEF ReaderInv, Good, Skipping
    <3>2. QED
      BY <2>1, <3>1 DEF SkipLoop, ScanLoop, Seek, Scan
  <2>3. ~SkipChildren
    <3>1. SUFFICES ASSUME SkipChildren
                   PROVE  FALSE
      OBVIOUS
    <3>2. r.err \/ ~r.lastChildren
      BY <2>1, <3>1 DEF SkipChildren
    <3>3. SkipIn(r) = [r |-> r, loops |-> 0]
      BY <3>2 DEF SkipIn
    <3>4. SkipIn(r).r = r /\ SkipIn(r).loops = 0
      BY <3>3
    <3>5. QED
      BY <2>1, <3>1, <3>2, <3>4, Zenon DEF SkipChildren, Idle, vars
  <2>4. Next
    BY <2>1, <2>2, <2>3 DEF Step
  <2> DEFINE x == NextIn(r)
  <2>5. r' = x.r /\ last' = IF x.e = Nil THEN 0 ELSE x.r.off - 1
    BY <2>4, Zenon DEF Next
  <2>6. WellFormed /\ r \in Readers
    BY <1>1 DEF ReaderInv, Good, InSection
  <2>7. r.off \in Nat /\ Positions \subseteq Nat
    BY <2>6, UnitFacts DEF Readers, Positions
  <2>8. \/ NoneAhead(r, x)
        \/ \E k \in DOMAIN units : \E o \in Entries(k) : Found(r, x, k, o)
    BY <2>1, <2>6, NextFinds, Zenon
  <2> HIDE DEF x
  <2>9. CASE NoneAhead(r, x)
    <3>1. ahead = {}
      <4>1. \A p \in Positions : p < r.off /\ p \in Nat
        BY <2>7, <2>9 DEF NoneAhead
      <4>2. \A p \in Positions : ~(p >= r.off)
        BY <2>7, <4>1
      <4>3. QED
        BY <4>2
    <3>2. last' = 0 /\ ~r'.err
      BY <2>5, <2>9 DEF NoneAhead
    <3>3. QED
      BY <3>1, <3>2, Zenon
  <2>10. ASSUME NEW k \in DOMAIN units, NEW o \in Entries(k), Found(r, x, k, o)
         PROVE  /\ ahead # {}
                /\ IF r'.err THEN HasBad(Min(ahead), Min(ahead)) ELSE last' = Min(ahead)
    <3>1. o \in Positions /\ o \in Nat /\ UnitOf(o) = k
      BY <2>6, UnitOfEntry, UnitFacts
    <3>2. o \in ahead /\ \A p \in ahead : o <= p
      BY <2>7, <2>10, <3>1 DEF Found
    <3>3. ahead # {} /\ ahead \subseteq Nat
      BY <2>7, <3>2
    <3> HIDE DEF ahead
    <3>4. Min(ahead) \in ahead /\ Min(ahead) <= o
      BY <3>2, <3>3, FirstOf
    <3>5. Min(ahead) = o
      <4>1. Min(ahead) \in Nat /\ o <= Min(ahead)
        BY <3>2, <3>3, <3>4
      <4>2. QED
        BY <3>1, <3>4, <4>1
    <3>6. CASE EntryAt(k, o).tag = "bad"
      <4>1. r'.err
        BY <2>5, <2>10, <3>6 DEF Found
      <4>2. HasBad(o, o)
        BY <3>1, <3>6 DEF HasBad
      <4>3. QED
        BY <3>3, <3>5, <4>1, <4>2
    <3>7. CASE EntryAt(k, o).tag # "bad"
      <4>1. x.e = EntryAt(k, o) /\ x.r.err = FALSE /\ x.r.off = o + 1
        BY <2>10, <3>7 DEF Found
      <4>2. EntryAt(k, o).tag # Nil.tag
        BY <2>6, UnitFacts DEF EntryType, Nil
      <4>3. x.e # Nil
        BY <4>1, <4>2
      <4>4. ~r'.err /\ last' = o
        BY <2>5, <3>1, <4>1, <4>3
      <4>5. QED
        BY <3>3, <3>5, <4>4
    <3>8. QED
      BY <3>6, <3>7
  <2>11. QED
    BY <2>8, <2>9, <2>10, Zenon
<1>2. QED
  BY <1>1, ReaderInvariance, PTL DEF Spec, NextInOrder
=============================================================================
