---------------------------- MODULE MCEntryReader ----------------------------
(***************************************************************************)
(* Sections for EntryReader: one to three units, with every well-formed    *)
(* forest of at most MaxEntries entries in a unit, with and without        *)
(* sibling attributes.  A header of one offset precedes each unit.         *)
(***************************************************************************)
EXTENDS EntryReader

CONSTANT MaxEntries

Kinds == {"var", "bad", "block", "blockS", "null"}
Blocks(w, i, j) == Cardinality({k \in i..j : w[k] \in {"block", "blockS"}})
Nulls(w, i, j) == Cardinality({k \in i..j : w[k] = "null"})
EndOf(w, i) == Min({j \in i..Len(w) : Blocks(w, i, j) = Nulls(w, i, j)})

(* Every block is closed, and a sibling attribute names an entry. *)
Forests ==
  {w \in UNION {[1..n -> Kinds] : n \in 0..MaxEntries} :
     /\ \A j \in DOMAIN w : Blocks(w, 1, j) >= Nulls(w, 1, j)
     /\ Blocks(w, 1, Len(w)) = Nulls(w, 1, Len(w))
     /\ Cardinality({j \in DOMAIN w : w[j] = "bad"}) <= 1
     /\ \A j \in DOMAIN w : w[j] = "blockS" => EndOf(w, j) < Len(w)}

Unit(w, off) ==
  [off |-> off,
   data |-> [i \in DOMAIN w |->
     [tag |-> IF w[i] = "blockS" THEN "block" ELSE w[i],
      children |-> w[i] \in {"block", "blockS"},
      sibling |-> IF w[i] = "blockS" THEN off + EndOf(w, i) ELSE 0]]]

Section(ws) ==
  [k \in DOMAIN ws |->
     Unit(ws[k], k + FoldSet(LAMBDA j, n : n + Len(ws[j]), 0, 1..(k - 1)))]

Second == {<< >>, <<"var">>, <<"block", "null">>}

MCSections ==
  {Section(<<w>>) : w \in Forests}
    \cup {Section(<<w, << >>, u>>) : w \in Forests, u \in Second}
=============================================================================
