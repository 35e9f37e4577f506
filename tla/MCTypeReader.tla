---------------------------- MODULE MCTypeReader ----------------------------
(***************************************************************************)
(* The type reader on every small graph of type entries.  The entries are  *)
(* put in place one after the other, then types are read, in any order.    *)
(***************************************************************************)
EXTENDS Integers, Sequences, FiniteSets, Input

CONSTANTS MaxDies, MaxReads,
          AddressSize, MaxStack

TR == INSTANCE TypeReader WITH Dies <- input.dies

Refs == 1..MaxDies
Die(tag, go, type, elem, size, kids) ==
  [tag |-> tag, go |-> go, type |-> type, key |-> 1, elem |-> elem, size |-> size,
   stride |-> TR!Absent, kids |-> kids]
Member(type, loc) == [tag |-> "Member", type |-> type, loc |-> loc, count |-> 0]
Subrange(count) == [tag |-> "Subrange", type |-> 0, loc |-> 0, count |-> count]

(* The entries that a Go compiler writes, and one that cannot be read. *)
SomeDies ==
  {Die("base", "", 0, 0, 8, << >>), Die("base", "no encoding", 0, 0, 8, << >>),
   Die("ptr", "", 0, 0, TR!Absent, << >>)}
  \cup {Die("ptr", "", t, 0, TR!Absent, << >>) : t \in Refs}
  \cup {Die("typedef", go, t, 0, TR!Absent, << >>) : t \in Refs, go \in {"", "interface"}}
  \cup {Die("typedef", go, t, e, TR!Absent, << >>) : t, e \in Refs, go \in {"map", "chan"}}
  \cup {Die("struct", "slice", 0, e, 24, <<Member(t, 0)>>) : t, e \in Refs}
  \cup {Die("struct", "", 0, 0, 16, <<Member(t, 0), Member(u, 8)>>) : t, u \in Refs}
  \cup {Die("array", "", t, 0, TR!Absent, <<Subrange(2)>>) : t \in Refs}

(* What the value of a type contains, and so has a part of its size from.  *)
Parts(d) ==
  ({d.type} \cup {d.kids[i].type : i \in DOMAIN d.kids}) \ {0, IF d.tag = "ptr" THEN d.type ELSE 0}
Early(d) == IF d.go = "map" THEN {d.key, d.elem} ELSE IF d.go \in {"slice", "chan"} THEN {d.elem} ELSE {}
Refers(d) == Parts(d) \cup Early(d) \cup ({d.type} \ {0})

(* What is reached from a set of types by references of one sort. *)
RECURSIVE Closure(_, _, _)
Closure(Edges(_), dies, set) ==
  LET more == UNION {Edges(dies[o]) : o \in set} IN
  IF more \subseteq set THEN set ELSE Closure(Edges, dies, set \cup more)
Cyclic(Edges(_), dies, o) == o \in Closure(Edges, dies, Edges(dies[o]))

(* No type of a Go program contains itself, and keys can be compared. *)
Legal(dies) ==
  /\ \A o \in DOMAIN dies : ~Cyclic(Parts, dies, o)
  /\ \A o \in DOMAIN dies : dies[o].go = "map" => dies[dies[o].key].tag \in {"base", "ptr"}

TypesInit == input = [kind |-> "types", dies |-> << >>, st |-> TR!NoTypes, reads |-> << >>, got |-> << >>]

TypesNext ==
  /\ input.kind = "types"
  /\ \/ /\ Len(input.dies) < MaxDies
        /\ \E d \in SomeDies :
             /\ Len(input.dies) + 1 = MaxDies => Legal(Append(input.dies, d))
             /\ input' = [input EXCEPT !.dies = Append(@, d)]
     \/ /\ Len(input.dies) = MaxDies
        /\ Len(input.reads) < MaxReads /\ input.st.panic = ""
        /\ \E off \in Refs :
             LET After(r) == [input EXCEPT !.st = r.st, !.reads = Append(@, off), !.got = Append(@, r.id)]
             IN input' = After(TR!Type(input.st, off))

TypesSpec == TypesInit /\ [][TypesNext]_input

-----------------------------------------------------------------------------
(* A recursive type that the reader handles: an element type that leads    *)
(* back to its slice, map or channel does so through another type, and no  *)
(* array is part of what it leads to, nor a typedef of a typedef.          *)
RECURSIVE DeclaredSize(_)
DeclaredSize(o) ==
  LET d == input.dies[o] IN
  IF d.tag = "array" THEN d.kids[1].count * DeclaredSize(d.type)
  ELSE IF d.tag = "typedef" THEN DeclaredSize(d.type)
  ELSE IF d.tag = "ptr" THEN AddressSize ELSE d.size

Handled(o) ==
  \A p \in Closure(Refers, input.dies, {o}) :
    LET d == input.dies[p] IN
    /\ d.go # "no encoding"
    /\ ~Cyclic(Early, input.dies, p)
    /\ d.tag \in {"array", "typedef"} /\ Cyclic(Refers, input.dies, p)
         => d.tag = "typedef" /\ input.dies[d.type].tag \notin {"array", "typedef"}

(* The object describes the entry, and so do the objects it refers to, as  *)
(* far as n references from it.                                            *)
RECURSIVE Describes(_, _, _)
Describes(id, o, n) ==
  LET d == input.dies[o]
      t == input.st.heap[id]
  IN /\ id > 0
     /\ t.off = o /\ t.k = TR!KindOf(d)
     /\ TR!Size(input.st.heap, id) = DeclaredSize(o)
     /\ d.tag = "array" => t.count = d.kids[1].count /\ t.stride = 8 * DeclaredSize(d.type)
     /\ n > 0 =>
          /\ IF d.type = 0 THEN t.type \in {0, TR!Void} ELSE Describes(t.type, d.type, n - 1)
          /\ d.go = "map" => Describes(t.key, d.key, n - 1)
          /\ Early(d) # {} => Describes(t.elem, d.elem, n - 1)
          /\ d.tag = "struct" =>
               /\ Len(t.fields) = Len(d.kids)
               /\ \A i \in DOMAIN d.kids : /\ t.fields[i].loc = d.kids[i].loc
                                           /\ Describes(t.fields[i].type, d.kids[i].type, n - 1)

(* Whatever types were read before, also if reading them failed, the type  *)
(* read last is complete and describes its entry, cycles included: partial *)
(* objects that were found in the cache have been completed.               *)
TypesFaithful ==
  input.kind = "types" /\ input.reads # << >> =>
    LET o == input.reads[Len(input.reads)] IN
    Handled(o) => /\ input.st.err = "" /\ input.st.panic = ""
                  /\ Describes(input.got[Len(input.got)], o, MaxDies + 1)

(* Reading a type returns, with the type or with an error. *)
TypeReadReturns == input.kind = "types" => input.st.panic = ""
=============================================================================
