----------------------------- MODULE TypeReader -----------------------------
(***************************************************************************)
(* The reader of types of dwarf/type.go.  Type(off) turns the entries of   *)
(* the info section into a graph of Type values; a type that refers to     *)
(* itself is found in the cache of types while it is still being read.     *)
(*                                                                         *)
(* The values are the objects of a heap, named by their place in it: the   *)
(* cache, and other objects, refer to an object before it is complete.     *)
(* 0 is the nil Type.  A state of the reading holds the heap, the cache,   *)
(* the err of the innermost call and the panic that ended the program.     *)
(***************************************************************************)
EXTENDS Integers, Sequences, TLC

CONSTANTS Dies,         \* offset -> entry that describes a type
          AddressSize,
          MaxStack      \* calls of readType that fit on the stack

Void == -1              \* new(VoidType)
NoSize == -(2^20)       \* the size of nil: a nil dereference
Absent == -(2^20)       \* an attribute that is missing

NoTypes == [heap |-> << >>, cache |-> << >>, err |-> "", panic |-> ""]
Read(st, id) == [st |-> st, id |-> id]
WithErr(st, e) == [st EXCEPT !.err = e]
Panics(st, p) == [st EXCEPT !.panic = p]

(* The types that have a type under them and no size of their own: those   *)
(* that are, or embed, a TypedefType.                                      *)
TypedefKinds == {"typedef", "map", "chan", "interface"}

KindOf(d) == IF d.go \in {"slice", "string", "map", "chan", "interface"} THEN d.go ELSE d.tag

(* The Size methods. *)
RECURSIVE Size(_, _)
Size(heap, id) ==
  IF id = 0 THEN NoSize
  ELSE IF id = Void THEN 0
  ELSE LET o == heap[id] IN
       IF o.k \in TypedefKinds \cup {"qual"} THEN Size(heap, o.type)
       ELSE IF o.k # "array" THEN o.size
       ELSE IF Size(heap, o.type) = NoSize THEN NoSize
       ELSE o.count * Size(heap, o.type)

(* zeroArray: an array, and the arrays that are its elements, have none. *)
RECURSIVE zeroArray(_, _)
zeroArray(heap, id) ==
  IF id <= 0 THEN heap
  ELSE IF heap[id].k # "array" THEN heap
  ELSE zeroArray([heap EXCEPT ![id].count = 0], heap[id].type)

LastField(o) == IF o.fields = << >> THEN [type |-> 0, loc |-> 0] ELSE o.fields[Len(o.fields)]

(* A faulty variant: the types that are, or embed, a TypedefType are not   *)
(* in the cache while they are read.                                       *)
cacheTypeNotTypedef(st, off, id) ==
  IF st.heap[id].k \in TypedefKinds THEN st ELSE [st EXCEPT !.cache = (off :> id) @@ @]

cacheType(st, off, id) == [st EXCEPT !.cache = (off :> id) @@ @]

(* The types whose element types are read before they are in the cache. *)
ReadBeforeCached(d) == d.go \in {"slice", "map", "chan"}

(* The entries whose type attribute is read. *)
HasType(d) == d.tag \in {"array", "qual", "ptr", "func", "typedef"}

RECURSIVE readType(_, _, _), typeOf(_, _, _), readKids(_, _, _, _)

(* typeOf: no type means void, and leaves err as it is.  Otherwise err is  *)
(* that of reading the type, also where it was set before.                 *)
typeOf(st, ref, depth) ==
  IF st.panic # "" THEN Read(st, 0)
  ELSE IF ref = 0 THEN Read(st, Void)
  ELSE readType(st, ref, depth + 1)

(* One child of the entry: a member, a dimension or a parameter. *)
readKid(st, id, kid, depth) ==
  LET o == st.heap[id]
      t == typeOf(st, kid.type, depth)
      ofStruct == o.tag \in {"struct", "union"}
      last == LastField(o)
      zeroed == IF kid.loc = last.loc /\ o.tag # "union"
                THEN zeroArray(t.st.heap, last.type) ELSE t.st.heap
  IN CASE kid.tag = "bad" -> WithErr(st, "decode")
       [] kid.tag = "Member" /\ ofStruct ->
            IF t.st.err # "" \/ t.st.panic # "" THEN t.st
            ELSE IF kid.loc = Absent THEN WithErr(t.st, "unexpected opcode")
            ELSE [t.st EXCEPT !.heap = [zeroed EXCEPT ![id].fields =
                                          Append(@, [type |-> t.id, loc |-> kid.loc])]]
       [] kid.tag = "Subrange" /\ o.tag = "array" ->
            IF o.dims = 0
            THEN [st EXCEPT !.heap[id].count = kid.count, !.heap[id].dims = 1]
            ELSE [st EXCEPT !.heap = Append([@ EXCEPT ![id].type = Len(st.heap) + 1],
                                            [o EXCEPT !.off = 0, !.count = kid.count,
                                                      !.stride = 0, !.size = 0])]
       [] kid.tag = "Enumeration" /\ o.tag = "array" -> WithErr(st, "cannot handle")
       [] kid.tag = "Parameter" /\ o.tag = "func" ->
            IF t.st.err # "" \/ t.st.panic # "" THEN t.st
            ELSE [t.st EXCEPT !.heap[id].fields = Append(@, [type |-> t.id, loc |-> 0])]
       [] OTHER -> st

(* A member, or another child that is looked at, ends the loop if err is   *)
(* set: by it, or before, by the element type of a slice.                  *)
readKids(st, id, kids, depth) ==
  IF kids = << >> THEN st
  ELSE LET s == readKid(st, id, Head(kids), depth) IN
       IF s.panic # "" \/ (s.err # "" /\ Head(kids).tag # "other") THEN s
       ELSE readKids(s, id, Tail(kids), depth)

(* The size is that of the entry; or of the type under a typedef; or, for  *)
(* a pointer, of an address.  A tag that is not known has left typ nil.    *)
finish(st, off, id) ==
  LET d == Dies[off]
      o == st.heap[id]
      size == IF d.size # Absent THEN d.size
              ELSE IF o.k \in TypedefKinds THEN Size(st.heap, o.type)
              ELSE IF o.k = "ptr" THEN AddressSize ELSE -1
      zeroed == IF o.tag = "struct" /\ d.size = LastField(o).loc
                THEN zeroArray(st.heap, LastField(o).type) ELSE st.heap
  IN IF st.panic # "" THEN Read(st, 0)
     ELSE IF st.err # ""
     THEN Read([st EXCEPT !.cache = [x \in DOMAIN st.cache \ {off} |-> st.cache[x]]], 0)
     ELSE IF size = NoSize \/ d.tag = "unknown" THEN Read(Panics(st, "nil dereference"), 0)
     ELSE Read([st EXCEPT !.heap = [zeroed EXCEPT ![id].off = off, ![id].size = size]], id)

(* The stride of an array is computed from its type when it is read. *)
arrayStride(st, id, d) ==
  LET size == Size(st.heap, st.heap[id].type) IN
  IF d.tag # "array" \/ st.err # "" \/ st.panic # "" THEN st
  ELSE IF d.stride # Absent THEN [st EXCEPT !.heap[id].stride = 8 * d.stride]
  ELSE IF size = NoSize THEN Panics(st, "nil dereference")
  ELSE [st EXCEPT !.heap[id].stride = 8 * size]

(* readType, whose err is its own and starts as nil. *)
readType(st, off, depth) ==
  LET d == Dies[off]
      early == ReadBeforeCached(d)
      key == IF d.go = "map" THEN typeOf(WithErr(st, ""), d.key, depth) ELSE Read(WithErr(st, ""), 0)
      elem == IF early THEN typeOf(key.st, d.elem, depth) ELSE key
      id == Len(elem.st.heap) + 1
      new == [k |-> KindOf(d), tag |-> d.tag, off |-> 0, key |-> key.id, elem |-> elem.id, type |-> 0,
              fields |-> << >>, count |-> IF d.tag = "array" THEN -1 ELSE 0, dims |-> 0,
              stride |-> 0, size |-> 0]
      cached == cacheType([elem.st EXCEPT !.heap = Append(@, new)], off, id)
      type == IF HasType(d) THEN typeOf(cached, d.type, depth) ELSE Read(cached, 0)
      typed == [type.st EXCEPT !.heap[id].type = type.id]
      strided == arrayStride(typed, id, d)
      stop == strided.panic # "" \/ (strided.err # "" /\ d.tag # "struct")
  IN IF off \in DOMAIN st.cache THEN Read(WithErr(st, ""), st.cache[off])
     ELSE IF depth = MaxStack THEN Read(Panics(st, "stack overflow"), 0)
     ELSE IF off \notin DOMAIN Dies THEN Read(WithErr(st, "no type at offset"), 0)
     ELSE IF d.tag = "base" /\ d.go = "no encoding" THEN Read(WithErr(st, "encoding"), 0)
     ELSE IF elem.st.panic # "" THEN Read(elem.st, 0)
     ELSE finish(IF stop THEN strided ELSE readKids(strided, id, d.kids, depth), off, id)

(* Type: a reading that starts with an empty stack. *)
Type(st, off) == readType(st, off, 0)
=============================================================================
