------------------------------ MODULE Printer ------------------------------
(***************************************************************************)
(* The printer of values (server/print.go).  Of its output, the events are *)
(* kept: a value printed in full, one abbreviated because its type and     *)
(* address were printed before, an error printed in place of a value, and  *)
(* "..." for what a limit leaves out.  A printer p has the set of types    *)
(* and addresses visited, the sticky error and the output.                 *)
(***************************************************************************)
EXTENDS Values

CONSTANTS MaxArray,       \* 100, in printArrayAt
          MaxMap,         \* maxMapValuesToPrint
          MaxText         \* maxStringSize of printStringAt

NewPrinter == [visited |-> {}, err |-> "", out |-> << >>]

Printf(p, what, t, a) == [p EXCEPT !.out = Append(@, [what |-> what, t |-> t, a |-> a])]

(* errorf: the first error is kept. *)
Errorf(p, e, t, a) ==
  [Printf(p, "error", t, a) EXCEPT !.err = IF @ # "" THEN @ ELSE e]

(* Prints what has been read, or the error. *)
Read(p, o, t, a) == IF o.err # "" THEN Errorf(p, o.err, t, a) ELSE Printf(p, "value", t, a)

(* sizeof: -1 stands for a type whose ByteSize is not set. *)
sizeof(t) == IF Types[t].size >= 0 THEN OK(Types[t].size)
             ELSE IF Types[t].k = "ptr" THEN OK(PointerSize)
             ELSE Fail("can't determine element size")

arrayStride(t) == IF Types[t].stride > 0 THEN OK(Types[t].stride \div ByteBits) ELSE sizeof(Types[t].elem)

(* Follows a path of kinds and of field names from a type; "" if a step    *)
(* does not fit.                                                           *)
RECURSIVE typeAlong(_, _)
typeAlong(t, path) ==
  IF path = << >> THEN t
  ELSE LET d == Types[t]
           f == getField(d.fields, path[1].name)
       IN IF d.k # path[1].k THEN ""
          ELSE IF d.k # "struct" THEN typeAlong(d.elem, Tail(path))
          ELSE IF f.err # "" THEN "" ELSE typeAlong(f.v.type, Tail(path))

Step(k) == [k |-> k, name |-> ""]
ToField(name) == [k |-> "struct", name |-> name]
ToTypeField == <<Step("ptr"), Step("typedef")>>
ToStringField == <<Step("ptr"), Step("typedef"), ToField("_type"), Step("ptr"), Step("typedef")>>

printStringAt(p, t, a) == Read(p, peekStringBytes(Types[t].fields, a, MaxText), t, a)

(* printTypeOfInterface: the name of the type, three pointers away. *)
printTypeOfInterface(p, t, a) ==
  LET t3 == typeAlong(t, ToTypeField)
      t6 == typeAlong(t, ToStringField)
      str == typeAlong(t, ToStringField \o <<ToField("_string"), Step("ptr")>>)
      NameAt(name) == IF name.err # "" THEN Errorf(p, name.err, t, a) ELSE printStringAt(p, str, name.v)
  IN IF a = 0 THEN Printf(p, "value", t, a)
     ELSE IF str = "" \/ Types[str].k # "string" THEN Errorf(p, "bad type", t, a)
     ELSE NameAt(Then(peekPtrStructField(Types[t3].fields, a, "_type"), LAMBDA type :
                   peekPtrStructField(Types[t6].fields, type, "_string")))

(* printInterfaceAt: its dynamic type, then the address of its value. *)
printInterfaceAt(p, t, a) ==
  LET st == typeAlong(t, <<Step("interface"), Step("typedef")>>)
      fs == Types[st].fields
      Typed(tab) == IF tab.err # "" THEN Errorf(p, tab.err, t, a)
                    ELSE printTypeOfInterface(p, getField(fs, "tab").v.type, tab.v)
  IN IF st = "" \/ Types[st].k # "struct" THEN Errorf(p, "bad interface type", t, a)
     ELSE Read(Typed(peekPtrStructField(fs, a, "tab")), peekPtrStructField(fs, a, "data"), t, a)

(* printChannelAt: the address, and the length and capacity of the buffer. *)
printChannelAt(p, t, a) ==
  Read(p, Then(peekPtr(a), LAMBDA ptr :
            IF ptr = 0 THEN OK(0)
            ELSE Then(pointedFields(t), LAMBDA fs :
                 Then(peekLenStructField(fs, ptr, "qcount"), LAMBDA len :
                      peekLenStructField(fs, ptr, "dataqsiz")))), t, a)

(* What a value of a composite type consists of, in the order of printing, *)
(* with the error found on the way and whether a limit cuts it short.      *)
Parts(list, err, more) == [list |-> list, err |-> err, more |-> more]

structParts(t, a) ==
  Parts([i \in DOMAIN Types[t].fields |->
          [t |-> Types[t].fields[i].type, a |-> a + Types[t].fields[i].off]], "", FALSE)

arrayParts(t, a) ==
  LET count == Types[t].count
      n == IF count > MaxArray THEN MaxArray ELSE count
      stride == arrayStride(t)
      step == IF stride.err = "" THEN stride.v ELSE 0
  IN Parts([i \in 1..n |-> [t |-> Types[t].elem, a |-> a + (i - 1) * step]], stride.err, n < count)

(* Slices have no limit. *)
sliceParts(t, a) ==
  LET fs == Types[t].fields
      size == sizeof(Types[t].elem)
      step == IF size.err = "" THEN size.v ELSE 0
      Of(h) == IF h.err # "" THEN Parts(<< >>, h.err, FALSE)
               ELSE Parts([i \in 1..h.v.len |-> [t |-> Types[t].elem, a |-> h.v.a + (i - 1) * step]],
                          size.err, FALSE)
  IN Of(Then(peekPtrStructField(fs, a, "array"), LAMBDA ptr :
        Then(peekLenStructField(fs, a, "len"), LAMBDA len :
        Then(peekLenStructField(fs, a, "cap"), LAMBDA cap : OK([a |-> ptr, len |-> len])))))

mapParts(t, a) ==
  LET KeyValue(slot) == <<[t |-> Types[t].key, a |-> slot.key], [t |-> Types[t].elem, a |-> slot.val]>>
      Shown(slots) ==
        LET n == IF Len(slots) > MaxMap THEN MaxMap ELSE Len(slots)
        IN Parts(FlattenSeq([i \in 1..n |-> KeyValue(slots[i])]), "", n < Len(slots))
      Of(h) == IF h.err # "" THEN Parts(<< >>, h.err, FALSE) ELSE Shown(peekMapValues(h.v))
  IN Of(peekMapHeader(t, a))

PartsOf(t, a) ==
  CASE Types[t].k = "struct" -> structParts(t, a)
    [] Types[t].k = "array" -> arrayParts(t, a)
    [] Types[t].k = "slice" -> sliceParts(t, a)
    [] Types[t].k = "map" -> mapParts(t, a)
    [] Types[t].k = "typedef" -> Parts(<<[t |-> Types[t].elem, a |-> a]>>, "", FALSE)

(* The leaves of printValueAt. *)
printBasicAt(p, t, a) ==
  LET d == Types[t]
      peeked == peekUint(a, d.size)
  IN CASE d.k = "bool" /\ d.size # 1 -> Errorf(p, "unrecognized bool size", t, a)
       [] d.k \in {"bool", "int", "uint"} -> Read(p, peeked, t, a)
       [] d.k \in {"float", "complex"} ->
            IF peeked.err = "" /\ d.size \notin BasicSizes[d.k]
            THEN Errorf(p, "unrecognized size", t, a) ELSE Read(p, peeked, t, a)
       [] d.k = "ptr" -> Read(p, peekPtr(a), t, a)
       [] d.k = "interface" -> printInterfaceAt(p, t, a)
       [] d.k = "chan" -> printChannelAt(p, t, a)
       [] d.k = "string" -> printStringAt(p, t, a)
       [] d.k \in {"func", "void"} -> Printf(p, "value", t, a)
       [] OTHER -> Errorf(p, "unimplemented type", t, a)

(* A faulty variant: a value is known by its address alone. *)
VisitAddress(p, t, a) == \E v \in p.visited : v[2] = a

Visited(p, t, a) == <<t, a>> \in p.visited

RECURSIVE printValueAt(_, _, _)
printValueAt(p, t, a) ==
  LET q == IF a = 0 THEN p ELSE [p EXCEPT !.visited = @ \cup {<<t, a>>}]
      Start(parts) == IF parts.err # "" THEN Errorf(q, parts.err, t, a) ELSE Printf(q, "value", t, a)
      printed(parts) == FoldLeft(LAMBDA r, e : printValueAt(r, e.t, e.a), Start(parts), parts.list)
      Composite(parts) == IF parts.more THEN Printf(printed(parts), "more", t, a) ELSE printed(parts)
  IN IF a # 0 /\ Visited(p, t, a) THEN Printf(p, "repeat", t, a)
     ELSE IF Types[t].k \notin {"struct", "array", "slice", "map", "typedef"} THEN printBasicAt(q, t, a)
     ELSE Composite(PartsOf(t, a))

(* Sprint of a variable, on a printer that was reset. *)
Sprint(t, a) ==
  IF a = 0 THEN Printf(NewPrinter, "value", t, a) ELSE printValueAt(NewPrinter, t, a)
=============================================================================
