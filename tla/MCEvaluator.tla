---------------------------- MODULE MCEvaluator ----------------------------
(***************************************************************************)
(* The evaluator and the readers of values on a small program: a byte has  *)
(* two bits, so that an int8 has two bits, an int16 four, a pointer 16.    *)
(***************************************************************************)
EXTENDS Evaluator, MCNumberOps, Channel

CONSTANTS MaxExpr,      \* nodes put on top of a leaf of an expression
          MaxChain,     \* slice expressions and sums on top of each other
          MaxMapOps,
          MaxArray, MaxMap, MaxText,     \* limits of the printer
          Headers                        \* headers of slices in the memory to print

Field(name, off, type) == [name |-> name, off |-> off, type |-> type]

MCTypes ==
  [int8 |-> [k |-> "int", size |-> 1], uint8 |-> [k |-> "uint", size |-> 1],
   int16 |-> [k |-> "int", size |-> 2], int |-> [k |-> "int", size |-> 8],
   bool |-> [k |-> "bool", size |-> 1], float64 |-> [k |-> "float", size |-> 8],
   string |-> [k |-> "string", size |-> 16,
               fields |-> <<Field("str", 0, "ptruint8"), Field("len", 8, "int")>>],
   array |-> [k |-> "array", size |-> 6, elem |-> "int16", count |-> 3, stride |-> 4],
   bits |-> [k |-> "array", size |-> 1, elem |-> "bool", count |-> 2, stride |-> 1],
   slice |-> [k |-> "slice", size |-> 24, elem |-> "int16",
              fields |-> <<Field("array", 0, "ptrint16"), Field("len", 8, "int"),
                           Field("cap", 16, "int")>>],
   ptruint8 |-> [k |-> "ptr", size |-> 8, elem |-> "uint8"],
   ptrint16 |-> [k |-> "ptr", size |-> 8, elem |-> "int16"],
   ptrarray |-> [k |-> "ptr", size |-> 8, elem |-> "array"],
   T |-> [k |-> "typedef", size |-> 10, elem |-> "node"],
   ptrT |-> [k |-> "ptr", size |-> 8, elem |-> "T"],
   node |-> [k |-> "struct", size |-> 10,
             fields |-> <<Field("v", 0, "int16"), Field("next", 2, "ptrT")>>],
   hmap |-> [k |-> "struct", size |-> 48, fields |-> << >>],
   ptrhmap |-> [k |-> "ptr", size |-> 8, elem |-> "hmap"],
   map |-> [k |-> "map", size |-> 8, key |-> "int8", elem |-> "int16", type |-> "ptrhmap"],
   hchan |-> [k |-> "struct", size |-> 32,
              fields |-> <<Field("qcount", 0, "int"), Field("dataqsiz", 8, "int"),
                           Field("buf", 16, "ptrint16"), Field("recvx", 24, "int")>>],
   ptrhchan |-> [k |-> "ptr", size |-> 8, elem |-> "hchan"],
   chan |-> [k |-> "chan", size |-> 8, elem |-> "int16", type |-> "ptrhchan"],
   badchan |-> [k |-> "chan", size |-> 8, elem |-> "int16", type |-> "ptrint16"],
   S |-> [k |-> "typedef", size |-> 24, elem |-> "sliceS"],
   sliceS |-> [k |-> "slice", size |-> 24, elem |-> "S",
               fields |-> <<Field("array", 0, "ptrS"), Field("len", 8, "int"), Field("cap", 16, "int")>>],
   ptrS |-> [k |-> "ptr", size |-> 8, elem |-> "S"],
   mapT |-> [k |-> "map", size |-> 8, key |-> "int8", elem |-> "T", type |-> "ptrhmap"]]

LE(v, n) == [i \in 1..n |-> (v \div 4^(i - 1)) % 4]

(* The variables, one after the other from address 100. *)
MCImage ==
  LE(-1, 1) \o LE(3, 1) \o LE(5, 2) \o LE(1, 1) \o LE(3, 8)             \* i8 u8 i16 b f
  \o LE(1, 2) \o LE(2, 2) \o LE(3, 2)                                       \* arr, at 113
  \o LE(-8, 2) \o LE(5, 2) \o LE(6, 2) \o LE(7, 2)                        \* backing, at 119
  \o LE(119, 8) \o LE(2, 8) \o LE(3, 8)                                     \* sl, at 127
  \o <<1, 2, 3, 2>>                                                               \* bytes, at 151
  \o LE(151, 8) \o LE(3, 8) \o LE(154, 8) \o LE(1, 8)                     \* s t, at 155
  \o LE(4, 2) \o LE(187, 8)                                                   \* st, at 187
  \o LE(187, 8) \o LE(0, 8) \o LE(113, 8)                                   \* p np pa, at 197
  \o LE(900, 8) \o LE(0, 8) \o LE(901, 8)                                   \* m nm mt, at 221
  \o <<0, 1>> \o LE(6, 2) \o LE(-7, 2)                                        \* keys, values, at 245
  \o LE(259, 8) \o LE(1, 8) \o LE(2, 8) \o LE(119, 8) \o LE(1, 8)         \* ch, hchan, at 251

MCMem == [a \in 100..(99 + Len(MCImage)) |-> MCImage[a - 99]]

Slot(top, key, val) == [top |-> top, key |-> key, val |-> val]

(* A map in the course of growing: key 0 has moved, key 1 has not. *)
MCHmaps ==
  900 :> [B |-> 1, count |-> 2,
          buckets |-> << << <<Slot(5, 245, 247), Slot(0, 0, 0)>> >>,
                         << <<Slot(0, 0, 0), Slot(0, 0, 0)>> >> >>,
          oldbuckets |-> << << <<Slot(EvacuatedX, 245, 247), Slot(6, 246, 249)>> >> >>]
  @@ 901 :> [B |-> 0, count |-> 0, buckets |-> << << <<Slot(0, 0, 0), Slot(0, 0, 0)>> >> >>,
             oldbuckets |-> << >>]

Var(t, a) == [t |-> t, a |-> a, str |-> IF a = 100 THEN <<1>> ELSE <<3, 3, 3>>]

MCGlobals ==
  [i8 |-> Var("int8", 100), u8 |-> Var("uint8", 101), i16 |-> Var("int16", 102),
   b |-> Var("bool", 104), f |-> Var("float64", 105), arr |-> Var("array", 113),
   sl |-> Var("slice", 127), s |-> Var("string", 155), t |-> Var("string", 171),
   st |-> Var("T", 187), p |-> Var("ptrT", 197), np |-> Var("ptrT", 205),
   pa |-> Var("ptrarray", 213), m |-> Var("map", 221), nm |-> Var("map", 229),
   mt |-> Var("mapT", 237), ch |-> Var("chan", 251), bc |-> Var("badchan", 251),
   bits |-> Var("bits", 104), bad |-> Var("int16", 5000)]

(* A function whose parameter i16 hides the global variable. *)
MCFuncs ==
  1 :> [offset |-> 3,
        entries |-> <<[tag |-> "Subprogram", name |-> "f", type |-> "", off |-> 0],
                      [tag |-> "Variable", name |-> "i16", type |-> "", off |-> 0],
                      [tag |-> "FormalParameter", name |-> "i16", type |-> "uint8", off |-> -2],
                      [tag |-> "null", name |-> "", type |-> "", off |-> 0],
                      [tag |-> "Variable", name |-> "i8", type |-> "uint8", off |-> 0]>>]

NoFrame == [pc |-> 0, sp |-> 0]
InFunc == [pc |-> 1, sp |-> 100]

-----------------------------------------------------------------------------
(* Expressions. *)
Ident(x) == [n |-> "Ident", name |-> x]
Lit(v) == [n |-> "Lit", v |-> v]
IntLit(n) == Lit(Untyped("untInt", Frac(n), Frac(0)))
StrLit(s) == Lit([k |-> "untString", str |-> s])
Index(e, i) == [n |-> "Index", x |-> e, i |-> i]
Slice(e, low, high, max) ==
  [n |-> "Slice", x |-> e, low |-> low, high |-> high, max |-> max, three |-> max # NoNode]
Binary(op, e1, e2) == [n |-> "Binary", op |-> op, x |-> e1, y |-> e2]

Literals ==
  {IntLit(0), IntLit(1), IntLit(40000), StrLit(<<1>>), StrLit(<<3>>), Lit(Nil),
   Lit(Untyped("untRune", Frac(300), Frac(0))), Lit(Untyped("untFloat", <<1, 2>>, Frac(0))),
   Lit(Untyped("untComplex", Frac(0), Frac(1)))}
Leaves == {Ident(x) : x \in DOMAIN MCGlobals \cup {"x", "true", "lookup"}} \cup Literals
Operands == {Ident(x) : x \in {"i8", "f", "b", "s", "p", "bad"}} \cup {IntLit(0), IntLit(1), StrLit(<<1>>)}
BinaryOps == {"+", "/", "&&", "!=", "<", ">"}

(* One node on top of an expression. *)
Grown(e) ==
  {[n |-> "Unary", op |-> op, x |-> e] : op \in {"&", "-", "^", "!"}}
  \cup {[n |-> k, x |-> e] : k \in {"Star", "Paren"}}
  \cup {[n |-> "Selector", x |-> e, sel |-> sel] : sel \in {"v", "next", "z"}}
  \cup {Index(e, i) : i \in {IntLit(0), IntLit(1), Ident("u8"), Ident("i8"), Ident("bad")}}
  \cup {Slice(e, IntLit(1), IntLit(2), max) : max \in {NoNode, IntLit(2)}}
  \cup {Slice(e, NoNode, NoNode, max) : max \in {NoNode, IntLit(1)}}
  \cup {[n |-> "Call", x |-> e, args |-> <<a>>] : a \in {StrLit(<<1>>), StrLit(<<3>>), IntLit(0)}}
  \cup {[n |-> "Call", x |-> e, args |-> << >>]}

ExprInit == \E e \in Leaves, f \in {NoFrame, InFunc} :
  /\ f = NoFrame \/ e \in {Ident("i8"), Ident("i16")}
  /\ input = [kind |-> "expr", e |-> e, frame |-> f, size |-> 0, out |-> << >>]

ExprNext ==
  /\ input.kind = "expr" /\ input.out = << >>
  /\ \/ /\ input.size < MaxExpr
        /\ \E e \in Grown(input.e) : input' = [input EXCEPT !.e = e, !.size = @ + 1]
     \/ /\ input.size < MaxExpr
        /\ \E op \in BinaryOps, o \in Operands :
             \E e \in {Binary(op, input.e, o), Binary(op, o, input.e)} :
               input' = [input EXCEPT !.e = e, !.size = MaxExpr]

(* Slice expressions on top of each other, and sums of strings. *)
SliceBases == {Ident("arr"), Ident("sl"), Ident("pa"), [n |-> "Unary", op |-> "&", x |-> Ident("arr")]}
StringBases == {Ident("s"), Ident("t"), StrLit(<<1, 3>>)}
Bounds == {NoNode} \cup {IntLit(n) : n \in 0..4}

ChainInit == \E e \in SliceBases \cup StringBases :
  input = [kind |-> "chain", e |-> e, string |-> e \in StringBases, frame |-> NoFrame,
           size |-> 0, out |-> << >>]

ChainNext ==
  /\ input.kind = "chain" /\ input.size < MaxChain /\ input.out = << >>
  /\ \/ \E low \in Bounds \ {IntLit(4)}, high \in Bounds, max \in {NoNode, IntLit(1), IntLit(3)} :
          /\ max = NoNode \/ high # NoNode
          /\ input' = [input EXCEPT !.e = Slice(@, low, high, max), !.size = @ + 1]
     \/ /\ input.string
        /\ \E o \in StringBases : \E e \in {Binary("+", input.e, o), Binary("+", o, input.e)} :
             input' = [input EXCEPT !.e = e, !.size = @ + 1]

(* What is asked about it: its value, or those of the elements of a slice. *)
Asked ==
  IF input.kind = "expr" \/ input.string THEN <<input.e>>
  ELSE [i \in 1..5 |-> Index(IF input.e.n = "Unary" \/ input.e = Ident("pa")
                              THEN [n |-> "Star", x |-> input.e] ELSE input.e, IntLit(i - 1))]

EvalNext ==
  /\ input.kind \in {"expr", "chain"} /\ input.out = << >>
  /\ input' = [input EXCEPT !.out = [i \in DOMAIN Asked |-> evalExpression(Asked[i], input.frame)]]

(* Maps, as the program's operations leave them. *)
MapInit == input = [kind |-> "map", h |-> NewMap, live |-> {}, ops |-> 0]
MapNext ==
  /\ input.kind = "map" /\ input.ops < MaxMapOps
  /\ \/ \E key \in (0..3) \ input.live, top \in {minTopHash, minTopHash + 1} :
          input' = [input EXCEPT !.h = MapAssign(@, key, top), !.live = @ \cup {key}, !.ops = @ + 1]
     \/ \E key \in input.live :
          input' = [input EXCEPT !.h = MapDelete(@, key), !.live = @ \ {key}, !.ops = @ + 1]
     \/ \E i \in DOMAIN input.h.oldbuckets :
          /\ ~Evacuated(input.h, i)
          /\ input' = [input EXCEPT !.h = DropOld(Evacuate(@, i)), !.ops = @ + 1]

(* Memory to print: headers of slices of type S []S, which may have each   *)
(* other, themselves, or what cannot be read as elements.                  *)
HeaderAddr(i) == 200 + 24 * i
PrintInit == input = [kind |-> "print", headers |-> 0, mem |-> << >>]
PrintNext ==
  /\ input.kind = "print" /\ input.headers < Headers
  /\ \E ptr \in {HeaderAddr(i) : i \in 0..(Headers - 1)} \cup {900}, len \in 0..2 :
       LET header == LE(ptr, 8) \o LE(len, 8) \o LE(len, 8)
           at == HeaderAddr(input.headers)
       IN input' = [input EXCEPT !.headers = @ + 1,
                      !.mem = [a \in at..(at + 23) |-> header[a - at + 1]] @@ @]

P == INSTANCE Printer WITH Mem <- input.mem

-----------------------------------------------------------------------------
(* evalExpression's last case is never reached, as its comment says: an    *)
(* expression has an error or a value.                                     *)
NoUnknownError ==
  input.kind = "expr" => \A i \in DOMAIN input.out : input.out[i].err # "unknown error"

(* What a chain of slice expressions denotes, by the Go specification: the *)
(* elements up to the capacity, and the length; nothing if it panics.      *)
BoundOf(b, default) == IF b = NoNode THEN default ELSE IntOf(b.v.re)

RECURSIVE View(_)
View(e) ==
  IF e.n # "Slice"
  THEN {IF e = Ident("sl") THEN [elems |-> <<-8, 5, 6>>, len |-> 2] ELSE [elems |-> <<1, 2, 3>>, len |-> 3]}
  ELSE {[elems |-> SubSeq(v.elems, low + 1, max), len |-> high - low] :
          <<v, low, high, max>> \in
            {c \in {<<v, BoundOf(e.low, 0), BoundOf(e.high, v.len), BoundOf(e.max, Len(v.elems))>> : v \in View(e.x)} :
               c[2] <= c[3] /\ c[3] <= c[4] /\ c[4] <= Len(c[1].elems)}}

(* Nested slices of arrays, slices and pointers to arrays have the         *)
(* elements that Go gives them, and no others can be indexed.              *)
SlicesDenote ==
  input.kind = "chain" /\ ~input.string =>
    \A i \in DOMAIN input.out :
      IF \E v \in View(input.e) : i <= v.len
      THEN input.out[i].v = Num("int", 2, Frac((CHOOSE v \in View(input.e) : TRUE).elems[i]), Frac(0))
      ELSE input.out[i].err # ""

(* The whole contents of a string expression. *)
RECURSIVE Contents(_)
Contents(e) ==
  CASE e.n = "Lit" -> {e.v.str}
    [] e.n = "Ident" -> {IF e.name = "s" THEN <<1, 2, 3>> ELSE <<2>>}
    [] e.n = "Binary" -> {p[1] \o p[2] : p \in Contents(e.x) \X Contents(e.y)}
    [] e.n = "Slice" ->
         {SubSeq(s, BoundOf(e.low, 0) + 1, BoundOf(e.high, Len(s))) :
            s \in {s \in Contents(e.x) : /\ e.max = NoNode
                                         /\ BoundOf(e.low, 0) <= BoundOf(e.high, Len(s))
                                         /\ BoundOf(e.high, Len(s)) <= Len(s)}}

(* Strings that were read in part: slices and sums of them have the length *)
(* of the whole, and their bytes are its first ones.                       *)
StringsArePrefixes ==
  input.kind = "chain" /\ input.string =>
    \A i \in DOMAIN input.out :
      IF Contents(input.e) = {} THEN input.out[i].err # ""
      ELSE \A s \in Contents(input.e) : /\ input.out[i].err = "" /\ input.out[i].v.len = Len(s)
                                        /\ IsPrefix(input.out[i].v.str, s)

(* Asked for the elements 0, 1, 2, ... of a map, MapElement gives each one *)
(* once, as many as the map's Length says, at whatever stage of growing    *)
(* the map has been stopped.                                               *)
MapElementsExact ==
  input.kind = "map" =>
    LET n == peekMapLength(input.h)
    IN /\ n = Cardinality(input.live)
       /\ {s.key : s \in UNION {handleMapElement(input.h, i) : i \in 0..(n - 1)}} = input.live
       /\ handleMapElement(input.h, n) = {}

(* The values that the value of type S at an address consists of. *)
RECURSIVE Reach(_)
Reach(set) ==
  LET With(more) == IF more \subseteq set THEN set ELSE Reach(set \cup more)
  IN With({<<e.t, e.a>> : e \in UNION {Range(P!PartsOf(v[1], v[2]).list) : v \in set}})

(* The printer prints each value that the variable consists of in full,    *)
(* and once, whatever cycles the data has, or an error in its place; the   *)
(* printing has an error exactly if an error was printed.                  *)
PrintsReachableOnce ==
  input.kind = "print" =>
    LET Prints(p, reached) ==
          LET full == {i \in DOMAIN p.out : p.out[i].what \in {"value", "error"}}
          IN /\ {<<p.out[i].t, p.out[i].a>> : i \in full} = reached
             /\ Cardinality(full) = Cardinality(reached)
             /\ p.err # "" <=> \E i \in full : p.out[i].what = "error"
    IN Prints(P!Sprint("S", HeaderAddr(0)), Reach({<<"S", HeaderAddr(0)>>}))
=============================================================================
