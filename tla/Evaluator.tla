----------------------------- MODULE Evaluator -----------------------------
(***************************************************************************)
(* The expression evaluator (server/eval.go): evalExpression and evalNode  *)
(* over the syntax trees of go/parser.  A tree is a record with the kind n *)
(* of its node; NoNode stands for a bound that a slice expression lacks.   *)
(* A literal carries the untyped value it denotes, or Nil if its text is   *)
(* not that of a constant.                                                 *)
(***************************************************************************)
EXTENDS SliceOps, Values

CONSTANTS Funcs,         \* pc -> SP offset there and entries after its function's
          Globals        \* name -> type, address and spelling of a global variable

NoNode == [n |-> "none"]

(* evalError keeps the first error: those of the operands come first. *)
Saved(outs, r) == [r EXCEPT !.err = FirstErr(Append(outs, r))]

-----------------------------------------------------------------------------
(* resultFrom *)
resultFrom(a, t, getAddress) ==
  LET Of(v) == IF v.err # "" THEN Err(v.err) ELSE Result(t, v.v)
  IN IF a = 0 THEN Err("nil pointer dereference")
     ELSE IF getAddress THEN Result(t, [k |-> "addressable", a |-> a])
     ELSE Of(value(t, a))

(* findLocalVar: the first usable entry with the name, among those up to   *)
(* the first null entry.  An entry without type or location has type "".   *)
findLocalVar(name, frame) ==
  LET f == Funcs[frame.pc]
      before == {i \in DOMAIN f.entries : \A j \in 1..i : f.entries[j].tag # "null"}
      usable == {i \in before : /\ f.entries[i].tag \in {"FormalParameter", "Variable"}
                                /\ f.entries[i].name = name
                                /\ f.entries[i].type # ""}
      first == f.entries[CHOOSE i \in usable : \A j \in usable : i <= j]
  IN IF frame.pc \notin DOMAIN Funcs \/ usable = {} THEN {}
     ELSE {[t |-> first.type, a |-> frame.sp + f.offset + first.off]}

(* findGlobalVar *)
findGlobalVar(name) == IF name \in DOMAIN Globals THEN {Globals[name]} ELSE {}

(* The Ident case: a local variable, a global one, or a word of the evaluator. *)
evalIdent(name, frame, getAddress) ==
  LET local == IF frame.pc # 0 /\ frame.sp # 0 THEN findLocalVar(name, frame) ELSE {}
      found == IF local # {} THEN local ELSE findGlobalVar(name)
      var == CHOOSE v \in found : TRUE
  IN IF found # {} THEN resultFrom(var.a, var.t, getAddress)
     ELSE IF name \in {"true", "false"} THEN Bool(name = "true")
     ELSE IF name = "lookup" THEN Result("", [k |-> "lookup"])
     ELSE Err("unknown identifier")

(* A faulty variant: a type without a zero value gives an empty result, *)
(* and no error.                                                           *)
zeroSilent(t) == Result(t, Nil)

(* zero: the zero value of a type, by its underlying type. *)
zero(t) ==
  LET u == followTypedefs(t)
      d == Types[u]
      sizes == IF d.k = "enum" THEN {1, 2, 4, 8} ELSE BasicSizes[d.k]
  IN IF u = "" THEN Err("can't get zero value of this type")
     ELSE IF d.k = "bool" THEN Result(t, [k |-> "bool", b |-> FALSE])
     ELSE IF d.k \in {"enum", "int", "uint", "float", "complex"}
     THEN IF d.size \notin sizes THEN Err("invalid size")
          ELSE Result(t, Num(IF d.k = "enum" THEN "int" ELSE d.k, d.size, Frac(0), Frac(0)))
     ELSE CASE d.k = "ptr" -> Result(t, [k |-> "Pointer", t |-> t, a |-> 0])
            [] d.k = "slice" -> Result(t, [k |-> "Slice", elem |-> d.elem, a |-> 0, len |-> 0,
                                           stride |-> Types[d.elem].size, cap |-> 0])
            [] d.k = "string" -> Result(t, [k |-> "String", len |-> 0, str |-> << >>])
            [] d.k = "interface" -> Result(t, [k |-> "Interface"])
            [] d.k = "func" -> Result(t, [k |-> "Func", a |-> 0])
            [] d.k = "map" -> Result(t, [k |-> "Map", t |-> t, a |-> 0, len |-> 0])
            [] d.k = "chan" -> Result(t, [k |-> "Channel", elem |-> d.elem, a |-> 0, buf |-> 0,
                                          len |-> 0, cap |-> 0, stride |-> Types[d.elem].size,
                                          start |-> 0])
            [] OTHER -> Err("can't get zero value of this type")

-----------------------------------------------------------------------------
(* The StarExpr case. *)
evalStar(x, getAddress) ==
  LET t == followTypedefs(x.d)
  IN IF x.v.k = "nil" THEN x
     ELSE IF x.v.k \notin {"Pointer", "pointerToValue"} THEN Err("invalid indirect")
     ELSE IF x.v.k = "Pointer" /\ (t = "" \/ Types[t].k # "ptr") THEN Err("invalid DWARF type for pointer")
     ELSE resultFrom(x.v.a, IF x.v.k = "Pointer" THEN Types[t].elem ELSE x.d, getAddress)

(* The first of a struct's fields with a name. *)
selectField(fields, sel, getAddress) ==
  LET named == {i \in DOMAIN fields : fields[i].name = sel}
      f == fields[CHOOSE i \in named : \A j \in named : i <= j]
  IN IF named = {} THEN Err("struct field not found") ELSE resultFrom(f.a, f.t, getAddress)

(* The SelectorExpr case: structs, and pointers to structs. *)
evalSelector(x, sel, getAddress) ==
  LET pt == followTypedefs(x.d)
      target == IF x.v.k = "Pointer" THEN followTypedefs(Types[pt].elem) ELSE pt
      FieldsAt(a) == [i \in DOMAIN Types[target].fields |->
                       [name |-> Types[target].fields[i].name, t |-> Types[target].fields[i].type,
                        a |-> a + Types[target].fields[i].off]]
  IN IF x.v.k = "Struct" THEN selectField(x.v.fields, sel, getAddress)
     ELSE IF x.v.k = "Pointer" /\ (pt = "" \/ Types[pt].k # "ptr")
     THEN Err("invalid DWARF information for pointer")
     ELSE IF x.v.k \in {"Pointer", "pointerToValue"} /\ target # "" /\ Types[target].k = "struct"
     THEN selectField(FieldsAt(x.v.a), sel, getAddress)
     ELSE Err("invalid selector expression")

(* The keys of a map's slots, compared with the index. *)
probe(index, key) == IF key.v.k = "nil" THEN key ELSE evalBinaryOp("==", index, key)
probes(index, slots, keyType) ==
  [i \in DOMAIN slots |-> probe(index, resultFrom(slots[i].key, keyType, FALSE))]

(* The value in the first slot whose key is equal or cannot be compared. *)
firstProbed(slots, outs, elemType) ==
  LET stops == {i \in DOMAIN slots : outs[i].v.k # "bool" \/ outs[i].v.b}
      i == CHOOSE i \in stops : \A j \in stops : i <= j
  IN IF stops = {} THEN zero(elemType)
     ELSE IF outs[i].v.k # "bool" THEN Err(outs[i].err)
     ELSE resultFrom(slots[i].val, elemType, FALSE)

mapSearch(h, index, mt) ==
  IF h.err # "" THEN Err(h.err)
  ELSE firstProbed(peekMapValues(h.v), probes(index, peekMapValues(h.v), mt.key), mt.elem)

(* x[index] of a map, searched in the order of peekMapValues. *)
evalMapIndex(x, index, getAddress) ==
  LET mt == followTypedefs(x.d)
  IN IF getAddress THEN Err("can't take address of map value")
     ELSE IF mt = "" \/ Types[mt].k # "map" THEN Err("invalid DWARF type for map")
     ELSE mapSearch(peekMapHeader(mt, x.v.a), index, Types[mt])

(* The IndexExpr case. *)
evalIndex(x, index, getAddress) ==
  LET u == uint64FromResult(index)
      n == u.v
      v == x.v
  IN IF v.k = "nil" \/ index.v.k = "nil" THEN Result("", Nil)
     ELSE IF v.k = "Map" THEN evalMapIndex(x, index, getAddress)
     ELSE IF u.err # "" THEN Err("invalid index")
     ELSE CASE v.k \in {"Array", "Slice", "sliceOf"} ->
                 IF n >= v.len THEN Err("index out of bounds")
                 ELSE resultFrom(Element(v, n), IF v.k = "sliceOf" THEN x.d ELSE v.elem, getAddress)
            [] v.k \in {"String", "untString"} ->
                 IF getAddress THEN Err("can't take address of string element")
                 ELSE IF v.k = "String" /\ n >= v.len THEN Err("string index out of bounds")
                 ELSE IF n >= Len(v.str) THEN Err("string element unavailable")
                 ELSE uint8Result(v.str[n + 1])
            [] OTHER -> Err("invalid index expression")

(* Slicing an array, or what a pointer to an array points to. *)
sliceArray(a, low, high, max) ==
  LET arr == a.v
      h == IF high = {} THEN arr.len ELSE CHOOSE u \in high : TRUE
      m == IF max = {} THEN arr.len ELSE CHOOSE u \in max : TRUE
  IN IF arr.k # "Array" THEN Saved(<<a>>, Err("cannot slice pointer"))
     ELSE IF h > arr.len THEN Err("slice upper bound is too large")
     ELSE IF m > arr.len THEN Err("slice capacity is too large")
     ELSE IF low > h \/ h > m THEN Err("invalid slice index")
     ELSE Result(arr.elem, [k |-> "sliceOf", elem |-> arr.elem, a |-> Element(arr, low),
                            len |-> h - low, stride |-> Types[arr.elem].size, cap |-> m - low])

(* A pointer is sliced if it points to an array. *)
slicePointer(x, low, high, max) ==
  LET pt == followTypedefs(x.d)
      t == IF x.v.k = "pointerToValue" THEN x.d ELSE Types[pt].elem
  IN IF x.v.k = "Pointer" /\ (pt = "" \/ Types[pt].k # "ptr") THEN Err("invalid DWARF type for pointer")
     ELSE sliceArray(resultFrom(x.v.a, t, FALSE), low, high, max)

sliceValue(x, low, high, max) ==
  CASE x.v.k = "Array" -> sliceArray(x, low, high, max)
    [] x.v.k \in {"Pointer", "pointerToValue"} -> slicePointer(x, low, high, max)
    [] x.v.k \in {"Slice", "sliceOf"} -> sliceSlice(x, low, high, max)
    [] x.v.k \in {"String", "untString"} -> sliceString(x, low, high, max)
    [] OTHER -> Err("invalid slice expression")

(* The CallExpr case: only lookup is a function. *)
evalCall(fun, args, getAddress) ==
  LET named == {g \in DOMAIN Globals : Globals[g].str = args[1].v.str}
      v == Globals[CHOOSE g \in named : TRUE]
  IN IF fun.v.k # "lookup" THEN Err("function calls not implemented")
     ELSE IF Len(args) # 1 THEN Err("lookup should have one argument")
     ELSE IF args[1].v.k # "untString" THEN Err("argument for lookup should be a string constant")
     ELSE IF named = {} THEN Err("symbol not found")
     ELSE resultFrom(v.a, v.t, getAddress)

(* The & operator: the operand was evaluated with getAddress. *)
evalAddress(x) ==
  CASE x.v.k = "addressable" -> Result(x.d, [k |-> "pointerToValue", a |-> x.v.a])
    [] x.v.k = "nil" -> x
    [] OTHER -> Err("can't take address")

-----------------------------------------------------------------------------
(* evalNode *)
RECURSIVE evalNode(_, _, _)
evalNode(node, frame, getAddress) ==
  LET Sub(m) == evalNode(m, frame, FALSE)
      x == Sub(node.x)
  IN CASE node.n = "Ident" -> evalIdent(node.name, frame, getAddress)
       [] node.n = "Lit" -> IF node.v = Nil THEN Err("invalid constant") ELSE Result("", node.v)
       [] node.n = "Paren" -> evalNode(node.x, frame, getAddress)
       [] node.n = "Star" -> Saved(<<x>>, evalStar(x, getAddress))
       [] node.n = "Selector" -> Saved(<<x>>, evalSelector(x, node.sel, getAddress))
       [] node.n = "Index" -> LET i == Sub(node.i) IN Saved(<<x, i>>, evalIndex(x, i, getAddress))
       [] node.n = "Slice" ->
            LET given == SelectSeq(<<node.low, node.high, node.max>>, LAMBDA b : b # NoNode)
                outs == [i \in DOMAIN given |-> Sub(given[i])]
                bad == {i \in DOMAIN given : uint64FromResult(outs[i]).err # ""}
                Bound(b) == IF b = NoNode THEN {} ELSE {uint64FromResult(Sub(b)).v}
                low == IF node.low = NoNode THEN 0 ELSE uint64FromResult(Sub(node.low)).v
            IN IF node.three /\ (node.high = NoNode \/ node.max = NoNode)
               THEN Err("index required in full slice")
               ELSE IF bad # {}
               THEN Saved(SubSeq(outs, 1, CHOOSE i \in bad : \A j \in bad : i <= j),
                          Err("invalid slice bound"))
               ELSE Saved(Append(outs, x), sliceValue(x, low, Bound(node.high), Bound(node.max)))
       [] node.n = "Call" ->
            LET args == [i \in DOMAIN node.args |-> Sub(node.args[i])]
            IN Saved(<<x>> \o args, evalCall(x, args, getAddress))
       [] node.n = "Unary" ->
            LET a == evalNode(node.x, frame, TRUE)
            IN IF node.op = "&" THEN Saved(<<a>>, evalAddress(a))
               ELSE IF x.v = Nil THEN x
               ELSE Saved(<<x>>, evalUnaryOp(node.op, x))
       [] node.n = "Binary" ->
            LET y == Sub(node.y)
            IN IF x.v = Nil THEN x
               ELSE IF y.v = Nil THEN Saved(<<x>>, y)
               ELSE Saved(<<x, y>>, evalBinaryOp(node.op, x, y))
       [] OTHER -> Err("invalid expression")

(* intFromInteger: the range of an int of the debugged program. *)
intFromInteger(v) ==
  LET size == Types["int"].size
      n == IntOf(v.re)
  IN IF "int" \notin BaseTypes THEN Fail("couldn't get int size from DWARF info")
     ELSE IF size \notin {4, 8} THEN Fail("invalid int size in DWARF info")
     ELSE IF n # TwosComp(n, ByteBits * size) THEN Fail("constant overflows int")
     ELSE OK(Num("int", size, v.re, Frac(0)))

(* The value that is returned: untyped constants get their default types, *)
(* and the evaluator's own values become those of the client interface.   *)
(* A constant is a number, so that its Float64 is one or an infinity.     *)
exported(val) ==
  LET v == val.v
      F(q) == Round(q, 8)
  IN IF val.err # "" THEN Fail(val.err)
     ELSE CASE v.k = "untInt" -> intFromInteger(v)
            [] v.k = "untRune" ->
                 IF IntOf(v.re) # TwosComp(IntOf(v.re), 4 * ByteBits) THEN Fail("constant overflows rune")
                 ELSE OK(Num("int", 4, v.re, Frac(0)))
            [] v.k = "untFloat" ->
                 IF F(v.re)[2] = 0 THEN Fail("constant overflows float64")
                 ELSE OK(Num("float", 8, F(v.re), Frac(0)))
            [] v.k = "untComplex" ->
                 IF F(v.re)[2] = 0 \/ F(v.im)[2] = 0 THEN Fail("constant overflows complex128")
                 ELSE OK(Num("complex", 16, F(v.re), F(v.im)))
            [] v.k = "untString" -> OK([k |-> "String", len |-> Len(v.str), str |-> v.str])
            [] v.k = "pointerToValue" -> OK([k |-> "Pointer", t |-> val.d, a |-> v.a])
            [] v.k = "sliceOf" -> OK([v EXCEPT !.k = "Slice"])
            [] v.k \in {"nil", "addressable"} -> Fail("unknown error")
            [] OTHER -> OK(v)

evalExpression(expr, frame) == exported(evalNode(expr, frame, FALSE))
=============================================================================
