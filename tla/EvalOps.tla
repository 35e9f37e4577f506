------------------------------ MODULE EvalOps ------------------------------
(***************************************************************************)
(* The operators of the expression evaluator (server/eval.go, which is     *)
(* generated from eval.m4).  A result has the DWARF type d of a value, ""  *)
(* for an untyped one, and the value v; the code's many cases by width of  *)
(* a number are one case here.  An outcome has the error, too, that the    *)
(* operation saved in e.evalError.                                         *)
(***************************************************************************)
EXTENDS Arith

CONSTANT Round(_, _)     \* the number of a floating-point format nearest to a number

(* The precision of untyped floats, 256 bits, in bytes. *)
prec == 32

(* The format of a value's numbers: the bytes of a float, 0 for integers,  *)
(* which are not rounded.                                                  *)
Format(v) ==
  CASE v.k = "float" -> v.size
    [] v.k = "complex" -> v.size \div 2
    [] v.k \in {"untFloat", "untComplex"} -> prec
    [] OTHER -> 0

Result(d, v) == [d |-> d, v |-> v, err |-> ""]
Err(e) == [d |-> "", v |-> Nil, err |-> e]
Bool(b) == Result("", [k |-> "bool", b |-> b])

(* Untyped numbers, in the order of the conversions between them. *)
Rank == [untInt |-> 1, untRune |-> 2, untFloat |-> 3, untComplex |-> 4]
Integers2 == {"int", "uint"}
Untyped(k, re, im) == [k |-> k, re |-> re, im |-> im]

(* A faulty variant: Uint64 is used for signed types as well. *)
WrapIntoAbs(v, n) == Num(v.k, v.size, Frac(Low(Abs(n), ByteBits * v.size)), Frac(0))

(* int8(i.Int64()), uint8(i.Uint64()) and so on: Int64 keeps the low bits  *)
(* in two's complement, Uint64 those of the absolute value.                *)
WrapInto(v, n) ==
  LET w == ByteBits * v.size
  IN Num(v.k, v.size,
            Frac(IF v.k = "int" THEN TwosComp(n, w) ELSE Low(Abs(n), w)), Frac(0))

(* A faulty variant: a constant keeps digits that the other's type lacks. *)
convertNumberExact(a, v) ==
  IF v.k \in Integers2 /\ a.im[1] = 0 /\ IsInt(a.re) THEN WrapInto(v, IntOf(a.re))
  ELSE IF v.k = "complex" \/ (v.k = "float" /\ a.im[1] = 0) THEN Num(v.k, v.size, a.re, a.im)
  ELSE IF v.k \in DOMAIN Rank /\ Rank[v.k] > Rank[a.k] THEN Untyped(v.k, a.re, a.im)
  ELSE a

(* convertUntyped, of an untyped number a to the kind of v: floats are     *)
(* rounded to their format, those of untFloat have that of untComplex.     *)
convertNumber(a, v) ==
  LET real == a.im[1] = 0
      Rounded(q) == Round(q, Format(v))
      raised == IF v.k = "untRune" \/ a.k = "untFloat" THEN a.re ELSE Rounded(a.re)
  IN IF v.k \in Integers2 /\ real /\ IsInt(a.re) THEN WrapInto(v, IntOf(a.re))
     ELSE IF v.k = "float" /\ real THEN Num(v.k, v.size, Rounded(a.re), Frac(0))
     ELSE IF v.k = "complex" THEN Num(v.k, v.size, Rounded(a.re), Rounded(a.im))
     ELSE IF v.k \in DOMAIN Rank /\ Rank[v.k] > Rank[a.k] THEN Untyped(v.k, raised, a.im)
     ELSE a

(* convertUntyped *)
convertUntyped(x, y) ==
  LET n == convertNumber(x.v, y.v)
  IN IF x.v.k \in DOMAIN Rank
     THEN Result(IF n.k \in DOMAIN Rank THEN "" ELSE y.d, n)
     ELSE IF x.v.k = "bool" /\ x.d = "" /\ y.v.k = "bool" THEN Result(y.d, x.v)
     ELSE IF x.v.k = "untString" /\ y.v.k = "String"
          THEN Result(y.d, [k |-> "String", len |-> Len(x.v.str), str |-> x.v.str])
     ELSE x

(* Two values of one Go type. *)
SameKind(a, b) == a.k = b.k /\ (a.k \in Integers2 \cup {"float", "complex"} => a.size = b.size)

-----------------------------------------------------------------------------
Comparisons == {"==", "<", "<="}
Compare(op, eq, less) == CASE op = "==" -> eq [] op = "<" -> less [] op = "<=" -> less \/ eq

(* The result of an integer operator, before it is cut to a width. *)
IntegerOps == {"+", "-", "*", "/", "%", "|", "^", "&", "&^"}
IntegerOp(op, a, b) ==
  CASE op = "+" -> a + b [] op = "-" -> a - b [] op = "*" -> a * b
    [] op = "/" -> Quo(a, b)
    [] op = "|" -> Or(a, b) [] op = "^" -> Xor(a, b)
    [] op = "&" -> And(a, b) [] op = "&^" -> AndNot(a, b)

(* Integers of a type wrap around. *)
Wrapped(v, n) ==
  LET w == ByteBits * v.size
  IN Num(v.k, v.size, Frac(IF v.k = "int" THEN TwosComp(n, w) ELSE Low(n, w)), Frac(0))

typedInteger(op, v, a, b) ==
  Wrapped(v, IF op = "%" THEN Rem(a, b) ELSE IntegerOp(op, a, b))

(* Remainders of untyped integers are Euclid's. *)
untInteger(op, v, a, b) ==
  Untyped(v.k, Frac(IF op = "%" THEN Mod(a, b) ELSE IntegerOp(op, a, b)), Frac(0))

(* Integers, typed and untyped. *)
integerBinary(op, x, y) ==
  LET a == IntOf(x.v.re)
      b == IntOf(y.v.re)
  IN IF op \in Comparisons THEN Bool(Compare(op, a = b, a < b))
     ELSE IF op \notin IntegerOps THEN Err("invalid operation")
     ELSE IF op \in {"/", "%"} /\ b = 0 THEN Err("integer divide by zero")
     ELSE IF x.v.k \in Integers2 THEN Result(x.d, typedInteger(op, x.v, a, b))
     ELSE Result("", untInteger(op, x.v, a, b))

FieldOps == {"+", "-", "*", "/"}

(* Floats, rounded: only the untyped division by zero is an error. *)
floatBinary(op, x, y) ==
  LET a == x.v.re
      b == y.v.re
      q == CASE op = "+" -> QAdd(a, b) [] op = "-" -> QSub(a, b)
             [] op = "*" -> QMul(a, b) [] op = "/" -> QQuo(a, b)
  IN IF op \in Comparisons THEN Bool(Compare(op, QEq(a, b), QLess(a, b)))
     ELSE IF op \notin FieldOps THEN Err("invalid operation")
     ELSE IF op = "/" /\ x.v.k = "untFloat" /\ b[1] = 0 THEN Err("divide by zero")
     ELSE Result(x.d, [x.v EXCEPT !.re = Round(q, Format(x.v))])

(* Complex numbers; each step of the untyped operators rounds, and so do   *)
(* the typed ones here.  The switch on untyped ones has no default: any    *)
(* other operator gives the zero that cr and ci start with.                *)
complexBinary(op, x, y) ==
  LET ar == x.v.re  ai == x.v.im  br == y.v.re  bi == y.v.im
      R(q) == Round(q, Format(x.v))
      Add(p, q) == R(QAdd(p, q))
      Sub(p, q) == R(QSub(p, q))
      Mul(p, q) == R(QMul(p, q))
      norm == Add(Mul(br, br), Mul(bi, bi))
      re == CASE op = "+" -> Add(ar, br) [] op = "-" -> Sub(ar, br)
              [] op = "*" -> Sub(Mul(ar, br), Mul(ai, bi))
              [] op = "/" -> R(QQuo(Add(Mul(ar, br), Mul(ai, bi)), norm))
              [] OTHER -> Frac(0)
      im == CASE op = "+" -> Add(ai, bi) [] op = "-" -> Sub(ai, bi)
              [] op = "*" -> Add(Mul(ar, bi), Mul(ai, br))
              [] op = "/" -> R(QQuo(Sub(Mul(ai, br), Mul(ar, bi)), norm))
              [] OTHER -> Frac(0)
  IN IF op = "==" THEN Bool(QEq(ar, br) /\ QEq(ai, bi))
     ELSE IF x.v.k = "complex" /\ op \notin FieldOps THEN Err("invalid operation")
     ELSE IF op = "/" /\ x.v.k = "untComplex" /\ norm[1] = 0 THEN Err("divide by zero")
     ELSE Result(x.d, [x.v EXCEPT !.re = re, !.im = im])

boolBinary(op, x, y) ==
  CASE op = "||" -> Result(x.d, [x.v EXCEPT !.b = @ \/ y.v.b])
    [] op = "&&" -> Result(x.d, [x.v EXCEPT !.b = @ /\ y.v.b])
    [] op = "==" -> Result(x.d, [x.v EXCEPT !.b = @ = y.v.b])
    [] OTHER -> Err("invalid operation")

(* Strings compare byte by byte. *)
StringLess(s, t) ==
  \E n \in 0..Len(t) : /\ n <= Len(s) /\ SubSeq(s, 1, n) = SubSeq(t, 1, n)
                       /\ n < Len(t) /\ (n = Len(s) \/ s[n + 1] < t[n + 1])

(* A faulty variant: a truncated first operand is not noticed. *)
stringBinaryNoTruncation(op, x, y) ==
  LET a == x.v
      b == y.v
  IN CASE op = "==" -> Bool(a.len = b.len /\ a.str = b.str)
       [] op \in {"<", "<="} -> Bool(Compare(op, a.str = b.str, StringLess(a.str, b.str)))
       [] op = "+" -> Result(x.d, [k |-> "String", len |-> a.len + b.len, str |-> a.str \o b.str])
       [] OTHER -> Err("invalid operation")

(* debug.String: a sum is truncated where its first operand is. *)
stringBinary(op, x, y) ==
  LET a == x.v
      b == y.v
      sum == IF a.len = Len(a.str) THEN a.str \o b.str ELSE a.str
  IN CASE op = "==" -> Bool(a.len = b.len /\ a.str = b.str)
       [] op \in {"<", "<="} -> Bool(Compare(op, a.str = b.str, StringLess(a.str, b.str)))
       [] op = "+" -> Result(x.d, [k |-> "String", len |-> a.len + b.len, str |-> sum])
       [] OTHER -> Err("invalid operation")

untStringBinary(op, x, y) ==
  LET a == x.v.str
      b == y.v.str
  IN IF op \in Comparisons THEN Bool(Compare(op, a = b, StringLess(a, b)))
     ELSE IF op = "+" THEN Result("", [k |-> "untString", str |-> a \o b])
     ELSE Err("invalid operation")

(* The cases of evalBinaryOp on the converted operands. *)
typedBinaryOp(op, x, y) ==
  LET k == x.v.k
  IN IF k \notin DOMAIN Rank \cup {"int", "uint", "float", "complex", "bool", "String", "untString"}
     THEN Err("invalid operation")
     ELSE IF ~SameKind(x.v, y.v) THEN Err("type mismatch")
     ELSE CASE k \in Integers2 \cup {"untInt", "untRune"} -> integerBinary(op, x, y)
            [] k \in {"float", "untFloat"} -> floatBinary(op, x, y)
            [] k \in {"complex", "untComplex"} -> complexBinary(op, x, y)
            [] k = "bool" -> boolBinary(op, x, y)
            [] k = "String" -> stringBinary(op, x, y)
            [] k = "untString" -> untStringBinary(op, x, y)

convertedBinaryOp(op, x, y) ==
  LET Against(x1) == typedBinaryOp(op, x1, convertUntyped(y, x1))
  IN Against(convertUntyped(x, y))

(* evalBinaryOp: the comparisons that are reduced to another one. *)
evalBinaryOp(op, x, y) ==
  LET Negated(eq) == IF eq.v.k = "bool" THEN Bool(~eq.v.b) ELSE eq
  IN CASE op = "!=" -> Negated(convertedBinaryOp("==", x, y))
       [] op = ">" -> convertedBinaryOp("<", y, x)
       [] op = ">=" -> convertedBinaryOp("<=", x, y)
       [] OTHER -> convertedBinaryOp(op, x, y)

(* The UnaryExpr case of evalNode, for operators other than &. *)
evalUnaryOp(op, x) ==
  LET v == x.v
      n == IntOf(v.re)
      integer == v.k \in Integers2 \cup {"untInt", "untRune"}
      cut(m) == IF v.k = "int" THEN TwosComp(m, ByteBits * v.size)
                ELSE IF v.k = "uint" THEN Low(m, ByteBits * v.size) ELSE m
  IN IF v.k = "bool"
     THEN IF op = "!" THEN Result(x.d, [v EXCEPT !.b = ~@]) ELSE Err("invalid operation")
     ELSE IF v.k \notin Integers2 \cup {"float", "complex"} \cup DOMAIN Rank
     THEN Err("invalid expression")
     ELSE IF op = "+" THEN x
     ELSE IF op = "-" /\ integer THEN Result(x.d, [v EXCEPT !.re = Frac(cut(-n))])
     ELSE IF op = "-" THEN Result(x.d, [v EXCEPT !.re = QNeg(@), !.im = QNeg(@)])
     ELSE IF op = "^" /\ integer THEN Result(x.d, [v EXCEPT !.re = Frac(cut(-n - 1))])
     ELSE Err("invalid operation")

(* uint64FromResult *)
uint64FromResult(x) ==
  LET n == IntOf(x.v.re)
  IN IF x.v.k \notin Integers2 \cup DOMAIN Rank THEN Fail("cannot convert to unsigned integer")
     ELSE IF x.v.im[1] # 0 THEN Fail("value is complex")
     ELSE IF ~IsInt(x.v.re) THEN Fail("value is not an integer")
     ELSE IF n < 0 THEN Fail("value is negative")
     ELSE IF n >= 2^(8 * ByteBits) THEN Fail("value is too large")
     ELSE OK(n)
=============================================================================
