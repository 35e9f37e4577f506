----------------------------- MODULE NumberOps -----------------------------
(***************************************************************************)
(* The evaluator's binary operators on two numbers of any kinds, against   *)
(* the numbers themselves.                                                 *)
(***************************************************************************)
EXTENDS EvalOps, Input

CONSTANT NumberOperands     \* results that are numbers

(* The values of a kind and size. *)
InRange(n, v) ==
  v.k \in {"int", "uint"} =>
    LET w == ByteBits * v.size
    IN IsInt(n) /\ IntOf(n) \in (IF v.k = "int" THEN -(2^(w - 1))..(2^(w - 1) - 1) ELSE 0..(2^w - 1))

(* The numbers that values have: integers are whole and have no imaginary  *)
(* part, only typed floats may be infinite or no number at all.            *)
Zero == {<<0, 1>>}
Fractions == Int \X (Nat \ {0})
Sizes == {1, 2, 4, 8}
IntValues == [k : {"int", "uint"}, size : Sizes, re : Int \X {1}, im : Zero]
FloatValues == [k : {"float"}, size : {4, 8}, re : Int \X Nat, im : Zero]
ComplexValues == [k : {"complex"}, size : {8, 16}, re : Int \X Nat, im : Int \X Nat]
UntIntegers == [k : {"untInt", "untRune"}, re : Int \X {1}, im : Zero]
UntFloats == [k : {"untFloat"}, re : Fractions, im : Zero]
UntComplexes == [k : {"untComplex"}, re : Fractions, im : Fractions]

(* A number q in a format, and values whose numbers are of their format. *)
In(q, f) == IF f = 0 THEN q ELSE Round(q, f)
Exact(v) == In(v.re, Format(v)) = v.re /\ In(v.im, Format(v)) = v.im

IsOperand(x) ==
  /\ Exact(x.v)
  /\ \/ /\ x \in [d : STRING \ {""}, v : IntValues \cup FloatValues \cup ComplexValues, err : {""}]
        /\ InRange(x.v.re, x.v)
     \/ x \in [d : {""}, v : UntIntegers \cup UntFloats \cup UntComplexes, err : {""}]

ASSUME OperandsAssumption == \A x \in NumberOperands : IsOperand(x)

(* Rounding gives a number, keeps infinities and zero, and does not        *)
(* reverse the order of two numbers.                                       *)
Formats == {4, 8, prec}
OperandNumbers == {x.v.re : x \in NumberOperands}

ASSUME RoundAssumption ==
  \A f \in Formats :
    /\ Round(Frac(0), f) = Frac(0)
    /\ \A q \in OperandNumbers :
         /\ Round(q, f) \in Int \X Nat
         /\ q[2] = 0 => Round(q, f) = q
         /\ \A p \in OperandNumbers : QLeq(p, q) => QLeq(Round(p, f), Round(q, f))

(* What the proofs need to know of powers of two. *)
ASSUME PowersAssumption ==
  \A size \in Sizes : /\ 2^(ByteBits * size - 1) \in Nat \ {0}
                      /\ 2^(ByteBits * size) = 2 * 2^(ByteBits * size - 1)

ASSUME BigBitsAssumption == BigBits \in Nat /\ \A i \in 0..BigBits : 2^i \in Nat \ {0}

OperandsInit == \E x \in NumberOperands : input = [kind |-> "operands", x |-> x, y |-> << >>]
OperandsNext ==
  /\ input.kind = "operands" /\ input.y = << >>
  /\ \E y \in NumberOperands : input' = [input EXCEPT !.y = <<y>>]

OperandsSpec == OperandsInit /\ [][OperandsNext]_input

-----------------------------------------------------------------------------
(* What a comparison of two numbers ought to say. *)
Holds(op, a, b) ==
  CASE op = "==" -> QEq(a, b) [] op = "!=" -> ~QEq(a, b)
    [] op = "<" -> QLess(a, b) [] op = ">" -> QLess(b, a)
    [] op = "<=" -> QLeq(a, b)

(* Each is a value of the other's type, if that is an integer type. *)
Fit(x, y) == InRange(x.v.re, y.v) /\ InRange(y.v.re, x.v)
Real(x, y) == x.v.im = Frac(0) /\ y.v.im = Frac(0)
Ordered(x, y) == {x.v.k, y.v.k} \cap {"complex", "untComplex"} = {}

(* The format in which two operands are compared: that of the typed one,   *)
(* or of a float if one of two constants is a float.                       *)
Common(x, y) ==
  IF x.d # "" THEN Format(x.v)
  ELSE IF y.d # "" THEN Format(y.v)
  ELSE IF {x.v.k, y.v.k} \subseteq {"untInt", "untRune"} THEN 0 ELSE prec

Compares(op, x, y, r) ==
  LET f == Common(x, y) IN
  IF x.d # "" /\ y.d # "" /\ ~SameKind(x.v, y.v) THEN r.err = "type mismatch"
  ELSE Fit(x, y) /\ Real(x, y) /\ (Ordered(x, y) \/ op \in {"==", "!="}) =>
         /\ r.err = ""
         /\ r.v.b = Holds(op, In(x.v.re, f), In(y.v.re, f))
         /\ op \in {"<", ">", "!="} /\ r.v.b => Holds(op, x.v.re, y.v.re)

(* Comparisons of numbers of any two kinds, one of them or both untyped,   *)
(* compare the numbers, a constant rounded to the format of the other      *)
(* operand, whenever the constant is a value of the other's type if that   *)
(* is an integer type.  Rounding may make two numbers equal, but <, > and  *)
(* != are only true of numbers of which they are true.  Typed numbers of   *)
(* two types do not compare.  ">=", which the code evaluates as "<=", is   *)
(* left out.                                                               *)
ComparisonsCompare ==
  input.kind = "operands" /\ input.y # << >> =>
    \A op \in {"==", "!=", "<", "<=", ">"} :
      Compares(op, input.x, input.y[1], evalBinaryOp(op, input.x, input.y[1]))

(* A result r converted to the type of v; a folded result and a typed one. *)
AsTyped(r, v) == convertUntyped(r, Result("T", v))
Agree(folded, typed, v) ==
  /\ folded.err = typed.err
  /\ folded.err = "" /\ InRange(folded.v.re, v) => typed = AsTyped(folded, v)

(* Constants are folded as the program would have computed: if operands    *)
(* and result fit a type, untyped and typed arithmetic agree.  Remainders  *)
(* of negative numbers are left out: those of constants are Euclid's.      *)
FoldingAgrees ==
  input.kind = "operands" /\ input.y # << >> /\ input.x.v.k = "untInt" /\ input.y[1].v.k = "untInt" =>
    \A op \in IntegerOps, v \in {Num("int", 2, Frac(0), Frac(0)), Num("uint", 2, Frac(0), Frac(0))} :
      LET x == input.x
          y == input.y[1]
      IN /\ InRange(x.v.re, v) /\ InRange(y.v.re, v)
         /\ op = "%" => x.v.re[1] >= 0
         => Agree(evalBinaryOp(op, x, y), evalBinaryOp(op, AsTyped(x, v), AsTyped(y, v)), v)
=============================================================================
