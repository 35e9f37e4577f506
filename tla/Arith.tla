------------------------------- MODULE Arith -------------------------------
(***************************************************************************)
(* Numbers: Go's integers of a fixed width, the big integers and floats of *)
(* math/big, and floating-point numbers.  A number is a fraction <<n, d>>; *)
(* d = 0 is +Inf, -Inf or NaN by the sign of n, and zero has no sign.      *)
(* Numbers as values of the program, and outcomes of reading a value.      *)
(***************************************************************************)
EXTENDS Integers, Sequences

CONSTANTS ByteBits,     \* bits of a byte
          BigBits       \* bits beyond which big integers are not computed with

Abs(n) == IF n < 0 THEN -n ELSE n
Sign(n) == IF n < 0 THEN -1 ELSE IF n = 0 THEN 0 ELSE 1

(* The value of the low w bits of n, unsigned and in two's complement. *)
Low(n, w) == n % 2^w
TwosComp(n, w) == IF Low(n, w) >= 2^(w - 1) THEN Low(n, w) - 2^w ELSE Low(n, w)

(* Bitwise operators, bit by bit; operands are taken to BigBits bits. *)
Bit(n, i) == (n \div 2^i) % 2

Bitwise2(op, a, b) ==
  LET sum[i \in 0..BigBits] ==
        IF i = 0 THEN 0 ELSE sum[i - 1] + 2^(i - 1) * op[Bit(a, i - 1)][Bit(b, i - 1)]
  IN TwosComp(sum[BigBits], BigBits)

Or(a, b) == Bitwise2([p \in 0..1 |-> [q \in 0..1 |-> IF p + q > 0 THEN 1 ELSE 0]], a, b)
And(a, b) == Bitwise2([p \in 0..1 |-> [q \in 0..1 |-> p * q]], a, b)
Xor(a, b) == Bitwise2([p \in 0..1 |-> [q \in 0..1 |-> (p + q) % 2]], a, b)
AndNot(a, b) == Bitwise2([p \in 0..1 |-> [q \in 0..1 |-> p * (1 - q)]], a, b)

(* Division truncated towards zero, its remainder, and Euclid's remainder. *)
Quo(a, b) == Sign(a) * Sign(b) * (Abs(a) \div Abs(b))
Rem(a, b) == a - b * Quo(a, b)
Mod(a, b) == a % Abs(b)

-----------------------------------------------------------------------------
Frac(n) == <<n, 1>>
NaN == <<0, 0>>
Inf == <<1, 0>>

IsInt(x) == x[2] # 0 /\ x[1] % x[2] = 0
IntOf(x) == x[1] \div x[2]

QNeg(x) == <<-x[1], x[2]>>

QAdd(x, y) ==
  IF x[2] = 0 /\ y[2] = 0 THEN IF x = y THEN x ELSE NaN
  ELSE IF x[2] = 0 THEN x
  ELSE IF y[2] = 0 THEN y
  ELSE <<x[1] * y[2] + y[1] * x[2], x[2] * y[2]>>

QSub(x, y) == QAdd(x, QNeg(y))

QMul(x, y) ==
  IF x[2] * y[2] = 0 THEN <<Sign(x[1]) * Sign(y[1]), 0>>
  ELSE <<x[1] * y[1], x[2] * y[2]>>

QInv(x) ==
  IF x[1] = 0 THEN IF x[2] = 0 THEN NaN ELSE Inf
  ELSE <<Sign(x[1]) * x[2], Abs(x[1])>>

QQuo(x, y) == QMul(x, QInv(y))

QEq(x, y) == x # NaN /\ y # NaN /\ IF x[2] = 0 /\ y[2] = 0 THEN x = y ELSE x[1] * y[2] = y[1] * x[2]
QLess(x, y) ==
  /\ x # NaN /\ y # NaN
  /\ IF x[2] = 0 /\ y[2] = 0 THEN x[1] < y[1] ELSE x[1] * y[2] < y[1] * x[2]
QLeq(x, y) == QLess(x, y) \/ QEq(x, y)

-----------------------------------------------------------------------------
(* A number of a kind and size; its imaginary part is 0 unless it is complex. *)
Num(k, size, re, im) == [k |-> k, size |-> size, re |-> re, im |-> im]

Nil == [k |-> "nil"]
OK(v) == [v |-> v, err |-> ""]
Fail(e) == [v |-> Nil, err |-> e]
=============================================================================
