---------------------------- MODULE MCNumberOps ----------------------------
(***************************************************************************)
(* Small floating-point formats, and operands that they round: a float32   *)
(* has 3 bits, a float64 has 5, an untyped float has 10.                   *)
(***************************************************************************)
EXTENDS NumberOps, TLC

Bits == 4 :> 3 @@ 8 :> 5 @@ prec :> 10
Smallest == 4 :> -2 @@ 8 :> -4 @@ prec :> -9     \* the exponent of the least number
Largest == 4 :> 5 @@ 8 :> 10 @@ prec :> 20       \* numbers are below 2^Largest

(* To nearest, ties to even; what is too large becomes an infinity. *)
MCRound(q, f) ==
  LET n == Abs(q[1])
      Up(e) == IF e > 0 THEN 2^e ELSE 1
      Down(e) == IF e < 0 THEN 2^(-e) ELSE 1
      \* In units of 2^e, the number has as many bits as the format.
      e == CHOOSE e \in Smallest[f]..Largest[f] :
             /\ n * Down(e) < 2^Bits[f] * Up(e) * q[2]
             /\ e = Smallest[f] \/ 2 * n * Down(e) >= 2^Bits[f] * Up(e) * q[2]
      unit == Up(e) * q[2]
      m == (n * Down(e)) \div unit
      rest == 2 * ((n * Down(e)) % unit)
      near == IF rest > unit \/ (rest = unit /\ m % 2 = 1) THEN m + 1 ELSE m
  IN IF q[2] = 0 THEN q
     ELSE IF f # prec /\ n >= 2^Largest[f] * q[2] THEN <<Sign(q[1]), 0>>
     ELSE IF rest = 0 THEN q
     ELSE IF f # prec /\ near * Up(e) >= 2^Largest[f] * Down(e) THEN <<Sign(q[1]), 0>>
     ELSE <<Sign(q[1]) * near * Up(e), Down(e)>>

MCFloats(size, qs) == {Result("float", Num("float", size, q, Frac(0))) : q \in qs}
MCInts(k, size, ns) == {Result(k, Num(k, size, Frac(n), Frac(0))) : n \in ns}
MCConstants(ks, qs) == {Result("", Untyped(k, q, Frac(0))) : k \in ks, q \in qs}

MCNumberOperands ==
  MCInts("int", 1, -2..1) \cup MCInts("uint", 1, 0..3)
  \cup MCInts("int", 2, {-8, -3, -1, 0, 1, 3, 7})
  \cup MCFloats(4, {Frac(-2), <<1, 2>>, Frac(4), Frac(8), Inf, NaN})
  \cup MCFloats(8, {Frac(-1), Frac(0), <<1, 2>>, Frac(2), Frac(32)})
  \cup {Result("complex", Num("complex", 16, Frac(1), im)) : im \in {Frac(0), Frac(1)}}
  \cup {Result("complex", Num("complex", 8, Frac(8), Frac(0)))}
  \cup MCConstants(DOMAIN Rank, {Frac(n) : n \in {-8, -2, -1, 0, 1, 2, 3, 7, 9, 33, 1024}})
  \cup MCConstants({"untInt", "untRune"}, {Frac(1025)})
  \cup MCConstants({"untFloat", "untComplex"}, {<<1, 2>>, <<9, 2>>})
  \cup {Result("", Untyped("untComplex", Frac(1), Frac(1)))}
=============================================================================
