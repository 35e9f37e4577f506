------------------------------ MODULE SliceOps ------------------------------
(***************************************************************************)
(* Elements of arrays and slices, and slice expressions on slices and      *)
(* strings (server/eval.go, program.go).  Bounds are sets: {} stands for   *)
(* one that the expression lacks.                                          *)
(***************************************************************************)
EXTENDS EvalOps

CONSTANT BaseTypes      \* names that getBaseType finds

(* Array.Element and the Element that Slice inherits. *)
Element(v, index) == v.a + index * v.stride

(* uint8Result and stringResult: an error leaves the value in place. *)
baseResult(name, v) ==
  IF name \in BaseTypes THEN Result(name, v)
  ELSE [d |-> "", v |-> v, err |-> "couldn't construct"]

uint8Result(c) == baseResult("uint8", Num("uint", 1, Frac(c), Frac(0)))
stringResult(s) == baseResult("string", [k |-> "String", len |-> Len(s), str |-> s])

(* A faulty variant: a slice of a slice keeps the whole capacity. *)
cutSliceKeepsCapacity(v, low, high, max) ==
  [v EXCEPT !.a = @ + low * v.stride, !.len = high - low]

(* The assignments to a slice that is cut to low, high and max. *)
cutSlice(v, low, high, max) ==
  [v EXCEPT !.a = @ + low * v.stride, !.len = high - low, !.cap = max - low]

sliceSlice(x, low, high, max) ==
  LET v == x.v
      h == IF high = {} THEN v.len ELSE CHOOSE u \in high : TRUE
      m == IF max = {} THEN v.cap ELSE CHOOSE u \in max : TRUE
  IN IF high # {} /\ h > v.cap THEN Err("slice upper bound is too large")
     ELSE IF m > v.cap THEN Err("slice capacity is too large")
     ELSE IF low > h \/ h > m THEN Err("invalid slice index")
     ELSE Result(x.d, cutSlice(v, low, h, m))

(* A string whose bytes were truncated keeps those it has of the slice. *)
sliceString(x, low, high, max) ==
  LET v == x.v
      len == IF v.k = "String" THEN v.len ELSE Len(v.str)
      h == IF high = {} THEN len ELSE CHOOSE u \in high : TRUE
      have == IF h > Len(v.str) THEN Len(v.str) ELSE h
      part == IF low > Len(v.str) THEN << >> ELSE SubSeq(v.str, low + 1, have)
  IN IF max # {} THEN Err("full slice of string")
     ELSE IF low > h \/ h > len THEN Err("invalid slice index")
     ELSE IF v.k = "String" THEN Result(x.d, [v EXCEPT !.len = h - low, !.str = part])
     ELSE stringResult(part)
=============================================================================
