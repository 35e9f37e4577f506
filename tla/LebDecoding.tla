---------------------------- MODULE LebDecoding ----------------------------
(***************************************************************************)
(* The two decoders of module Leb128 side by side, on an input that comes  *)
(* byte by byte.  encoded is a history: the number that the bytes up to    *)
(* the first one without the 0x80 bit stand for, computed without words.   *)
(***************************************************************************)
EXTENDS Leb128, Input

CONSTANTS Octets, MaxBytes     \* encodings: their bytes, their length

ASSUME OctetsAssumption == Octets \subseteq 0..255 /\ MaxBytes \in Nat

Complete(v) == \E i \in DOMAIN v : v[i] < 128

LebInit ==
  input = [kind |-> "leb128", v |-> << >>, u |-> varintStart, t |-> sleb128Start,
           encoded |-> [sum |-> 0, weight |-> 1, top |-> 0]]

(* encoded, after a byte that belongs to the encoding. *)
Encoded(e, b) == [sum |-> e.sum + (b % 128) * e.weight, weight |-> 128 * e.weight,
                  top |-> b % 128]

LebNext ==
  /\ input.kind = "leb128" /\ Len(input.v) < MaxBytes
  /\ \E b \in Octets :
       input' = [input EXCEPT !.v = Append(@, b),
                              !.u = varintByte(@, b),
                              !.t = sleb128Byte(@, b),
                              !.encoded = IF Complete(input.v) THEN @ ELSE Encoded(@, b)]

LebSpec == LebInit /\ [][LebNext]_input

-----------------------------------------------------------------------------
(* What a complete encoding stands for: two's complement, in as many bits  *)
(* as its groups have.                                                     *)
Number(e) == IF e.top >= 64 THEN e.sum - e.weight ELSE e.sum

(* int of dwarf/buf.go returns the number that a complete encoding stands  *)
(* for, whenever it fits in a word, whatever its length.                   *)
IntDecodes ==
  input.kind = "leb128" =>
    LET n == Number(input.encoded) IN
    Complete(input.v) /\ n >= -(Word \div 2) /\ n < Word \div 2
      => int(input.u, input.v) = n

(* sleb128 of server/dwarf.go and int of dwarf/buf.go agree on every       *)
(* complete encoding, also on those that overflow, and stop at the same    *)
(* byte.                                                                   *)
DecodersAgree ==
  input.kind = "leb128" =>
    LET offset == sleb128(input.t, input.v) IN
    Complete(input.v) => /\ ~offset.err
                         /\ offset.s = int(input.u, input.v)
                         /\ offset.rest = varint(input.u, input.v).rest
=============================================================================
