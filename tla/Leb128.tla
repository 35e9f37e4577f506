------------------------------- MODULE Leb128 -------------------------------
(***************************************************************************)
(* The two decoders of LEB128 integers: varint, uint and int of            *)
(* dwarf/buf.go, and sleb128 of server/dwarf.go, which reads the offsets   *)
(* of local variables.  They shift groups of seven bits into a machine     *)
(* word; a shift by the width of the word or more gives 0.  A shift by     *)
(* some bits is a multiplication by its weight, 2 to the power of bits;    *)
(* in place of the number of bits the loops keep the weight.               *)
(*                                                                         *)
(* A word of the code has 64 bits, nine groups and one bit.  A word of two *)
(* groups and one bit overflows in the same way, after three bytes instead *)
(* of ten.                                                                 *)
(***************************************************************************)
EXTENDS Integers, Sequences

CONSTANT Word     \* the number of values of a word, a power of two

ASSUME WordAssumption ==
  /\ Word \in Nat /\ Word > 1
  /\ \A d \in 1..Word : Word % d = 0 => d = 1 \/ d % 2 = 0

Shl(x, weight) == (x * weight) % Word
MinusOneShl(weight) == (0 - weight) % Word                   \* -1 << bits
Signed(x) == IF x < Word \div 2 THEN x ELSE x - Word        \* int64(x)

-----------------------------------------------------------------------------
(* varint: a round of the loop, which ends with the first byte without the *)
(* 0x80 bit.                                                               *)
varintStart == [c |-> 0, weight |-> 1, read |-> 0, more |-> TRUE]

varintByte(u, b) ==
  IF ~u.more THEN u
  ELSE [c |-> (u.c + Shl(b % 128, u.weight)) % Word,
        weight |-> 128 * u.weight,
        read |-> u.read + 1,
        more |-> b >= 128]

(* varint consumes nothing when the terminating byte is missing. *)
varint(u, v) == [c |-> IF u.more THEN 0 ELSE u.c,
                 weight |-> IF u.more THEN 1 ELSE u.weight,
                 rest |-> IF u.more THEN v ELSE SubSeq(v, u.read + 1, Len(v))]

(* x&(1<<(bits-1)) != 0, where half is the weight of that bit, 0 if bits   *)
(* is 0 and the shift too large.                                           *)
SignBit(x, half) == half > 0 /\ half < Word /\ (x \div half) % 2 = 1

(* A faulty variant: the sign is taken one bit too high. *)
intNextBit(u, v) ==
  LET x == varint(u, v) IN
  Signed(IF SignBit(x.c, x.weight) THEN (x.c + MinusOneShl(x.weight)) % Word ELSE x.c)

(* x |= -1 << bits, where the bits from bits on are 0. *)
int(u, v) ==
  LET x == varint(u, v) IN
  Signed(IF SignBit(x.c, x.weight \div 2) THEN (x.c + MinusOneShl(x.weight)) % Word ELSE x.c)

-----------------------------------------------------------------------------
(* sleb128: a round of the loop, which shifts the sign with the groups and *)
(* puts it in front of the last one.                                       *)
sleb128Start == [s |-> 0, weight |-> 1, sign |-> Word - 1, read |-> 0, more |-> TRUE]

(* A faulty variant: the sign is shifted once, not with every group. *)
sleb128ByteSignOnce(t, b) ==
  IF ~t.more THEN t
  ELSE LET s == (t.s + Shl(b % 128, t.weight)) % Word
       IN  [s |-> IF b < 128 /\ b % 128 >= 64 THEN (s + MinusOneShl(128)) % Word ELSE s,
            weight |-> 128 * t.weight,
            sign |-> MinusOneShl(128),
            read |-> t.read + 1,
            more |-> b >= 128]

sleb128Byte(t, b) ==
  IF ~t.more THEN t
  ELSE LET s == (t.s + Shl(b % 128, t.weight)) % Word
           sign == Shl(t.sign, 128)
       IN  [s |-> IF b < 128 /\ b % 128 >= 64 THEN (s + sign) % Word ELSE s,
            weight |-> 128 * t.weight,
            sign |-> sign,
            read |-> t.read + 1,
            more |-> b >= 128]

(* sleb128 reads to the end of the input when the terminating byte is      *)
(* missing.  The error is returned when i == len(v) after the loop, where  *)
(* i is the index of the last byte read, or 0.                             *)
sleb128(t, v) ==
  LET i == IF t.read = 0 THEN 0 ELSE t.read - 1
  IN  [s |-> Signed(t.s), rest |-> SubSeq(v, i + 2, Len(v)), err |-> i = Len(v)]
=============================================================================
