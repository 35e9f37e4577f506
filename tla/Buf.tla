--------------------------------- MODULE Buf ---------------------------------
(***************************************************************************)
(* The buffer from which all DWARF data is decoded (dwarf/buf.go): the     *)
(* rest of a section, the offset of its first byte, and a sticky error.    *)
(* Every caller (entries, abbreviations, units, line and frame programs)   *)
(* is a sequence of these getters, in an order that the data decides.      *)
(*                                                                         *)
(* The value of a getter is abstracted to whether it may be other than     *)
(* zero; what varints stand for is in module Leb128.  A byte is "nul",     *)
(* "more" (the 0x80 bit is set) or "last" (neither).                       *)
(***************************************************************************)
EXTENDS Integers, Sequences

CONSTANTS Sections,   \* the sections that are decoded
          Sizes       \* the arguments of bytes and skip, and sizes of integers

ByteKinds == {"nul", "more", "last"}

ASSUME SectionsAssumption == Sections \subseteq Seq(ByteKinds)
ASSUME SizesAssumption == Sizes \subseteq Nat

VARIABLES section,   \* the whole section
          data,      \* b.data
          off,       \* b.off, from the start of the section
          err,       \* b.err # nil
          val        \* did the last getter return something other than zero?

vars == <<section, data, off, err, val>>

(* The variables keep their types, and the offset is inside the section. *)
TypeOK ==
  /\ section \in Sections
  /\ data \in Seq(ByteKinds)
  /\ off \in 0..Len(section)
  /\ err \in BOOLEAN
  /\ val \in BOOLEAN

Init ==
  /\ section \in Sections
  /\ data = section
  /\ off = 0
  /\ err = FALSE
  /\ val = FALSE

-----------------------------------------------------------------------------
(* A faulty variant: the error leaves the data in place. *)
FailKeepsData == err' = TRUE /\ UNCHANGED <<data, off>>

(* b.error: the data is dropped, the first error is kept. *)
Fail ==
  /\ err' = TRUE
  /\ data' = IF err THEN data ELSE << >>
  /\ UNCHANGED off

(* A faulty variant: the offset is advanced by one. *)
TakeOffByOne(n) ==
  /\ data' = SubSeq(data, n + 1, Len(data))
  /\ off' = IF n = 0 THEN off ELSE off + 1
  /\ UNCHANGED err

Take(n) ==
  /\ data' = SubSeq(data, n + 1, Len(data))
  /\ off' = off + n
  /\ UNCHANGED err

Failed == Fail /\ val' = FALSE /\ UNCHANGED section

(* bytes and skip; uint8, uint16, uint32, uint64 and addr for their sizes. *)
GetBytes(n) ==
  IF Len(data) < n THEN Failed
  ELSE /\ Take(n)
       /\ val' = \E i \in 1..n : data[i] # "nul"
       /\ UNCHANGED section

(* The length of the shortest prefix that ends in a byte of kinds, or 0. *)
UpTo(kinds) ==
  IF \E i \in DOMAIN data : data[i] \in kinds
  THEN CHOOSE i \in DOMAIN data : /\ data[i] \in kinds
                                  /\ \A j \in 1..(i - 1) : data[j] \notin kinds
  ELSE 0

GetString ==
  LET n == UpTo({"nul"}) IN
  IF n = 0 THEN Failed
  ELSE /\ Take(n)
       /\ val' = (n > 1)
       /\ UNCHANGED section

(* uint and int: without a terminating byte, nothing is consumed and       *)
(* nothing is reported.  Bytes with the 0x80 bit may add nothing, and so   *)
(* may the last one when it is shifted beyond the 64 bits of the result.   *)
GetVarint ==
  LET n == UpTo({"nul", "last"}) IN
  /\ Take(n)
  /\ val' \in {b \in BOOLEAN : (n = 0 => ~b) /\ (n \in 1..9 /\ data[n] = "last" => b)}
  /\ UNCHANGED section

AssertEmpty ==
  /\ IF data = << >> THEN UNCHANGED <<data, off, err>> ELSE Fail
  /\ val' = FALSE
  /\ UNCHANGED section

Next == \/ \E n \in Sizes : GetBytes(n)
        \/ GetString \/ GetVarint \/ AssertEmpty

Spec == Init /\ [][Next]_vars

-----------------------------------------------------------------------------
(* The offset kept beside the data is where the data really starts, after  *)
(* any sequence of getters: entries are found again by these offsets.      *)
OffsetMatchesData == ~err => data = SubSeq(section, off + 1, Len(section))

(* dwarf/entry.go: "the buf getters returning an endless stream of 0s      *)
(* after an error", which lets parsers look at the error once, at the end. *)
ZerosAfterError == [][err => err' /\ ~val']_vars
=============================================================================
