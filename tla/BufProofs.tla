------------------------------ MODULE BufProofs ------------------------------
(***************************************************************************)
(* Proofs about the buffer of the DWARF decoder, for sections of any       *)
(* length.                                                                 *)
(***************************************************************************)
EXTENDS Buf, TLAPS, SequenceTheorems, WellFoundedInduction

(* Dropping a prefix of a suffix leaves a suffix. *)
LEMMA SuffixOfSuffix ==
  ASSUME NEW S, NEW s \in Seq(S), NEW o \in 0..Len(s), NEW n \in 0..(Len(s) - o)
  PROVE  /\ SubSeq(s, o + 1, Len(s)) \in Seq(S)
         /\ Len(SubSeq(s, o + 1, Len(s))) = Len(s) - o
         /\ SubSeq(SubSeq(s, o + 1, Len(s)), n + 1, Len(s) - o)
              = SubSeq(s, o + n + 1, Len(s))
<1>1. Len(s) \in Nat /\ \A i \in 1..Len(s) : s[i] \in S
  OBVIOUS
<1>2. \A i \in (o + 1)..Len(s) : s[i] \in S
  BY <1>1
<1>3. /\ SubSeq(s, o + 1, Len(s)) \in Seq(S)
      /\ Len(SubSeq(s, o + 1, Len(s))) = IF o + 1 <= Len(s) THEN Len(s) - (o + 1) + 1 ELSE 0
  BY <1>1, <1>2, SubSeqProperties
<1>4. Len(SubSeq(s, o + 1, Len(s))) = Len(s) - o
  BY <1>1, <1>3
<1>5. CASE n = Len(s) - o
  <2>1. Len(s) - o < n + 1 /\ Len(s) < o + n + 1
    BY <1>1, <1>5
  <2>2. SubSeq(SubSeq(s, o + 1, Len(s)), n + 1, Len(s) - o) = << >>
    BY <1>1, <2>1, SubSeqEmpty
  <2>3. SubSeq(s, o + n + 1, Len(s)) = << >>
    BY <1>1, <2>1, SubSeqEmpty
  <2>4. QED
    BY <1>3, <1>4, <2>2, <2>3
<1>6. CASE n < Len(s) - o
  <2>1. /\ o + 1 \in 1..Len(s) /\ Len(s) \in 1..Len(s)
        /\ n + 1 \in 1..(Len(s) - (o + 1) + 1)
        /\ Len(s) - o \in 1..(Len(s) - (o + 1) + 1)
    BY <1>1, <1>6
  <2>2. SubSeq(SubSeq(s, o + 1, Len(s)), n + 1, Len(s) - o)
          = SubSeq(s, (o + 1) + (n + 1) - 1, (o + 1) + (Len(s) - o) - 1)
    BY <2>1, SubSeqOfSubSeq
  <2>3. (o + 1) + (n + 1) - 1 = o + n + 1 /\ (o + 1) + (Len(s) - o) - 1 = Len(s)
    BY <1>1
  <2>4. QED
    BY <1>3, <1>4, <2>2, <2>3
<1>7. QED
  BY <1>1, <1>5, <1>6

(* A non-empty set of natural numbers has a least element. *)
LEMMA LeastNat ==
  ASSUME NEW T, T \subseteq Nat, T # {}
  PROVE  \E x \in T : \A y \in T : x <= y
<1> DEFINE R == OpToRel(<, Nat)
<1>1. \A x, y \in Nat : x < y => <<x, y>> \in R
  BY DEF OpToRel
<1>2. IsWellFoundedOn(R, Nat)
  BY NatLessThanWellFounded
<1> HIDE DEF R
<1>3. PICK x \in T : \A y \in T : ~(<<y, x>> \in R)
  BY <1>2, WFMin
<1>4. \A y \in T : ~(y < x)
  BY <1>1, <1>3, Zenon
<1>5. \A y \in T : x <= y
  BY <1>4
<1>6. QED
  BY <1>5

(* varint and string look no further than their data. *)
LEMMA UpToBound ==
  ASSUME data \in Seq(ByteKinds), NEW kinds
  PROVE  /\ UpTo(kinds) \in 0..Len(data)
         /\ UpTo(kinds) # 0 => data # << >>
<1>1. CASE \E i \in DOMAIN data : data[i] \in kinds
  <2> DEFINE T == {i \in DOMAIN data : data[i] \in kinds}
  <2>1. Len(data) \in Nat /\ DOMAIN data = 1..Len(data) /\ T \subseteq Nat /\ T # {}
    BY <1>1
  <2>2. PICK x \in T : \A y \in T : x <= y
    BY <2>1, LeastNat
  <2>3. \A j \in 1..(x - 1) : data[j] \notin kinds
    BY <2>1, <2>2
  <2>4. \E i \in DOMAIN data : data[i] \in kinds /\ \A j \in 1..(i - 1) : data[j] \notin kinds
    BY <2>2, <2>3
  <2>5. UpTo(kinds) \in DOMAIN data
    BY <1>1, <2>4, Zenon DEF UpTo
  <2>6. QED
    BY <2>1, <2>5
<1>2. CASE ~\E i \in DOMAIN data : data[i] \in kinds
  BY <1>2 DEF UpTo
<1>3. QED
  BY <1>1, <1>2

-----------------------------------------------------------------------------
(* After an error there is no data; before one, data and offset agree. *)
BufInv == TypeOK /\ OffsetMatchesData /\ (err => data = << >>)

LEMMA TakeKeepsInv ==
  ASSUME BufInv, SectionsAssumption, NEW n \in 0..Len(data), Take(n), UNCHANGED section,
         val' \in BOOLEAN
  PROVE  BufInv'
<1>1. section \in Seq(ByteKinds) /\ data \in Seq(ByteKinds) /\ off \in 0..Len(section)
  BY DEF BufInv, TypeOK, SectionsAssumption
<1>2. Len(section) \in Nat /\ Len(data) \in Nat
  BY <1>1
<1>3. CASE ~err
  <2>1. data = SubSeq(section, off + 1, Len(section))
    BY <1>3 DEF BufInv, OffsetMatchesData
  <2>2. Len(data) = Len(section) - off
    BY <1>1, <1>2, <2>1, SuffixOfSuffix
  <2>3. n \in 0..(Len(section) - off) /\ off + n \in 0..Len(section)
    BY <1>1, <1>2, <2>2
  <2>4. /\ data' = SubSeq(section, off + n + 1, Len(section))
        /\ off' = off + n /\ err' = FALSE
    BY <1>1, <1>3, <2>1, <2>2, <2>3, SuffixOfSuffix DEF Take, BufInv, TypeOK
  <2>5. data' \in Seq(ByteKinds)
    BY <1>1, <2>3, <2>4, SuffixOfSuffix
  <2>6. QED
    BY <2>3, <2>4, <2>5 DEF BufInv, TypeOK, OffsetMatchesData
<1>4. CASE err
  <2>1. data = << >> /\ n = 0
    BY <1>2, <1>4 DEF BufInv
  <2>2. data' = << >> /\ off' = off /\ err'
    BY <1>1, <1>4, <2>1, SubSeqEmpty DEF Take
  <2>3. QED
    BY <1>1, <1>4, <2>2 DEF BufInv, TypeOK, OffsetMatchesData, Take
<1>5. QED
  BY <1>3, <1>4

LEMMA FailKeepsInv ==
  ASSUME BufInv, Fail, UNCHANGED section, val' \in BOOLEAN
  PROVE  BufInv'
BY DEF BufInv, TypeOK, OffsetMatchesData, Fail

(* BufInv is inductive, and after an error every getter returns zero. *)
LEMMA BufStep ==
  ASSUME SectionsAssumption, SizesAssumption, BufInv, [Next]_vars
  PROVE  BufInv' /\ (~UNCHANGED vars /\ err => err' /\ ~val')
<1>0. /\ section \in Seq(ByteKinds) /\ data \in Seq(ByteKinds)
      /\ Len(data) \in Nat /\ (err => data = << >>)
  BY DEF BufInv, TypeOK, SectionsAssumption
<1>1. ASSUME NEW n \in Sizes, GetBytes(n)
      PROVE  BufInv' /\ (err => err' /\ ~val')
  <2>1. CASE Len(data) < n
    BY <1>1, <2>1, FailKeepsInv DEF GetBytes, Failed, Fail
  <2>2. CASE ~(Len(data) < n)
    <3>1. n \in 0..Len(data) /\ (err => n = 0)
      BY <1>0, <2>2 DEF SizesAssumption
    <3>2. Take(n) /\ val' = (\E i \in 1..n : data[i] # "nul") /\ UNCHANGED section
      BY <1>1, <2>2 DEF GetBytes
    <3>3. val' \in BOOLEAN
      BY <1>0, <3>2
    <3>4. BufInv'
      BY <3>1, <3>2, <3>3, TakeKeepsInv
    <3>5. err => err' /\ ~val'
      BY <3>1, <3>2 DEF Take
    <3>6. QED
      BY <3>4, <3>5
  <2>3. QED
    BY <2>1, <2>2
<1>2. ASSUME GetString
      PROVE  BufInv' /\ (err => err' /\ ~val')
  <2>1. PICK n \in 0..Len(data) : n = UpTo({"nul"}) /\ (n # 0 => data # << >>)
    BY <1>0, UpToBound
  <2>2. CASE n = 0
    BY <1>2, <2>1, <2>2, FailKeepsInv DEF GetString, Failed, Fail
  <2>3. CASE n # 0
    <3>1. Take(n) /\ val' = (n > 1) /\ UNCHANGED section
      BY <1>2, <2>1, <2>3 DEF GetString
    <3>2. val' \in BOOLEAN
      BY <1>0, <3>1
    <3>3. QED
      BY <1>0, <2>1, <2>3, <3>1, <3>2, TakeKeepsInv
  <2>4. QED
    BY <2>2, <2>3
<1>3. ASSUME GetVarint
      PROVE  BufInv' /\ (err => err' /\ ~val')
  <2>1. PICK n \in 0..Len(data) : n = UpTo({"nul", "last"}) /\ (n # 0 => data # << >>)
    BY <1>0, UpToBound
  <2>2. /\ Take(n) /\ UNCHANGED section
        /\ val' \in BOOLEAN /\ (n = 0 => ~val')
    BY <1>3, <2>1 DEF GetVarint
  <2>3. err => err' /\ ~val'
    BY <1>0, <2>1, <2>2 DEF Take
  <2>4. QED
    BY <2>2, <2>3, TakeKeepsInv
<1>4. ASSUME AssertEmpty
      PROVE  BufInv' /\ (err => err' /\ ~val')
  <2>1. UNCHANGED section /\ val' = FALSE
    BY <1>4 DEF AssertEmpty
  <2>2. CASE data = << >>
    BY <1>4, <2>1, <2>2 DEF AssertEmpty, BufInv, TypeOK, OffsetMatchesData
  <2>3. CASE data # << >>
    BY <1>4, <2>1, <2>3, FailKeepsInv DEF AssertEmpty, Fail
  <2>4. QED
    BY <2>2, <2>3
<1>5. CASE UNCHANGED vars
  BY <1>5 DEF vars, BufInv, TypeOK, OffsetMatchesData
<1>6. QED
  BY <1>1, <1>2, <1>3, <1>4, <1>5 DEF Next

LEMMA BufInit ==
  ASSUME SectionsAssumption, Init
  PROVE  BufInv
<1>1. section \in Seq(ByteKinds) /\ Len(section) \in Nat
  BY DEF Init, SectionsAssumption
<1>2. SubSeq(section, 1, Len(section)) = section
  BY <1>1, SubSeqFull
<1>3. off + 1 = 1 /\ off \in 0..Len(section)
  BY <1>1 DEF Init
<1>4. OffsetMatchesData
  BY <1>2, <1>3, Zenon DEF Init, OffsetMatchesData
<1>5. QED
  BY <1>1, <1>3, <1>4 DEF Init, BufInv, TypeOK

-----------------------------------------------------------------------------
(* The offset is where the data starts, after any sequence of getters. *)
THEOREM OffsetIsExact == Spec => []OffsetMatchesData
<1>1. BufInv => OffsetMatchesData
  BY DEF BufInv
<1>2. QED
  BY <1>1, BufInit, BufStep, SectionsAssumption, SizesAssumption, PTL DEF Spec

(* The offset never leaves the section. *)
THEOREM BufTyping == Spec => []TypeOK
<1>1. BufInv => TypeOK
  BY DEF BufInv
<1>2. QED
  BY <1>1, BufInit, BufStep, SectionsAssumption, SizesAssumption, PTL DEF Spec

(* After an error every getter returns zero, for ever. *)
THEOREM EndlessZeros == Spec => ZerosAfterError
<1>1. BufInv /\ [Next]_vars => [err => err' /\ ~val']_vars
  BY BufStep, SectionsAssumption, SizesAssumption
<1>2. QED
  BY <1>1, BufInit, BufStep, SectionsAssumption, SizesAssumption, PTL
  DEF Spec, ZerosAfterError
=============================================================================
