------------------------- MODULE FrameMachineProofs -------------------------
(***************************************************************************)
(* The offset that PCToSPOffset returns, for every table.                  *)
(***************************************************************************)
EXTENDS FrameMachine, TLAPS

(* While run executes instructions, its location is that of the            *)
(* instruction; once it has passed the PC, so have all that follow.        *)
InStep ==
  /\ phase = "cie" => location = here
  /\ phase = "fde" /\ location <= pc => location = here

(* Between two FDEs the offset is the one that the CIE gave. *)
OffsetKept == phase = "scan" => cfaOffset = initial

FrameInv == TypeOK /\ InStep /\ OffsetKept /\ OffsetInForce

LEMMA FrameInit ==
  ASSUME FrameAssumption, Init
  PROVE  FrameInv
BY DEF Init, FrameInv, TypeOK, InStep, OffsetKept, OffsetInForce, FrameAssumption

LEMMA DefineInv ==
  ASSUME FrameAssumption, FrameInv, NEW o \in Int, Define(o)
  PROVE  FrameInv'
<1>0. /\ rows \in Seq(Row) /\ here \in Nat /\ location \in 0..here /\ pc \in PCs
      /\ cfaOffset \in Int
  BY DEF FrameInv, TypeOK
<1>1. <<here, o>> \in Row /\ <<here, o>>[1] = here /\ <<here, o>>[2] = o
  BY <1>0 DEF Row
<1>2. PICK n \in Nat : n = Len(rows)
  BY <1>0
<1>3. /\ rows' = Append(rows, <<here, o>>)
      /\ rows' \in Seq(Row)
      /\ Len(rows') = n + 1
      /\ DOMAIN rows = 1..n /\ DOMAIN rows' = 1..(n + 1)
      /\ \A i \in 1..n : rows'[i] = rows[i]
      /\ rows'[n + 1] = <<here, o>>
  BY <1>0, <1>1, <1>2 DEF Define
<1>4. /\ UNCHANGED <<phase, pc, location, here, initial>> /\ Reading
      /\ cfaOffset' = IF Running THEN o ELSE cfaOffset
  BY DEF Define
<1>5. TypeOK'
  BY <1>0, <1>3, <1>4 DEF FrameInv, TypeOK
<1>6. InStep' /\ OffsetKept'
  BY <1>4 DEF FrameInv, InStep, OffsetKept, Reading
<1>7. OffsetInForce'
  <2>1. SUFFICES ASSUME phase = "fde"
                 PROVE  \E i \in DOMAIN rows' :
                          /\ rows'[i][1] <= pc
                          /\ \A j \in (i + 1)..Len(rows') : rows'[j][1] > pc
                          /\ cfaOffset' = rows'[i][2]
    BY <1>4 DEF OffsetInForce, Reading
  <2>2. CASE location <= pc
    <3>1. cfaOffset' = o /\ here <= pc
      BY <1>4, <2>1, <2>2 DEF Running, FrameInv, InStep
    <3>2. n + 1 \in DOMAIN rows' /\ (n + 1 + 1)..Len(rows') = {}
      BY <1>3
    <3>3. rows'[n + 1][1] <= pc /\ cfaOffset' = rows'[n + 1][2]
      BY <1>1, <1>3, <3>1
    <3>4. QED
      BY <3>2, <3>3
  <2>3. CASE ~(location <= pc)
    <3>1. cfaOffset' = cfaOffset
      BY <1>4, <2>1, <2>3 DEF Running
    <3>2. PICK i \in DOMAIN rows : /\ rows[i][1] <= pc
                                   /\ \A j \in (i + 1)..Len(rows) : rows[j][1] > pc
                                   /\ cfaOffset = rows[i][2]
      BY <2>1 DEF FrameInv, OffsetInForce
    <3>3. i \in DOMAIN rows' /\ rows'[i] = rows[i]
      BY <1>3
    <3>4. \A j \in (i + 1)..(n + 1) : j \in (i + 1)..n \/ j = n + 1
      BY <1>3
    <3>5. here > pc
      BY <1>0, <2>3 DEF FrameAssumption
    <3>6. \A j \in (i + 1)..(n + 1) : rows'[j][1] > pc
      <4>1. \A j \in (i + 1)..n : rows'[j] = rows[j] /\ rows[j][1] > pc
        BY <1>2, <1>3, <3>2
      <4>2. rows'[n + 1][1] > pc
        BY <1>1, <1>3, <3>5
      <4>3. QED
        BY <3>4, <4>1, <4>2
    <3>7. QED
      BY <1>3, <3>1, <3>2, <3>3, <3>6
  <2>4. QED
    BY <2>2, <2>3
<1>8. QED
  BY <1>5, <1>6, <1>7 DEF FrameInv

LEMMA FrameStep ==
  ASSUME FrameAssumption, FrameInv, [Next]_vars
  PROVE  FrameInv'
<1>0. /\ rows \in Seq(Row) /\ here \in Nat /\ location \in 0..here /\ pc \in PCs
      /\ cfaOffset \in Int /\ initial \in Int
  BY DEF FrameInv, TypeOK
<1>1. ASSUME NEW d \in Deltas, AdvanceLoc(d)
      PROVE  FrameInv'
  <2>1. d \in Nat /\ pc \in Nat /\ location \in Nat
    BY <1>0 DEF FrameAssumption
  <2>2. /\ here' = here + d /\ UNCHANGED <<phase, pc, cfaOffset, initial, rows>>
        /\ location' = IF Running THEN location + d ELSE location
        /\ Reading
    BY <1>1 DEF AdvanceLoc
  <2>3. TypeOK'
    BY <1>0, <2>1, <2>2 DEF FrameInv, TypeOK
  <2>4. InStep'
    BY <1>0, <2>1, <2>2 DEF FrameInv, InStep, Running
  <2>5. OffsetInForce' /\ OffsetKept'
    BY <2>2 DEF FrameInv, OffsetInForce, OffsetKept
  <2>6. QED
    BY <2>3, <2>4, <2>5 DEF FrameInv
<1>2. ASSUME NEW o \in Offsets, DefCFA(o) \/ DefCFAOffsetSf(o)
      PROVE  FrameInv'
  <2>1. o \in Int /\ o * DataAlignmentFactor \in Int
    BY DEF FrameAssumption
  <2>2. QED
    BY <1>2, <2>1, DefineInv DEF DefCFA, DefCFAOffsetSf
<1>3. ASSUME NEW start \in Starts, NEW size \in Sizes, ScanFDE(start, size)
      PROVE  FrameInv'
  <2>1. start \in Nat /\ size \in Nat /\ pc \in Nat
    BY <1>0 DEF FrameAssumption
  <2>2. <<start, initial>> \in Row /\ <<start, initial>>[1] = start /\ <<start, initial>>[2] = initial
    BY <1>0, <2>1 DEF Row
  <2>3. /\ rows' = <<<<start, initial>>>> /\ rows' \in Seq(Row)
        /\ DOMAIN rows' = {1} /\ Len(rows') = 1 /\ rows'[1] = <<start, initial>>
    BY <1>3, <2>2 DEF ScanFDE
  <2>4. /\ location' = start /\ here' = start /\ UNCHANGED <<pc, cfaOffset, initial>>
        /\ phase' = IF pc < start \/ start + size <= pc THEN "scan" ELSE "fde"
        /\ cfaOffset = initial
    BY <1>3 DEF ScanFDE, FrameInv, OffsetKept
  <2>5. TypeOK' /\ InStep' /\ OffsetKept'
    BY <1>0, <2>1, <2>3, <2>4 DEF TypeOK, InStep, OffsetKept
  <2>6. phase' = "fde" => start <= pc
    BY <2>1, <2>4
  <2>7. OffsetInForce'
    <3>1. \A j \in (1 + 1)..Len(rows') : FALSE
      BY <2>3
    <3>2. phase' # "found" /\ cfaOffset' = rows'[1][2] /\ rows'[1][1] = start /\ 1 \in DOMAIN rows'
      BY <2>2, <2>3, <2>4
    <3>3. QED
      BY <2>4, <2>6, <3>1, <3>2 DEF OffsetInForce
  <2>8. QED
    BY <2>5, <2>7 DEF FrameInv
<1>4. CASE Unimplemented \/ ParseCIE \/ ScanFails
  BY <1>0, <1>4 DEF Unimplemented, ParseCIE, ScanFails, FrameInv, TypeOK, InStep,
     OffsetKept, OffsetInForce
<1>5. CASE EndFDE
  BY <1>5 DEF EndFDE, FrameInv, TypeOK, InStep, OffsetKept, OffsetInForce
<1>6. CASE UNCHANGED vars
  BY <1>6 DEF vars, FrameInv, TypeOK, InStep, OffsetKept, OffsetInForce
<1>7. QED
  BY <1>1, <1>2, <1>3, <1>4, <1>5, <1>6 DEF Next

(* PCToSPOffset returns the offset in force at its PC, whatever the table. *)
THEOREM OffsetCorrect == Spec => []OffsetInForce
<1>1. FrameInv => OffsetInForce
  BY DEF FrameInv
<1>2. QED
  BY <1>1, FrameInit, FrameStep, FrameAssumption, PTL DEF Spec
=============================================================================
