-------------------------- MODULE LineMachineProofs --------------------------
(***************************************************************************)
(* Proofs about the searches of the line table, for every line program and *)
(* every header.  The rows need no order: nothing is assumed about how     *)
(* addresses grow.                                                         *)
(***************************************************************************)
EXTENDS LineMachine, TLAPS

(* As long as PCToLine has not found its line, its state describes the     *)
(* last row: newSequence says that there is none or that it is the end of  *)
(* its sequence, and otherwise the last values are copies of it.           *)
LastRowInv ==
  ~found =>
    IF newSequence
    THEN rows = << >> \/ rows[Len(rows)].end
    ELSE /\ rows # << >>
         /\ ~rows[Len(rows)].end
         /\ lastPC = rows[Len(rows)].address
         /\ lastFile = rows[Len(rows)].file
         /\ lastLine = rows[Len(rows)].line

(* LineToPCs has only addresses of rows of the line it looks for. *)
PcsInv ==
  \A a \in pcs :
    \E i \in DOMAIN rows :
      rows[i].address = a /\ rows[i].file = want.file /\ rows[i].line = want.line

SearchInv == TypeOK /\ LastRowInv /\ PcsInv /\ PCToLineIsFirstCover

-----------------------------------------------------------------------------
(* Appending a row changes neither the rows before it nor what they cover, *)
(* except that the last one may now end before pc.                         *)
LEMMA AppendedRow ==
  ASSUME rows \in Seq(Row), NEW r \in Row, NEW n \in Nat, n = Len(rows),
         rows' = Append(rows, r), UNCHANGED pc
  PROVE  /\ Len(rows') = n + 1
         /\ DOMAIN rows = 1..n
         /\ DOMAIN rows' = 1..(n + 1)
         /\ \A i \in DOMAIN rows : rows'[i] = rows[i] /\ rows[i] \in Row
         /\ rows'[n + 1] = r
         /\ \A i \in 1..(n - 1) : Covers(i)' <=> Covers(i)
         /\ \A i \in DOMAIN rows : Covers(i) => Covers(i)'
         /\ rows # << >> => (Covers(n)' <=>
              /\ ~rows[n].end
              /\ \/ rows[n].address = pc
                 \/ rows[n].address < pc /\ pc < r.address)
         /\ Covers(n + 1)' <=> ~r.end /\ r.address = pc
<1>1. /\ Len(rows') = n + 1
      /\ DOMAIN rows = 1..n
      /\ DOMAIN rows' = 1..(n + 1)
      /\ \A i \in DOMAIN rows : rows'[i] = rows[i] /\ rows[i] \in Row
      /\ rows'[n + 1] = r
  OBVIOUS
<1>2. \A i \in 1..(n - 1) : i \in DOMAIN rows /\ i + 1 \in DOMAIN rows /\ i < n
  BY <1>1
<1>3. \A i \in 1..(n - 1) : Covers(i)' <=> Covers(i)
  BY <1>1, <1>2 DEF Covers
<1>4. \A i \in DOMAIN rows : Covers(i) => Covers(i)'
  BY <1>1, <1>2 DEF Covers
<1>5. rows # << >> => n \in DOMAIN rows /\ n < Len(rows')
  BY <1>1
<1>6. rows # << >> => (Covers(n)' <=>
              /\ ~rows[n].end
              /\ \/ rows[n].address = pc
                 \/ rows[n].address < pc /\ pc < r.address)
  BY <1>1, <1>5 DEF Covers
<1>7. Covers(n + 1)' <=> ~r.end /\ r.address = pc
  BY <1>1 DEF Covers
<1>8. QED
  BY <1>1, <1>3, <1>4, <1>6, <1>7

(* Both searches take in a row and keep what they know. *)
LEMMA EmitKeepsSearch ==
  ASSUME SearchInv, OperandsAssumption,
         NEW a \in Nat, NEW f \in Nat, NEW l \in Int, NEW end \in BOOLEAN,
         Emit(a, f, l, end)
  PROVE  /\ LastRowInv' /\ PcsInv' /\ PCToLineIsFirstCover'
         /\ pc' \in Addresses /\ want' \in [file : Nat, line : Int]
         /\ lastPC' \in Nat /\ lastFile' \in Nat /\ lastLine' \in Int
         /\ found' \in BOOLEAN /\ newSequence' \in BOOLEAN
         /\ pcs' \in SUBSET Nat /\ rows' \in Seq(Row)
<1> DEFINE r == [address |-> a, file |-> f, line |-> l, end |-> end]
<1>0. r \in Row /\ r.address = a /\ r.file = f /\ r.line = l /\ r.end = end
  BY DEF Row
<1>1. rows \in Seq(Row) /\ rows' = Append(rows, r) /\ UNCHANGED <<pc, want>>
  BY DEF SearchInv, TypeOK, Emit
<1> HIDE DEF r
<1> PICK n \in Nat : n = Len(rows)
  BY <1>1
<1>2. /\ Len(rows') = n + 1
      /\ DOMAIN rows = 1..n
      /\ DOMAIN rows' = 1..(n + 1)
      /\ \A i \in DOMAIN rows : rows'[i] = rows[i] /\ rows[i] \in Row
      /\ rows'[n + 1] = r
      /\ \A i \in 1..(n - 1) : Covers(i)' <=> Covers(i)
      /\ \A i \in DOMAIN rows : Covers(i) => Covers(i)'
      /\ rows # << >> => (Covers(n)' <=>
              /\ ~rows[n].end
              /\ \/ rows[n].address = pc
                 \/ rows[n].address < pc /\ pc < a)
      /\ Covers(n + 1)' <=> ~end /\ a = pc
  BY <1>0, <1>1, AppendedRow
<1>3. rows' # << >> /\ rows' \in Seq(Row) /\ (rows # << >> => n \in DOMAIN rows)
  BY <1>0, <1>1, <1>2
<1>4. /\ pc' \in Addresses /\ want' \in [file : Nat, line : Int]
      /\ lastPC' \in Nat /\ lastFile' \in Nat /\ lastLine' \in Int
      /\ found' \in BOOLEAN /\ newSequence' \in BOOLEAN
      /\ pcs' \in SUBSET Nat
  BY <1>1 DEF SearchInv, TypeOK, Emit, findPC, accumulatePCs, search
<1>5. PcsInv'
  <2> SUFFICES ASSUME NEW b \in pcs'
               PROVE  \E i \in DOMAIN rows' :
                        rows'[i].address = b /\ rows'[i].file = want'.file /\ rows'[i].line = want'.line
    BY DEF PcsInv
  <2>1. CASE b \in pcs
    <3>1. PICK i \in DOMAIN rows : rows[i].address = b /\ rows[i].file = want.file /\ rows[i].line = want.line
      BY <2>1 DEF SearchInv, PcsInv
    <3>2. i \in DOMAIN rows' /\ rows'[i] = rows[i] /\ want' = want
      BY <3>1, <1>1, <1>2
    <3>3. QED
      BY <3>1, <3>2
  <2>2. CASE b \notin pcs
    <3>1. b = a /\ l = want.line /\ f = want.file
      BY <2>2 DEF Emit, accumulatePCs
    <3>2. n + 1 \in DOMAIN rows' /\ rows'[n + 1] = r /\ want' = want
      BY <1>1, <1>2
    <3>3. QED
      BY <3>1, <3>2, <1>0
  <2>3. QED
    BY <2>1, <2>2
<1>6. LastRowInv'
  BY <1>0, <1>2, <1>3, ZenonT(60) DEF Emit, findPC, search, LastRowInv, SearchInv
<1>7. PCToLineIsFirstCover'
  <2>1. CASE found
    <3>1. PICK i \in DOMAIN rows :
            /\ Covers(i)
            /\ \A j \in 1..(i - 1) : ~Covers(j)
            /\ lastPC = rows[i].address
            /\ lastFile = rows[i].file
            /\ lastLine = rows[i].line
      BY <2>1 DEF SearchInv, PCToLineIsFirstCover
    <3>2. UNCHANGED search
      BY <2>1 DEF Emit, findPC
    <3>3. \A j \in 1..(i - 1) : j \in 1..(n - 1)
      BY <1>2
    <3>4. i \in DOMAIN rows' /\ rows'[i] = rows[i] /\ Covers(i)' /\ \A j \in 1..(i - 1) : ~Covers(j)'
      BY <3>1, <3>3, <1>2
    <3>5. QED
      BY <2>1, <3>1, <3>2, <3>4, Zenon DEF PCToLineIsFirstCover, search
  <2>2. CASE ~found /\ ~newSequence /\ lastPC < pc /\ pc < a
    <3>1. found' /\ UNCHANGED <<lastPC, lastFile, lastLine>>
      BY <2>2 DEF Emit, findPC
    <3>2. /\ rows # << >> /\ n \in DOMAIN rows
          /\ ~rows[n].end /\ lastPC = rows[n].address
          /\ lastFile = rows[n].file /\ lastLine = rows[n].line
      BY <2>2, <1>3 DEF SearchInv, LastRowInv
    <3>3. \A j \in 1..(n - 1) : ~Covers(j)
      BY <2>2, <1>2 DEF SearchInv, PCToLineIsFirstCover
    <3>4. n \in DOMAIN rows' /\ rows'[n] = rows[n] /\ Covers(n)' /\ \A j \in 1..(n - 1) : ~Covers(j)'
      BY <2>2, <3>2, <3>3, <1>2
    <3>5. QED
      BY <3>1, <3>2, <3>4, Zenon DEF PCToLineIsFirstCover
  <2>3. CASE ~found /\ ~(~newSequence /\ lastPC < pc /\ pc < a)
    <3>1. \A j \in DOMAIN rows : ~Covers(j)
      BY <2>3 DEF SearchInv, PCToLineIsFirstCover
    <3>2. rows # << >> => ~Covers(n)'
      <4>1. rows # << >> /\ ~rows[n].end => ~newSequence /\ lastPC = rows[n].address
        BY <2>3 DEF SearchInv, LastRowInv
      <4>2. rows # << >> /\ ~rows[n].end => rows[n].address # pc
        BY <3>1, <1>3 DEF Covers
      <4>3. QED
        BY <4>1, <4>2, <2>3, <1>2
    <3>3. \A j \in 1..n : ~Covers(j)'
      <4>1. \A j \in 1..n : j \in 1..(n - 1) \/ (j = n /\ rows # << >>)
        BY <1>2, <1>1
      <4>2. QED
        BY <3>1, <3>2, <4>1, <1>2
    <3>4. CASE ~end /\ a = pc
      <4>1. found' /\ lastPC' = a /\ lastFile' = f /\ lastLine' = l
        BY <2>3, <3>4 DEF Emit, findPC
      <4> PICK m \in Nat : m = n + 1
        OBVIOUS
      <4>2. m \in DOMAIN rows' /\ Covers(m)' /\ \A j \in 1..(m - 1) : ~Covers(j)'
        BY <3>3, <3>4, <1>2
      <4>3. rows'[m].address = a /\ rows'[m].file = f /\ rows'[m].line = l
        BY <1>0, <1>2
      <4>4. QED
        BY <4>1, <4>2, <4>3, Zenon DEF PCToLineIsFirstCover
    <3>5. CASE end \/ a # pc
      <4>1. ~found'
        <5>1. CASE end
          BY <2>3, <5>1 DEF Emit, findPC
        <5>2. CASE ~end /\ a # pc
          BY <2>3, <5>2 DEF Emit, findPC
        <5>3. QED
          BY <3>5, <5>1, <5>2
      <4>2. \A j \in DOMAIN rows' : ~Covers(j)'
        <5>1. \A j \in DOMAIN rows' : j \in 1..n \/ j = n + 1
          BY <1>2
        <5>2. QED
          BY <5>1, <3>3, <3>5, <1>2
      <4>3. QED
        BY <4>1, <4>2 DEF PCToLineIsFirstCover
    <3>6. QED
      BY <3>4, <3>5
  <2>4. QED
    BY <2>1, <2>2, <2>3
<1>8. QED
  BY <1>3, <1>4, <1>5, <1>6, <1>7

LEMMA QuietKeepsSearch ==
  ASSUME SearchInv, Quiet
  PROVE  /\ LastRowInv' /\ PcsInv' /\ PCToLineIsFirstCover'
         /\ pc' \in Addresses /\ want' \in [file : Nat, line : Int]
         /\ lastPC' \in Nat /\ lastFile' \in Nat /\ lastLine' \in Int
         /\ found' \in BOOLEAN /\ newSequence' \in BOOLEAN
         /\ pcs' \in SUBSET Nat /\ rows' \in Seq(Row)
<1>1. /\ UNCHANGED <<pc, want, pcs, rows>>
      /\ UNCHANGED <<lastPC, lastFile, lastLine, found, newSequence>>
  BY DEF Quiet, search
<1>2. \A i : Covers(i)' <=> Covers(i)
  BY <1>1 DEF Covers
<1>3. PCToLineIsFirstCover'
  BY <1>1, <1>2, Zenon DEF SearchInv, PCToLineIsFirstCover
<1>4. QED
  BY <1>1, <1>3 DEF SearchInv, TypeOK, LastRowInv, PcsInv

-----------------------------------------------------------------------------
(* Advancing stays inside the natural numbers and inside an instruction. *)
LEMMA AdvancedType ==
  ASSUME HeaderAssumption, NEW n \in Nat,
         address \in Nat, opIndex \in 0..(MaxOpsPerInstruction - 1)
  PROVE  /\ Advanced(n) \in Nat
         /\ AdvancedIndex(n) \in 0..(MaxOpsPerInstruction - 1)
<1>1. opIndex + n \in Nat /\ MaxOpsPerInstruction \in Nat \ {0}
  BY DEF HeaderAssumption
<1>2. PICK q \in Nat : q = (opIndex + n) \div MaxOpsPerInstruction
  BY <1>1
<1>3. MinInstructionLength * q \in Nat
  BY DEF HeaderAssumption
<1>4. Advanced(n) \in Nat
  BY <1>2, <1>3 DEF Advanced
<1>5. QED
  BY <1>1, <1>4 DEF AdvancedIndex

(* SearchInv is inductive. *)
LEMMA SearchStep ==
  ASSUME HeaderAssumption, OperandsAssumption, SearchInv, [Next]_vars
  PROVE  SearchInv'
<1>0. /\ address \in Nat /\ opIndex \in 0..(MaxOpsPerInstruction - 1)
      /\ file \in Nat /\ line \in Int /\ status \in {"run", "end", "error", "panic"}
  BY DEF SearchInv, TypeOK
<1>1. ASSUME NEW op \in SpecialOpcodes, Special(op)
      PROVE  SearchInv'
  <2> DEFINE k == (op - OpcodeBase) \div LineRange
             l == line + LineBase + ((op - OpcodeBase) % LineRange)
  <2>1. op - OpcodeBase \in Nat /\ LineRange \in Nat \ {0} /\ LineBase \in Int
    BY DEF HeaderAssumption
  <2>2. k \in Nat /\ l \in Int
    BY <2>1, <1>0
  <2>3. /\ line' = l /\ address' = Advanced(k) /\ opIndex' = AdvancedIndex(k)
        /\ Emit(Advanced(k), file, l, FALSE)
        /\ UNCHANGED <<file, status>>
    BY <1>1 DEF Special, Running
  <2> HIDE DEF k, l
  <2>4. Advanced(k) \in Nat /\ AdvancedIndex(k) \in 0..(MaxOpsPerInstruction - 1)
    BY <2>2, <1>0, AdvancedType
  <2>5. QED
    BY ZenonT(60), <2>2, <2>3, <2>4, <1>0, EmitKeepsSearch DEF SearchInv, TypeOK
<1>2. ASSUME NEW n \in Nat, AdvancePC(n)
      PROVE  SearchInv'
  <2>1. Advanced(n) \in Nat /\ AdvancedIndex(n) \in 0..(MaxOpsPerInstruction - 1)
    BY <1>0, AdvancedType
  <2>2. QED
    BY <1>0, <1>2, <2>1, QuietKeepsSearch DEF AdvancePC, Running, SearchInv, TypeOK
<1>3. ASSUME NEW n \in Nat, FixedAdvancePC(n)
      PROVE  SearchInv'
  BY <1>0, <1>3, QuietKeepsSearch
  DEF FixedAdvancePC, Running, SearchInv, TypeOK, HeaderAssumption
<1>4. ASSUME NEW d \in Int, AdvanceLine(d)
      PROVE  SearchInv'
  BY <1>0, <1>4, QuietKeepsSearch DEF AdvanceLine, Running, SearchInv, TypeOK
<1>5. ASSUME NEW f \in Nat, SetFile(f)
      PROVE  SearchInv'
  BY <1>0, <1>5, QuietKeepsSearch DEF SetFile, Running, SearchInv, TypeOK
<1>6. ASSUME NEW a \in Nat, SetAddress(a)
      PROVE  SearchInv'
  BY <1>0, <1>6, QuietKeepsSearch
  DEF SetAddress, Running, SearchInv, TypeOK, HeaderAssumption
<1>7. ASSUME Copy
      PROVE  SearchInv'
  BY <1>0, <1>7, EmitKeepsSearch DEF Copy, Running, registers, SearchInv, TypeOK
<1>8. ASSUME ConstAddPC
      PROVE  SearchInv'
  <2>1. (255 - OpcodeBase) \div LineRange \in Nat
    BY DEF HeaderAssumption
  <2>2. QED
    BY <1>2, <1>8, <2>1 DEF ConstAddPC
<1>9. ASSUME EndSequence
      PROVE  SearchInv'
  <2>1. Emit(address, file, line, TRUE)
    BY <1>9 DEF EndSequence
  <2>2. /\ address' \in Nat /\ opIndex' \in 0..(MaxOpsPerInstruction - 1)
        /\ file' \in Nat /\ line' \in Int /\ status' \in {"run", "end", "error", "panic"}
    BY <1>0, <1>9 DEF EndSequence, registers, HeaderAssumption
  <2>3. QED
    BY <1>0, <2>1, <2>2, EmitKeepsSearch DEF SearchInv, TypeOK
<1>10. ASSUME Error
       PROVE  SearchInv'
  BY <1>0, <1>10, QuietKeepsSearch DEF Error, registers, SearchInv, TypeOK
<1>11. ASSUME NotReached
       PROVE  SearchInv'
  BY <1>0, <1>11, QuietKeepsSearch DEF NotReached, registers, SearchInv, TypeOK
<1>12. CASE UNCHANGED vars
  BY <1>0, <1>12, QuietKeepsSearch DEF vars, Quiet, registers, SearchInv, TypeOK
<1>13. QED
  <2>1. Advances \subseteq Nat /\ LineAdvances \subseteq Int /\ Files \subseteq Nat /\ Addresses \subseteq Nat
    BY DEF OperandsAssumption
  <2>2. QED
    BY <1>1, <1>2, <1>3, <1>4, <1>5, <1>6, <1>7, <1>8, <1>9, <1>10, <1>11, <1>12, <2>1 DEF Next

LEMMA SearchInit ==
  ASSUME HeaderAssumption, OperandsAssumption, Init
  PROVE  SearchInv
<1>1. rows = << >> /\ rows \in Seq(Row) /\ DOMAIN rows = {}
  BY DEF Init
<1>2. TypeOK
  <2>1. Files \subseteq Nat /\ 1..MaxLine \subseteq Int
    BY DEF OperandsAssumption
  <2>2. want \in [file : Nat, line : Int]
    <3>1. want \in [file : Files, line : 1..MaxLine]
      BY DEF Init
    <3>2. QED
      BY <2>1, <3>1
  <2>3. /\ address \in Nat /\ opIndex \in 0..(MaxOpsPerInstruction - 1)
        /\ file \in Nat /\ line \in Int /\ lastPC \in Nat /\ lastFile \in Nat
        /\ lastLine \in Int
    BY DEF Init, HeaderAssumption
  <2>4. /\ status \in {"run", "end", "error", "panic"} /\ pc \in Addresses
        /\ found \in BOOLEAN /\ newSequence \in BOOLEAN /\ pcs \in SUBSET Nat
    BY DEF Init
  <2>5. QED
    BY <1>1, <2>2, <2>3, <2>4 DEF TypeOK
<1>3. QED
  BY <1>1, <1>2 DEF Init, SearchInv, LastRowInv, PcsInv, PCToLineIsFirstCover

-----------------------------------------------------------------------------
(* PCToLine answers with the first row of the table that holds for its PC, *)
(* and with an error only if none does.                                    *)
THEOREM PCToLineCorrect == Spec => []PCToLineIsFirstCover
<1>1. SearchInv => PCToLineIsFirstCover
  BY DEF SearchInv
<1>2. QED
  BY <1>1, SearchInit, SearchStep, HeaderAssumption, OperandsAssumption, PTL DEF Spec

(* The registers keep their types. *)
THEOREM LineTyping == Spec => []TypeOK
<1>1. SearchInv => TypeOK
  BY DEF SearchInv
<1>2. QED
  BY <1>1, SearchInit, SearchStep, HeaderAssumption, OperandsAssumption, PTL DEF Spec

(* A PC that LineToPCs returns, and that one row alone holds for, is       *)
(* reported by PCToLine as of the line that LineToPCs was asked for.       *)
THEOREM LinesReportedBack == Spec => []LineReportedBack
<1>1. SearchInv => LineReportedBack
  <2>1. SUFFICES ASSUME SearchInv, pc \in LineToPCs,
                        \A i \in DOMAIN rows :
                          rows[i].end => ~(rows[i].address = pc /\ rows[i].file = want.file /\ rows[i].line = want.line),
                        \A i, j \in DOMAIN rows : Covers(i) /\ Covers(j) => i = j
                 PROVE  found /\ lastFile = want.file /\ lastLine = want.line
    BY Zenon DEF LineReportedBack
  <2>2. PICK i \in DOMAIN rows : rows[i].address = pc /\ rows[i].file = want.file /\ rows[i].line = want.line
    BY <2>1 DEF LineToPCs, SearchInv, PcsInv
  <2>3. Covers(i)
    BY <2>1, <2>2 DEF Covers
  <2>4. found
    BY <2>1, <2>3, Zenon DEF SearchInv, PCToLineIsFirstCover
  <2>5. PICK k \in DOMAIN rows : Covers(k) /\ lastFile = rows[k].file /\ lastLine = rows[k].line
    BY <2>1, <2>4, Zenon DEF SearchInv, PCToLineIsFirstCover
  <2>6. k = i
    BY <2>1, <2>3, <2>5, Zenon
  <2>7. QED
    BY <2>2, <2>4, <2>5, <2>6
<1>2. QED
  BY <1>1, SearchInit, SearchStep, HeaderAssumption, OperandsAssumption, PTL DEF Spec
=============================================================================
