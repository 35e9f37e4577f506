----------------------------- MODULE LineMachine -----------------------------
(***************************************************************************)
(* The line number machine of dwarf/line.go and the two searches that run  *)
(* it: PCToLine, through pcSearchState.findPC, and LineToPCs, through      *)
(* accumulatePCs, whose result is where breakpoints at a line are set.     *)
(*                                                                         *)
(* The line program is not fixed: each step executes any opcode with any   *)
(* operand.  Both searches see the same rows; PCToLine stops at its answer *)
(* and LineToPCs goes on.  Registers that neither search reads (column,    *)
(* isStmt, basicBlock, ...) are left out, and so are the opcodes that only *)
(* set them.                                                               *)
(***************************************************************************)
EXTENDS Integers, Sequences

CONSTANTS OpcodeBase, LineBase, LineRange,         \* of the header
          MinInstructionLength, MaxOpsPerInstruction,
          SpecialOpcodes,  \* the special opcodes that are used
          Advances,        \* operands of advance_pc and fixed_advance_pc
          LineAdvances,    \* operands of advance_line
          Files,           \* operands of set_file
          Addresses,       \* operands of set_address, and the PCs searched
          MaxAddress, MaxLine, MaxRows    \* bounds

ASSUME HeaderAssumption ==
  /\ OpcodeBase \in 10..255     \* after the standard opcodes below
  /\ LineBase \in Int
  /\ LineRange \in Nat \ {0}
  /\ MinInstructionLength \in Nat
  /\ MaxOpsPerInstruction \in Nat \ {0}
  /\ SpecialOpcodes \subseteq OpcodeBase..255
ASSUME OperandsAssumption ==
  /\ Advances \subseteq Nat
  /\ LineAdvances \subseteq Int
  /\ Files \subseteq Nat
  /\ Addresses \subseteq Nat
  /\ MaxAddress \in Nat /\ MaxLine \in Nat /\ MaxRows \in Nat

VARIABLES address, opIndex, file, line,   \* registers of the machine
          status,                         \* "run", "end", "error" or "panic"
          pc,                             \* the PC that PCToLine looks for
          lastPC, lastFile, lastLine, found, newSequence,  \* pcSearchState
          want,                           \* the file and line of LineToPCs
          pcs,                            \* its result so far
          rows                            \* history: the rows of the machine

registers == <<address, opIndex, file, line>>
search == <<lastPC, lastFile, lastLine, found, newSequence>>
vars == <<registers, status, pc, search, want, pcs, rows>>

Row == [address : Nat, file : Nat, line : Int, end : BOOLEAN]

(* The registers keep their types, and the operation index stays inside an *)
(* instruction.                                                            *)
TypeOK ==
  /\ address \in Nat /\ opIndex \in 0..(MaxOpsPerInstruction - 1) /\ file \in Nat /\ line \in Int
  /\ status \in {"run", "end", "error", "panic"}
  /\ pc \in Addresses
  /\ lastPC \in Nat /\ lastFile \in Nat /\ lastLine \in Int
  /\ found \in BOOLEAN /\ newSequence \in BOOLEAN
  /\ want \in [file : Nat, line : Int]
  /\ pcs \in SUBSET Nat
  /\ rows \in Seq(Row)

Init ==
  /\ address = 0 /\ opIndex = 0 /\ file = 1 /\ line = 1     \* m.reset()
  /\ status = "run"
  /\ pc \in Addresses
  /\ lastPC = 0 /\ lastFile = 0 /\ lastLine = 0
  /\ found = FALSE /\ newSequence = TRUE
  /\ want \in [file : Files, line : 1..MaxLine]
  /\ pcs = {}
  /\ rows = << >>

-----------------------------------------------------------------------------
(* The searches, called with each row. *)

(* A faulty variant: the last row of the previous sequence is still used. *)
findPCAcrossSequences(a, f, l, end) ==
  IF found THEN UNCHANGED search
  ELSE IF rows # << >> /\ lastPC < pc /\ pc < a
  THEN found' = TRUE /\ UNCHANGED <<lastPC, lastFile, lastLine, newSequence>>
  ELSE IF end
  THEN newSequence' = TRUE /\ UNCHANGED <<lastPC, lastFile, lastLine, found>>
  ELSE /\ newSequence' = FALSE
       /\ lastPC' = a /\ lastFile' = f /\ lastLine' = l
       /\ found' = (a = pc)

findPC(a, f, l, end) ==
  IF found THEN UNCHANGED search
  ELSE IF ~newSequence /\ lastPC < pc /\ pc < a
  THEN found' = TRUE /\ UNCHANGED <<lastPC, lastFile, lastLine, newSequence>>
  ELSE IF end
  THEN newSequence' = TRUE /\ UNCHANGED <<lastPC, lastFile, lastLine, found>>
  ELSE /\ newSequence' = FALSE
       /\ lastPC' = a /\ lastFile' = f /\ lastLine' = l
       /\ found' = (a = pc)

(* A faulty variant: the file is not compared. *)
accumulatePCsAnyFile(a, f, l) == pcs' = IF l = want.line THEN pcs \cup {a} ELSE pcs

accumulatePCs(a, f, l) ==
  pcs' = IF l = want.line /\ f = want.file THEN pcs \cup {a} ELSE pcs

Emit(a, f, l, end) ==
  /\ Len(rows) < MaxRows
  /\ rows' = Append(rows, [address |-> a, file |-> f, line |-> l, end |-> end])
  /\ findPC(a, f, l, end)
  /\ accumulatePCs(a, f, l)
  /\ UNCHANGED <<pc, want>>

(* What LineToPCs returns: nothing if the line program does not end well.  *)
LineToPCs == IF status = "end" THEN pcs ELSE {}

Quiet == UNCHANGED <<pc, search, want, pcs, rows>>

-----------------------------------------------------------------------------
(* The machine. *)

(* The address and the operation index after advancing by n operations. *)
Advanced(n) ==
  address + MinInstructionLength * ((opIndex + n) \div MaxOpsPerInstruction)

AdvancedIndex(n) == (opIndex + n) % MaxOpsPerInstruction

Running == status = "run" /\ UNCHANGED status

Special(op) ==
  LET adjusted == op - OpcodeBase
      l == line + LineBase + (adjusted % LineRange)
      n == adjusted \div LineRange
  IN /\ Running
     /\ Advanced(n) <= MaxAddress /\ l \in 0..MaxLine
     /\ line' = l
     /\ address' = Advanced(n)
     /\ opIndex' = AdvancedIndex(n)
     /\ Emit(Advanced(n), file, l, FALSE)
     /\ UNCHANGED file

Copy ==
  /\ Running
  /\ Emit(address, file, line, FALSE)
  /\ UNCHANGED registers

AdvancePC(n) ==
  /\ Running
  /\ Advanced(n) <= MaxAddress
  /\ address' = Advanced(n)
  /\ opIndex' = AdvancedIndex(n)
  /\ Quiet
  /\ UNCHANGED <<file, line>>

AdvanceLine(d) ==
  /\ Running
  /\ line + d \in 0..MaxLine
  /\ line' = line + d
  /\ Quiet
  /\ UNCHANGED <<address, opIndex, file>>

SetFile(f) ==
  /\ Running
  /\ file' = f
  /\ Quiet
  /\ UNCHANGED <<address, opIndex, line>>

(* const_add_pc advances like special opcode 255. *)
ConstAddPC == AdvancePC((255 - OpcodeBase) \div LineRange)

FixedAdvancePC(n) ==
  /\ Running
  /\ address + n <= MaxAddress
  /\ address' = address + n
  /\ opIndex' = 0
  /\ Quiet
  /\ UNCHANGED <<file, line>>

SetAddress(a) ==
  /\ Running
  /\ address' = a
  /\ opIndex' = 0
  /\ Quiet
  /\ UNCHANGED <<file, line>>

(* The row is emitted; then the program ends, or the registers are reset. *)
EndSequence ==
  /\ status = "run"
  /\ Emit(address, file, line, TRUE)
  /\ \/ status' = "end" /\ UNCHANGED registers
     \/ /\ address' = 0 /\ opIndex' = 0 /\ file' = 1 /\ line' = 1
        /\ UNCHANGED status

(* An unknown or short opcode, or no more data outside of a sequence's end. *)
Error ==
  /\ status = "run"
  /\ status' = "error"
  /\ Quiet
  /\ UNCHANGED registers

(* A standard opcode that the header counts and the code does not know. *)
NotReached ==
  /\ status = "run" /\ OpcodeBase > 13
  /\ status' = "panic"
  /\ Quiet
  /\ UNCHANGED registers

Next ==
  \/ \E op \in SpecialOpcodes : Special(op)
  \/ \E n \in Advances : AdvancePC(n) \/ FixedAdvancePC(n)
  \/ \E d \in LineAdvances : AdvanceLine(d)
  \/ \E f \in Files : SetFile(f)
  \/ \E a \in Addresses : SetAddress(a)
  \/ Copy \/ ConstAddPC \/ EndSequence \/ Error \/ NotReached

Spec == Init /\ [][Next]_vars

-----------------------------------------------------------------------------
(* Row i holds for pc: it is a row of pc, or pc lies between it and the    *)
(* next row of its sequence.                                               *)
Covers(i) ==
  /\ ~rows[i].end
  /\ \/ rows[i].address = pc
     \/ i < Len(rows) /\ rows[i].address < pc /\ pc < rows[i + 1].address

(* PCToLine finds a line exactly if some row of the table holds for the    *)
(* PC, and its answer is the first such row: never one of another          *)
(* sequence, never the end of one, whatever order the addresses are in.    *)
PCToLineIsFirstCover ==
  IF found
  THEN \E i \in DOMAIN rows :
         /\ Covers(i)
         /\ \A j \in 1..(i - 1) : ~Covers(j)
         /\ lastPC = rows[i].address
         /\ lastFile = rows[i].file
         /\ lastLine = rows[i].line
  ELSE \A i \in DOMAIN rows : ~Covers(i)

(* The two searches agree: a PC that LineToPCs returns for a line, where a *)
(* breakpoint is set, is reported by PCToLine as of that line when it is   *)
(* hit.  This is of PCs with one row only: at the end of a sequence no row *)
(* may be of the line, and PCToLine reports the first row of several.      *)
LineReportedBack ==
  /\ pc \in LineToPCs
  /\ \A i \in DOMAIN rows :
       rows[i].end => ~(rows[i].address = pc /\ rows[i].file = want.file /\ rows[i].line = want.line)
  /\ \A i, j \in DOMAIN rows : Covers(i) /\ Covers(j) => i = j
  => found /\ lastFile = want.file /\ lastLine = want.line
=============================================================================
