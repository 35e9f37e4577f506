---------------------------- MODULE FrameMachine ----------------------------
(***************************************************************************)
(* The frame machine of dwarf/frame.go, which PCToSPOffset runs to find    *)
(* the offset from the stack pointer to the frame of a function: first the *)
(* instructions of the CIE, then those of the FDE whose range holds the    *)
(* PC, as far as the PC.                                                   *)
(*                                                                         *)
(* The table is not fixed: each step reads any instruction or any FDE.     *)
(* run stops when its location has passed the PC; the instructions that    *)
(* follow it in the block are still read here, for the history variables,  *)
(* which hold the rows of the block as the instructions define them.       *)
(* Instructions whose effect nothing reads (nop, the offset of the return  *)
(* address, the number of the CFA register) are the stuttering steps.      *)
(***************************************************************************)
EXTENDS Integers, Sequences

CONSTANTS DataAlignmentFactor,  \* of the CIE
          Deltas,               \* operands of advance_loc
          Offsets,              \* operands of def_cfa and def_cfa_offset_sf
          PCs,                  \* the PCs looked up
          Starts, Sizes,        \* first addresses and sizes of functions
          MaxLocation, MaxRows  \* bounds

ASSUME FrameAssumption ==
  /\ DataAlignmentFactor \in Int
  /\ Deltas \subseteq Nat /\ Offsets \subseteq Int /\ PCs \subseteq Nat
  /\ Starts \subseteq Nat /\ Sizes \subseteq Nat
  /\ MaxLocation \in Nat /\ MaxRows \in Nat

VARIABLES phase,      \* what is being read: "cie", "scan", "fde"; or the end
          pc,         \* the PC looked up
          location,   \* m.location
          cfaOffset,  \* m.cfaOffset
          here,       \* history: the location of the last instruction read
          initial,    \* history: the offset at the end of the CIE
          rows        \* history: the rows of the FDE, as <<location, offset>>

vars == <<phase, pc, location, cfaOffset, here, initial, rows>>

Row == Nat \X Int

(* The variables keep their types, and the machine is never ahead of the   *)
(* instructions that were read.                                            *)
TypeOK ==
  /\ phase \in {"cie", "scan", "fde", "found", "error"}
  /\ pc \in PCs
  /\ here \in Nat
  /\ location \in 0..here
  /\ cfaOffset \in Int
  /\ initial \in Int
  /\ rows \in Seq(Row)

Init ==
  /\ phase = "cie"
  /\ pc \in PCs
  /\ location = 0 /\ cfaOffset = 0
  /\ here = 0 /\ initial = 0
  /\ rows = << >>

-----------------------------------------------------------------------------
(* The condition of the loop of run.  The CIE is run with the largest PC.  *)
(* A faulty variant: it stops at the PC instead of after it.               *)
RunningBefore == phase = "cie" \/ (phase = "fde" /\ location < pc)

Running == phase = "cie" \/ (phase = "fde" /\ location <= pc)

Reading == phase \in {"cie", "fde"}

(* advance_loc, advance_loc1, advance_loc2 and advance_loc4. *)
AdvanceLoc(d) ==
  /\ Reading
  /\ here + d <= MaxLocation
  /\ here' = here + d
  /\ location' = IF Running THEN location + d ELSE location
  /\ UNCHANGED <<phase, pc, cfaOffset, initial, rows>>

(* The CFA is offset bytes from the stack pointer, from here on. *)
Define(offset) ==
  /\ Reading
  /\ Len(rows) < MaxRows
  /\ rows' = Append(rows, <<here, offset>>)
  /\ cfaOffset' = IF Running THEN offset ELSE cfaOffset
  /\ UNCHANGED <<phase, pc, location, here, initial>>

DefCFA(offset) == Define(offset)

DefCFAOffsetSf(n) == Define(n * DataAlignmentFactor)

(* The many instructions that are not implemented, and the unknown ones. *)
Unimplemented ==
  /\ Running
  /\ phase' = "error"
  /\ UNCHANGED <<pc, location, cfaOffset, here, initial, rows>>

-----------------------------------------------------------------------------
(* parseCIE returns; or the CIE is not of a known version, or too short. *)
ParseCIE ==
  /\ phase = "cie"
  /\ \/ phase' = "scan" /\ initial' = cfaOffset
     \/ phase' = "error" /\ UNCHANGED initial
  /\ UNCHANGED <<pc, location, cfaOffset, here, rows>>

(* The FDE of a function; its instructions are run if it holds the PC. *)
ScanFDE(start, size) ==
  /\ phase = "scan"
  /\ location' = start
  /\ here' = start
  /\ phase' = IF pc < start \/ start + size <= pc THEN "scan" ELSE "fde"
  /\ rows' = <<<<start, initial>>>>
  /\ UNCHANGED <<pc, cfaOffset, initial>>

(* The end of the table, or an FDE that is too short or of another CIE. *)
ScanFails ==
  /\ phase = "scan"
  /\ phase' = "error"
  /\ UNCHANGED <<pc, location, cfaOffset, here, initial, rows>>

(* The end of the block: run has returned m.cfaOffset, here or before. *)
EndFDE ==
  /\ phase = "fde"
  /\ phase' = "found"
  /\ UNCHANGED <<pc, location, cfaOffset, here, initial, rows>>

Next ==
  \/ \E d \in Deltas : AdvanceLoc(d)
  \/ \E o \in Offsets : DefCFA(o) \/ DefCFAOffsetSf(o)
  \/ \E start \in Starts, size \in Sizes : ScanFDE(start, size)
  \/ Unimplemented \/ ParseCIE \/ ScanFails \/ EndFDE

Spec == Init /\ [][Next]_vars

-----------------------------------------------------------------------------
(* PCToSPOffset returns the offset that is in force at the PC: that of the *)
(* last row of the function at or before the PC, or the one the CIE gives. *)
(* No row after the PC counts, nor one of a function scanned before.       *)
OffsetInForce ==
  phase \in {"fde", "found"} =>
    \E i \in DOMAIN rows :
      /\ rows[i][1] <= pc
      /\ \A j \in (i + 1)..Len(rows) : rows[j][1] > pc
      /\ cfaOffset = rows[i][2]
=============================================================================
