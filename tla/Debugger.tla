------------------------------ MODULE Debugger ------------------------------
(***************************************************************************)
(* What the debug server promises to its client about a program of one     *)
(* thread (Run, Resume, Breakpoint and DeleteBreakpoints of the interface  *)
(* debug.Program): the program never executes the instruction at a         *)
(* breakpoint before Resume has reported it there, Resume reports nothing  *)
(* but breakpoints, and a Resume from a breakpoint executes the            *)
(* instruction that it stands before.                                      *)
(*                                                                         *)
(* Nothing is promised once a Resume has failed, until a new process runs. *)
(***************************************************************************)
CONSTANTS Addrs,   \* where the program has instructions
          Entry    \* where a new process starts

VARIABLES state,   \* of the process, as its client sees it:
                   \*   none     there is no process
                   \*   loaded   a new process, not resumed yet
                   \*   stopped  at a breakpoint
                   \*   running  Resume has not returned
                   \*   gone     the process has ended
                   \*   failed   a Resume failed, its breakpoints written
          pc,      \* the next instruction to execute
          bps,     \* where breakpoints are set
          off      \* has the instruction at the breakpoint that the program
                   \* was resumed from still to be executed?

dvars == <<state, pc, bps, off>>

Init ==
  /\ state = "none"
  /\ pc = Entry
  /\ bps = {}
  /\ off = FALSE

-----------------------------------------------------------------------------
(* The client's calls. *)

Run ==
  /\ state # "running"
  /\ state' = "loaded"
  /\ pc' = Entry
  /\ off' = FALSE
  /\ UNCHANGED bps

RunFails ==
  /\ state \notin {"running", "failed"}
  /\ state' = "none"
  /\ pc' = Entry
  /\ off' = FALSE
  /\ UNCHANGED bps

(* A new process is before its first instruction: a breakpoint there stops it. *)
Resume ==
  /\ state \in {"loaded", "stopped"}
  /\ state' = "running"
  /\ off' = (state = "stopped" /\ pc \in bps)
  /\ UNCHANGED <<pc, bps>>

Add(pcs) == bps' = bps \cup pcs /\ UNCHANGED <<state, pc, off>>

Delete(pcs) == bps' = bps \ pcs /\ UNCHANGED <<state, pc, off>>

-----------------------------------------------------------------------------
(* The program. *)

Execute ==
  /\ state = "running"
  /\ off \/ pc \notin bps
  /\ pc' \in Addrs
  /\ off' = FALSE
  /\ UNCHANGED <<state, bps>>

(* Resume returns, with the program before the instruction at a breakpoint. *)
Report ==
  /\ state = "running"
  /\ ~off
  /\ pc \in bps
  /\ state' = "stopped"
  /\ UNCHANGED <<pc, bps, off>>

End ==
  /\ state \in {"loaded", "stopped", "running"}
  /\ state' = "gone"
  /\ pc' = Entry
  /\ off' = FALSE
  /\ UNCHANGED bps

Fail ==
  /\ state \in {"running", "gone"}
  /\ state' = "failed"
  /\ pc' = Entry
  /\ off' = FALSE
  /\ UNCHANGED bps

Next ==
  \/ Run \/ RunFails \/ Resume
  \/ Execute \/ Report \/ End \/ Fail
  \/ \E pcs \in SUBSET Addrs : Add(pcs) \/ Delete(pcs)

Spec == Init /\ [][Next]_dvars
=============================================================================
