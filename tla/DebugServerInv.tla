---------------------------- MODULE DebugServerInv ----------------------------
(***************************************************************************)
(* The inductive invariant of DebugServer, from which the safety           *)
(* properties follow (module DebugServerProofs).                           *)
(***************************************************************************)
EXTENDS DebugServer

WaitLabels == {"waitUp", "waitStep", "waitTrap", "kill", "waitStop"}
HeldLabels == {"setOptions", "lift", "serve", "liftFinal", "getRegs", "setRegs"}
PastInt3Labels == {"liftFinal", "getRegs", "setRegs"}

(* The fields of the current process go together. *)
ProcInv ==
  /\ proc = 0 => stoppedPid = 0 /\ ~procIsUp
  /\ proc # 0 => /\ stoppedPid \in Tids
                 /\ stoppedPid < nextTid
                 /\ proc < nextTid
                 /\ leader[stoppedPid] = proc
  /\ lp # "loop" => proc # 0 /\ procIsUp
  /\ TopOfStackOfCurrentProcess

(* Only the current process has live threads. *)
LiveInv ==
  \A t \in Tids :
    /\ nextTid <= t => tstate[t] = "none"
    /\ Live(t) => proc # 0 /\ leader[t] = proc

(* A reported stop is that of stoppedPid, outside of every wait. *)
HeldInv ==
  \A t \in Tids : tstate[t] = "held" => /\ t = stoppedPid
                                        /\ procIsUp
                                        /\ lp \notin WaitLabels

(* The stop of the exec is taken by the first Resume and by no other wait. *)
FreshInv ==
  \A t \in Tids :
    IF ~procIsUp \/ lp = "waitUp"
    THEN Live(t) => /\ t = stoppedPid
                    /\ tstate[t] \in {"starting", "trapped"}
                    /\ tstate[t] = "trapped" => tstop[t] = "exec"
    ELSE /\ tstate[t] # "starting"
         /\ tstate[t] = "trapped" => tstop[t] # "exec"

(* The stop of a single step is taken by the wait that follows it. *)
StepInv ==
  \A t \in Tids : tstate[t] = "stepping" \/ (tstate[t] = "trapped" /\ tstop[t] = "step")
                    => lp = "waitStep" /\ t = stoppedPid

(* Where handleResume is past a wait, the thread it waited for is stopped, *)
(* or gone; when the wait was for a breakpoint, it is one byte past it.    *)
StopInv ==
  /\ lp \in HeldLabels => tstate[stoppedPid] \in {"held", "zombie"}
  /\ lp \in PastInt3Labels /\ tstate[stoppedPid] = "held"
       => tpc[stoppedPid] - BreakpointSize \in Addrs
  /\ lp = "setRegs" => /\ stoppedRip \in Addrs
                       /\ tstate[stoppedPid] = "held"
                            => stoppedRip = tpc[stoppedPid] - BreakpointSize

(* A thread whose stop at an INT3 is not reported yet is one byte past it. *)
Int3Inv ==
  \A t \in Tids : tstate[t] = "trapped" /\ tstop[t] = "bp"
                    => tpc[t] - BreakpointSize \in Addrs

(* The addresses that hold an INT3 now. *)
Armed ==
  {a \in Set : \/ lp = "set" /\ a \notin todo
               \/ lp \in {"cont", "waitTrap", "kill", "waitStop"}
               \/ lp \in {"lift", "liftFinal"} /\ a \in todo}

(* The set of breakpoints does not change while they are written. *)
TodoInv ==
  /\ todo \subseteq Set
  /\ lp \notin {"set", "lift", "liftFinal"} => todo = {}

(* The text is the executable's with an INT3 where one is due. *)
MemInv ==
  taint = "clean" =>
    \A a \in Addrs : mem[a] = IF a \in Armed THEN INT3 ELSE Text[a]

(* Every thread is on an instruction, unless it has just executed an INT3. *)
PcInv ==
  taint = "clean" =>
    \A t \in Tids :
      /\ Runs(t) \/ tstate[t] = "starting" => tpc[t] \in Addrs
      /\ tstate[t] = "trapped" /\ tstop[t] # "bp" => tpc[t] \in Addrs
      /\ tstate[t] = "held" /\ lp \notin PastInt3Labels => tpc[t] \in Addrs

(* Between Resumes the thread is still stopped where the last one left it. *)
RestInv ==
  taint = "clean" =>
    /\ lp \in {"loop", "set", "cont"} /\ procIsUp
         => tstate[stoppedPid] \in {"held", "zombie", "reaped"}
    /\ lp = "waitStep" /\ tstate[stoppedPid] = "trapped"
         => tstop[stoppedPid] # "bp"
    /\ RegsFresh

Inv ==
  /\ TypeOK
  /\ ProcInv
  /\ LiveInv
  /\ HeldInv
  /\ FreshInv
  /\ StepInv
  /\ StopInv
  /\ Int3Inv
  /\ TodoInv
  /\ MemInv
  /\ PcInv
  /\ RestInv
  /\ OrigInstrGenuine

-----------------------------------------------------------------------------
(* A program that starts no threads. *)

(* The only live thread is the one that handleResume works with. *)
OneThread == \A t \in Tids : Live(t) => t = stoppedPid

RunLabels == {"waitTrap", "kill", "waitStop"}

(* Where the INT3 was that a thread has executed, a breakpoint is still    *)
(* set: calls that change the set are not served before Resume returns.    *)
AtBreakpoint ==
  taint = "clean" =>
    /\ \A t \in Tids : tstate[t] = "trapped" /\ tstop[t] = "bp"
                         => lp \in RunLabels /\ tpc[t] - BreakpointSize \in Set
    /\ lp \in {"liftFinal", "getRegs"} /\ tstate[stoppedPid] = "held"
         => tpc[stoppedPid] - BreakpointSize \in Set
    /\ lp = "setRegs" => stoppedRip \in Set

(* Without signals, a stop is that of the exec, of a step, of an INT3 or   *)
(* of the SIGSTOP that handleResume waits for.                             *)
Stops ==
  /\ \A t \in Tids : tstate[t] = "trapped" => tstop[t] \in {"exec", "bp", "step", "sigstop"}
  /\ taint = "clean" =>
       /\ sigstop => lp = "waitStop"
       /\ \A t \in Tids : tstate[t] = "trapped" /\ tstop[t] = "sigstop" => lp = "waitStop" /\ ~sigstop

(* A thread runs only inside the wait for a breakpoint. *)
RunsArmed == taint = "clean" => \A t \in Tids : tstate[t] = "running" => lp \in RunLabels
=============================================================================
