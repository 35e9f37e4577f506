------------------------------- MODULE Kernel -------------------------------
(***************************************************************************)
(* The debugged program and the part of Linux ptrace that the server uses. *)
(* The code is not in the repository: it is modelled from the calls of     *)
(* server/ptrace.go and from doc/ptrace-nptl.txt.                          *)
(*                                                                         *)
(* A process is a set of traced threads that share the thread identifier   *)
(* of their leader.  Only the text of the process that the server started  *)
(* last is kept, since an earlier one has been killed.                     *)
(***************************************************************************)
EXTENDS Integers

CONSTANTS Addrs,       \* addresses of the instructions of the program
          Entry,       \* where a new process starts
          INT3,        \* the breakpoint instruction
          MaxTid,      \* bound: threads created in a behaviour
          CanClone,    \* may the program start threads?
          CanExit,     \* may the program exit, or be killed by someone else?
          MaxSignals   \* bound: signals that the program receives

BreakpointSize == 1

ASSUME AddrsAssumption ==
  /\ Addrs \subseteq Nat
  /\ \A a \in Addrs : a + BreakpointSize \notin Addrs
  /\ Entry \in Addrs
  /\ INT3 \notin Addrs
ASSUME BoundsAssumption ==
  /\ MaxTid \in Nat
  /\ MaxSignals \in Nat
  /\ CanClone \in BOOLEAN
  /\ CanExit \in BOOLEAN

Tids == 1..MaxTid

(***************************************************************************)
(* The instruction at address a of the executable is named by a itself.    *)
(* Executing an INT3 at a leaves the program counter one byte further, on  *)
(* an address that need not start an instruction.                          *)
(***************************************************************************)
Text == [a \in Addrs |-> a]
Instr == Addrs \cup {INT3}
Rips == Addrs \cup {a + BreakpointSize : a \in Addrs}

ThreadStates ==
  { "none",      \* not created
    "starting",  \* forked and traced, still before the stop of its exec
    "running",   \* continued
    "stepping",  \* single-stepping
    "trapped",   \* stopped, and wait4 has not reported it
    "held",      \* stopped, and wait4 has reported it
    "dying",     \* of a process that was killed, not gone yet
    "zombie",    \* gone, and wait4 has not reported it
    "reaped" }   \* gone

StopCauses == { "none", "exec", "bp", "step", "clone", "newstop",
                "sigstop", "signal" }

VARIABLES tstate,   \* the state of each thread
          tpc,      \* its program counter
          tstop,    \* why it stopped, for a stop not reported yet
          leader,   \* the leader of its process
          mem,      \* the text of the newest process
          nextTid,  \* the next thread identifier
          sigstop,  \* is a SIGSTOP pending for the newest process?
          signals   \* signals received so far

kvars == <<tstate, tpc, tstop, leader, mem, nextTid, sigstop, signals>>

KTypeOK ==
  /\ tstate \in [Tids -> ThreadStates]
  /\ tpc \in [Tids -> Rips]
  /\ tstop \in [Tids -> StopCauses]
  /\ leader \in [Tids -> 0..MaxTid]
  /\ mem \in [Addrs -> Instr]
  /\ nextTid \in 1..(MaxTid + 1)
  /\ sigstop \in BOOLEAN
  /\ signals \in 0..MaxSignals

KInit ==
  /\ tstate = [t \in Tids |-> "none"]
  /\ tpc = [t \in Tids |-> Entry]
  /\ tstop = [t \in Tids |-> "none"]
  /\ leader = [t \in Tids |-> 0]
  /\ mem = Text
  /\ nextTid = 1
  /\ sigstop = FALSE
  /\ signals = 0

-----------------------------------------------------------------------------
(* What the server can observe. *)

(* ptrace requests on any other thread fail with ESRCH. *)
Stopped(t) == t \in Tids /\ tstate[t] \in {"trapped", "held"}

(* wait4 reports the exit of a leader after those of its other threads. *)
Reapable(t) ==
  /\ tstate[t] = "zombie"
  /\ leader[t] = t => \A u \in Tids \ {t} :
                         leader[u] = t => tstate[u] \in {"none", "reaped"}

(* wait4 with __WALL finds something to report for t. *)
Waitable(t) == tstate[t] = "trapped" \/ Reapable(t)

(* The stop is a SIGTRAP other than PTRACE_EVENT_CLONE. *)
IsTrap(t) == tstop[t] \in {"exec", "bp", "step"}

Runs(t) == tstate[t] \in {"running", "stepping"}

-----------------------------------------------------------------------------
(* Steps of the program and of the kernel. *)

Stop(t, why) ==
  /\ tstate' = [tstate EXCEPT ![t] = "trapped"]
  /\ tstop' = [tstop EXCEPT ![t] = why]

(* The exec of a new process stops it. *)
ExecStop(t) ==
  /\ tstate[t] = "starting"
  /\ Stop(t, "exec")
  /\ UNCHANGED <<tpc, leader, mem, nextTid, sigstop, signals>>

(* The instruction at the program counter, of the executable. *)
AtInstr(t) == tpc[t] \in Addrs => mem[tpc[t]] # INT3

ExecInstr(t) ==
  /\ Runs(t)
  /\ AtInstr(t)
  /\ \E b \in Addrs : tpc' = [tpc EXCEPT ![t] = b]
  /\ IF tstate[t] = "stepping" THEN Stop(t, "step")
                               ELSE UNCHANGED <<tstate, tstop>>
  /\ UNCHANGED <<leader, mem, nextTid, sigstop, signals>>

(* The instruction at the program counter, a breakpoint of the server. *)
HitInt3(t) ==
  /\ Runs(t)
  /\ ~AtInstr(t)
  /\ tpc' = [tpc EXCEPT ![t] = @ + BreakpointSize]
  /\ Stop(t, "bp")
  /\ UNCHANGED <<leader, mem, nextTid, sigstop, signals>>

(* A SIGSTOP sent with kill(2) stops some thread of the process. *)
TakeSigstop(t) ==
  /\ sigstop
  /\ Runs(t)
  /\ sigstop' = FALSE
  /\ Stop(t, "sigstop")
  /\ UNCHANGED <<tpc, leader, mem, nextTid, signals>>

(* Any signal other than SIGSTOP and SIGTRAP. *)
Signal(t) ==
  /\ Runs(t)
  /\ signals < MaxSignals
  /\ signals' = signals + 1
  /\ Stop(t, "signal")
  /\ UNCHANGED <<tpc, leader, mem, nextTid, sigstop>>

(* PTRACE_O_TRACECLONE: the parent stops with PTRACE_EVENT_CLONE, the new   *)
(* thread is traced from the start and stops with a SIGSTOP of its own.     *)
Clone(t) ==
  /\ CanClone
  /\ Runs(t)
  /\ AtInstr(t)
  /\ nextTid \in Tids
  /\ nextTid' = nextTid + 1
  /\ tstate' = [tstate EXCEPT ![t] = "trapped", ![nextTid] = "trapped"]
  /\ tstop' = [tstop EXCEPT ![t] = "clone", ![nextTid] = "newstop"]
  /\ \E b \in Addrs : tpc' = [tpc EXCEPT ![t] = b, ![nextTid] = b]
  /\ leader' = [leader EXCEPT ![nextTid] = leader[t]]
  /\ UNCHANGED <<mem, sigstop, signals>>

(* A thread other than the first one ends. *)
ThreadExit(t) ==
  /\ CanExit
  /\ Runs(t)
  /\ leader[t] # t
  /\ tstate' = [tstate EXCEPT ![t] = "zombie"]
  /\ UNCHANGED <<tpc, tstop, leader, mem, nextTid, sigstop, signals>>

Live(t) == tstate[t] \in {"starting", "running", "stepping", "trapped", "held"}

(* The process exits, or is killed by someone else, stopped or not. *)
Exit(p) ==
  /\ CanExit
  /\ \E t \in Tids : Live(t) /\ leader[t] = p
  /\ tstate' = [t \in Tids |-> IF Live(t) /\ leader[t] = p
                               THEN "zombie" ELSE tstate[t]]
  /\ UNCHANGED <<tpc, tstop, leader, mem, nextTid, sigstop, signals>>

(* A thread of a process that the server killed is gone at last. *)
Die(t) ==
  /\ tstate[t] = "dying"
  /\ tstate' = [tstate EXCEPT ![t] = "zombie"]
  /\ UNCHANGED <<tpc, tstop, leader, mem, nextTid, sigstop, signals>>

KNext ==
  \E t \in Tids :
    \/ ExecStop(t) \/ ExecInstr(t) \/ HitInt3(t) \/ TakeSigstop(t)
    \/ Signal(t) \/ Clone(t) \/ ThreadExit(t) \/ Exit(t) \/ Die(t)

-----------------------------------------------------------------------------
(* System calls of the server. *)

(* os.StartProcess with Ptrace set, from the thread that traces. *)
Fork(killed) ==
  /\ nextTid \in Tids
  /\ tstate' = [killed EXCEPT ![nextTid] = "starting"]
  /\ tpc' = [tpc EXCEPT ![nextTid] = Entry]
  /\ leader' = [leader EXCEPT ![nextTid] = nextTid]
  /\ mem' = Text
  /\ nextTid' = nextTid + 1
  /\ sigstop' = FALSE
  /\ UNCHANGED <<tstop, signals>>

(* The thread states after SIGKILL is sent to process p. *)
Killed(p) == [t \in Tids |-> IF Live(t) /\ leader[t] = p
                             THEN "dying" ELSE tstate[t]]

(* PTRACE_CONT or PTRACE_SINGLESTEP, for a stopped thread. *)
Restart(t, how) ==
  /\ tstate' = [tstate EXCEPT ![t] = how]
  /\ tstop' = [tstop EXCEPT ![t] = "none"]
  /\ UNCHANGED <<tpc, leader, mem, nextTid, sigstop, signals>>

(* wait4 reports the stop, or the exit, of t. *)
Report(t) ==
  /\ tstate' = [tstate EXCEPT ![t] = IF @ = "trapped" THEN "held" ELSE "reaped"]
  /\ tstop' = [tstop EXCEPT ![t] = "none"]
  /\ UNCHANGED <<tpc, leader, mem, nextTid, sigstop, signals>>

(* PTRACE_POKETEXT of the breakpoint's bytes, for a stopped thread. *)
Poke(a, i) ==
  /\ mem' = [mem EXCEPT ![a] = i]
  /\ UNCHANGED <<tstate, tpc, tstop, leader, nextTid, sigstop, signals>>

(* PTRACE_SETREGS, for a stopped thread. *)
SetRip(t, rip) ==
  /\ tpc' = [tpc EXCEPT ![t] = rip]
  /\ UNCHANGED <<tstate, tstop, leader, mem, nextTid, sigstop, signals>>
=============================================================================
