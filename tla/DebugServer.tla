----------------------------- MODULE DebugServer -----------------------------
(***************************************************************************)
(* The core of package server: the goroutine that runs loop(), the calls   *)
(* that RPC goroutines send to it on breakpointc and otherc, and the       *)
(* handlers that start, resume and stop the debugged process and that      *)
(* write breakpoints into its text (server/server.go, server/ptrace.go).   *)
(*                                                                         *)
(* Every other handler reads the state kept here and changes none of it,   *)
(* except handleFrames (topOfStackAddrs, here) and the file handlers       *)
(* (module Files).  A handler that makes several ptrace requests takes one *)
(* step per request where a step of the program between two of them can    *)
(* make a difference, and one step otherwise.                              *)
(***************************************************************************)
EXTENDS Kernel

CONSTANTS Clients,    \* RPC goroutines that call the server
          NoClient,
          NoReq,
          NoBp,       \* no breakpoint is set at an address
          BadAddr,    \* an address that cannot be peeked
          Requests    \* the requests that clients make

Ops == {"run", "resume", "break", "delete", "frames"}
BreakOps == {"break", "delete"}     \* those sent on breakpointc

ASSUME ServerAssumption ==
  /\ 0 \notin Rips
  /\ BadAddr \notin Addrs
  /\ NoBp \notin Instr
  /\ NoClient \notin Clients
  /\ NoReq \notin Requests
  /\ Requests \subseteq [op : Ops, pcs : SUBSET (Addrs \cup {BadAddr})]

(* Where the server's goroutine is: in loop(), or inside handleResume. *)
Labels ==
  { "loop",        \* select of loop()
    "waitUp",      \* waitForTrap for the stop of the exec
    "setOptions",  \* ptraceSetOptions
    "waitStep",    \* waitForTrap after ptraceSingleStep
    "set",         \* setBreakpoints
    "cont",        \* ptraceCont
    "waitTrap",    \* waitForTrap(-1, true)
    "kill",        \* syscall.Kill(s.stoppedPid, SIGSTOP)
    "waitStop",    \* wait(s.stoppedPid) for that SIGSTOP
    "lift",        \* liftBreakpoints, to serve calls on breakpointc
    "serve",       \* the inner loop that serves them
    "liftFinal",   \* liftBreakpoints, before Resume returns
    "getRegs",
    "setRegs" }

VARIABLES proc,             \* s.proc (its pid), 0 for nil
          procIsUp,
          stoppedPid,
          stoppedRip,       \* s.stoppedRegs.Rip
          topOfStackAddrs,  \* the process they were read from, 0 for nil
          breakpoints,      \* the origInstr of each breakpoint, or NoBp
          lp,               \* the label of the server's goroutine
          todo,             \* the addresses left for set- or liftBreakpoints
          cur,              \* the caller of the Resume in progress
          bce,              \* the caller taken off breakpointc during a Resume
          cst,              \* the state of each client
          creq,             \* its request
          taint             \* history: what a failed Resume left behind

cvars == <<cst, creq>>
pvars == <<proc, procIsUp, stoppedPid, stoppedRip, topOfStackAddrs>>
svars == <<pvars, breakpoints, lp, todo, cur, bce, cvars, taint>>
vars == <<kvars, svars>>

(***************************************************************************)
(* taint says how far a Resume that returned an error after it began to    *)
(* write breakpoints has spread: "interrupted" from that error until Run   *)
(* starts a new process, "polluted" once a breakpoint was added meanwhile, *)
(* whose origInstr may be an INT3 that the failed Resume left in the text. *)
(***************************************************************************)
Taints == {"clean", "interrupted", "polluted"}

STypeOK ==
  /\ proc \in 0..MaxTid
  /\ procIsUp \in BOOLEAN
  /\ stoppedPid \in 0..MaxTid
  /\ stoppedRip \in Rips \cup {0}
  /\ topOfStackAddrs \in 0..MaxTid
  /\ breakpoints \in [Addrs -> Instr \cup {NoBp}]
  /\ lp \in Labels
  /\ todo \in SUBSET Addrs
  /\ cur \in Clients \cup {NoClient}
  /\ bce \in Clients \cup {NoClient}
  /\ cst \in [Clients -> {"idle", "sending", "waiting"}]
  /\ creq \in [Clients -> Requests \cup {NoReq}]
  /\ taint \in Taints

SInit ==
  /\ proc = 0
  /\ procIsUp = FALSE
  /\ stoppedPid = 0
  /\ stoppedRip = 0
  /\ topOfStackAddrs = 0
  /\ breakpoints = [a \in Addrs |-> NoBp]
  /\ lp = "loop"
  /\ todo = {}
  /\ cur = NoClient
  /\ bce = NoClient
  /\ cst = [c \in Clients |-> "idle"]
  /\ creq = [c \in Clients |-> NoReq]
  /\ taint = "clean"

Init == KInit /\ SInit

Set == {a \in Addrs : breakpoints[a] # NoBp}     \* the keys of s.breakpoints

-----------------------------------------------------------------------------
(* Calls. *)

(* A goroutine blocks in call(), sending on breakpointc or otherc. *)
Send(c) ==
  /\ cst[c] = "idle"
  /\ cst' = [cst EXCEPT ![c] = "sending"]
  /\ \E r \in Requests : creq' = [creq EXCEPT ![c] = r]
  /\ UNCHANGED <<kvars, pvars, breakpoints, lp, todo, cur, bce, taint>>

Sending(c, op) == cst[c] = "sending" /\ creq[c].op = op
SendingBreak(c) == cst[c] = "sending" /\ creq[c].op \in BreakOps

(* dispatch runs for c: from loop(), or from the inner loop of handleResume, *)
(* which only takes calls off breakpointc.                                   *)
Dispatched(c, op) ==
  \/ lp = "loop" /\ Sending(c, op)
  \/ lp = "serve" /\ bce = c /\ creq[c].op = op /\ op \in BreakOps

(* dispatch sends the handler's result on errc, where the client waits. *)
Return(c) ==
  /\ cst' = [cst EXCEPT ![c] = "idle"]
  /\ creq' = [creq EXCEPT ![c] = NoReq]
  /\ bce' = NoClient

Reply(c) == Return(c) /\ UNCHANGED cur

-----------------------------------------------------------------------------
(* Breakpoints. *)

CanPeek(a) == a \in Addrs /\ Stopped(stoppedPid)

(* handleBreakpoint, and its variants that first look up the addresses of a *)
(* function or of a line: a failed lookup or peek adds no breakpoint.       *)
addBreakpoints(pcs) ==
  IF \A a \in pcs \ Set : CanPeek(a)
  THEN breakpoints' = [a \in Addrs |-> IF a \in pcs \ Set THEN mem[a]
                                                          ELSE breakpoints[a]]
  ELSE UNCHANGED breakpoints

HandleBreakpoint(c) ==
  /\ Dispatched(c, "break")
  /\ addBreakpoints(creq[c].pcs)
  /\ taint' = IF taint # "clean" /\ breakpoints' # breakpoints
              THEN "polluted" ELSE taint
  /\ Reply(c)
  /\ UNCHANGED <<kvars, pvars, lp, todo>>

HandleDeleteBreakpoints(c) ==
  /\ Dispatched(c, "delete")
  /\ breakpoints' = [a \in Addrs |-> IF a \in creq[c].pcs THEN NoBp
                                                          ELSE breakpoints[a]]
  /\ Reply(c)
  /\ UNCHANGED <<kvars, pvars, lp, todo, taint>>

-----------------------------------------------------------------------------
(* Run. *)

(* A faulty variant: the cached addresses outlive the process. *)
AbandonKeepsTop ==
  IF proc # 0 THEN procIsUp' = FALSE /\ stoppedRip' = 0 /\ UNCHANGED topOfStackAddrs
              ELSE UNCHANGED <<procIsUp, stoppedRip, topOfStackAddrs>>

(* The process is killed and forgotten, and is not waited for. *)
Abandon ==
  IF proc # 0 THEN /\ procIsUp' = FALSE
                   /\ stoppedRip' = 0
                   /\ topOfStackAddrs' = 0
              ELSE UNCHANGED <<procIsUp, stoppedRip, topOfStackAddrs>>

(* A faulty variant: the old process is left alone. *)
HandleRunNoKill(c) ==
  /\ Dispatched(c, "run")
  /\ Abandon
  /\ Fork(tstate)
  /\ proc' = nextTid
  /\ stoppedPid' = nextTid
  /\ taint' = IF taint = "interrupted" THEN "clean" ELSE taint
  /\ Reply(c)
  /\ UNCHANGED <<breakpoints, lp, todo>>

HandleRun(c) ==
  /\ Dispatched(c, "run")
  /\ Abandon
  /\ Fork(IF proc # 0 THEN Killed(proc) ELSE tstate)
  /\ proc' = nextTid
  /\ stoppedPid' = nextTid
  /\ taint' = IF taint = "interrupted" THEN "clean" ELSE taint
  /\ Reply(c)
  /\ UNCHANGED <<breakpoints, lp, todo>>

HandleRunFails(c) ==
  /\ Dispatched(c, "run")
  /\ Abandon
  /\ tstate' = IF proc # 0 THEN Killed(proc) ELSE tstate
  /\ proc' = 0
  /\ stoppedPid' = IF proc # 0 THEN 0 ELSE stoppedPid
  /\ Reply(c)
  /\ UNCHANGED <<tpc, tstop, leader, mem, nextTid, sigstop, signals,
                 breakpoints, lp, todo, taint>>

-----------------------------------------------------------------------------
(* Resume. *)

Goto(label) ==
  /\ lp' = label
  /\ UNCHANGED <<breakpoints, cur, bce, cvars, taint>>

(* setBreakpoints and liftBreakpoints range over s.breakpoints. *)
GotoPokes(label) == Goto(label) /\ todo' = Set

(* handleResume returns an error.  A call taken off breakpointc is lost. *)
ReturnError ==
  /\ lp' = "loop"
  /\ todo' = {}
  /\ Return(cur)
  /\ cur' = NoClient
  /\ taint' = IF taint = "clean" /\ lp \notin {"waitUp", "setOptions", "waitStep"}
              THEN "interrupted" ELSE taint
  /\ UNCHANGED breakpoints

Accept(c) ==
  /\ lp = "loop"
  /\ Sending(c, "resume")
  /\ cst' = [cst EXCEPT ![c] = "waiting"]
  /\ cur' = c
  /\ UNCHANGED <<creq, bce, breakpoints, taint>>

(* The process is nil, or the single step cannot be made. *)
ResumeRefused(c) ==
  /\ lp = "loop"
  /\ Sending(c, "resume")
  /\ \/ proc = 0
     \/ proc # 0 /\ procIsUp /\ stoppedRip \in Set /\ ~Stopped(stoppedPid)
  /\ Reply(c)
  /\ UNCHANGED <<kvars, pvars, breakpoints, lp, todo, taint>>

ResumeFirst(c) ==
  /\ Accept(c)
  /\ proc # 0
  /\ ~procIsUp
  /\ procIsUp' = TRUE
  /\ lp' = "waitUp"
  /\ UNCHANGED <<kvars, proc, stoppedPid, stoppedRip, topOfStackAddrs, todo>>

(* Off the breakpoint where the process stopped, with no breakpoint set. *)
ResumeStep(c) ==
  /\ Accept(c)
  /\ proc # 0
  /\ procIsUp
  /\ stoppedRip \in Set
  /\ Stopped(stoppedPid)
  /\ Restart(stoppedPid, "stepping")
  /\ lp' = "waitStep"
  /\ UNCHANGED <<pvars, todo>>

(* A faulty variant: no step off the breakpoint, which is hit once more. *)
ResumeNoStep(c) ==
  /\ Accept(c)
  /\ proc # 0
  /\ procIsUp
  /\ lp' = "set"
  /\ todo' = Set
  /\ UNCHANGED <<kvars, pvars>>

ResumeDirectly(c) ==
  /\ Accept(c)
  /\ proc # 0
  /\ procIsUp
  /\ stoppedRip \notin Set
  /\ lp' = "set"
  /\ todo' = Set
  /\ UNCHANGED <<kvars, pvars>>

-----------------------------------------------------------------------------
(* waitForTrap, at each of its three calls.  A wait that finds nothing is   *)
(* no step.  ECHILD cannot happen: the thread waited for is not reaped.     *)

Waiting(t) == \/ lp \in {"waitUp", "waitStep"} /\ t = stoppedPid
              \/ lp = "waitTrap"

(* A faulty variant: a Resume that stops does not lift the breakpoints. *)
WaitForTrapNoLift(t) ==
  /\ Waiting(t)
  /\ tstate[t] = "trapped"
  /\ IsTrap(t)
  /\ Report(t)
  /\ stoppedPid' = t
  /\ \/ lp = "waitUp"   /\ Goto("setOptions") /\ UNCHANGED todo
     \/ lp = "waitStep" /\ GotoPokes("set")
     \/ lp = "waitTrap" /\ Goto("getRegs") /\ UNCHANGED todo
  /\ UNCHANGED <<proc, procIsUp, stoppedRip, topOfStackAddrs>>

(* A SIGTRAP ends the wait. *)
WaitForTrap(t) ==
  /\ Waiting(t)
  /\ tstate[t] = "trapped"
  /\ IsTrap(t)
  /\ Report(t)
  /\ stoppedPid' = t
  /\ \/ lp = "waitUp"   /\ Goto("setOptions") /\ UNCHANGED todo
     \/ lp = "waitStep" /\ GotoPokes("set")
     \/ lp = "waitTrap" /\ GotoPokes("liftFinal")
  /\ UNCHANGED <<proc, procIsUp, stoppedRip, topOfStackAddrs>>

(* A faulty variant: a stop of no interest is dropped. *)
WaitForTrapSwallow(t) ==
  /\ Waiting(t)
  /\ tstate[t] = "trapped"
  /\ ~IsTrap(t)
  /\ Report(t)
  /\ UNCHANGED svars

(* Any other stop is continued, without its signal. *)
WaitForTrapCont(t) ==
  /\ Waiting(t)
  /\ tstate[t] = "trapped"
  /\ ~IsTrap(t)
  /\ Restart(t, "running")
  /\ UNCHANGED svars

(* The status of a thread that is gone cannot be continued. *)
WaitForTrapGone(t) ==
  /\ Waiting(t)
  /\ Reapable(t)
  /\ Report(t)
  /\ ReturnError
  /\ UNCHANGED pvars

(* A faulty variant: the wait of handleResume ignores breakpointc. *)
BreakpointsNotPolled(c) == SendingBreak(c) /\ lp = "poll" /\ UNCHANGED vars

(* wait found nothing, and then a sender on breakpointc. *)
BreakpointsChanged(c) ==
  /\ lp = "waitTrap"
  /\ \A t \in Tids : ~Waitable(t)
  /\ SendingBreak(c)
  /\ cst' = [cst EXCEPT ![c] = "waiting"]
  /\ bce' = c
  /\ lp' = "kill"
  /\ UNCHANGED <<kvars, pvars, breakpoints, todo, cur, creq, taint>>

-----------------------------------------------------------------------------
(* The other steps of handleResume. *)

SetOptions ==
  /\ lp = "setOptions"
  /\ Stopped(stoppedPid)
  /\ GotoPokes("set")
  /\ UNCHANGED <<kvars, pvars>>

SetBreakpoint(a) ==
  /\ lp = "set"
  /\ a \in todo
  /\ Stopped(stoppedPid)
  /\ Poke(a, INT3)
  /\ todo' = todo \ {a}
  /\ UNCHANGED <<pvars, breakpoints, lp, cur, bce, cvars, taint>>

SetBreakpointsDone ==
  /\ lp = "set"
  /\ todo = {}
  /\ Goto("cont")
  /\ UNCHANGED <<kvars, pvars, todo>>

Cont ==
  /\ lp = "cont"
  /\ Stopped(stoppedPid)
  /\ Restart(stoppedPid, "running")
  /\ Goto("waitTrap")
  /\ UNCHANGED <<pvars, todo>>

(* kill(2) signals the process: it finds it, since it is not reaped yet. *)
KillStop ==
  /\ lp = "kill"
  /\ sigstop' = TRUE
  /\ Goto("waitStop")
  /\ UNCHANGED <<tstate, tpc, tstop, leader, mem, nextTid, signals, pvars, todo>>

(* A faulty variant: calls are served with the breakpoints written. *)
WaitStopNoLift ==
  /\ lp = "waitStop"
  /\ tstate[stoppedPid] = "trapped"
  /\ tstop[stoppedPid] \in {"sigstop", "newstop"}
  /\ Report(stoppedPid)
  /\ Goto("serve")
  /\ UNCHANGED <<pvars, todo>>

WaitStop ==
  /\ lp = "waitStop"
  /\ tstate[stoppedPid] = "trapped"
  /\ tstop[stoppedPid] \in {"sigstop", "newstop"}
  /\ Report(stoppedPid)
  /\ GotoPokes("lift")
  /\ UNCHANGED pvars

(* "wait (after SIGSTOP): unexpected wait status" *)
WaitStopUnexpected ==
  /\ lp = "waitStop"
  /\ Waitable(stoppedPid)
  /\ tstate[stoppedPid] = "trapped" => tstop[stoppedPid] \notin {"sigstop", "newstop"}
  /\ Report(stoppedPid)
  /\ ReturnError
  /\ UNCHANGED pvars

LiftBreakpoint(a) ==
  /\ lp \in {"lift", "liftFinal"}
  /\ a \in todo
  /\ Stopped(stoppedPid)
  /\ Poke(a, breakpoints[a])
  /\ todo' = todo \ {a}
  /\ UNCHANGED <<pvars, breakpoints, lp, cur, bce, cvars, taint>>

LiftBreakpointsDone ==
  /\ lp \in {"lift", "liftFinal"}
  /\ todo = {}
  /\ Goto(IF lp = "lift" THEN "serve" ELSE "getRegs")
  /\ UNCHANGED <<kvars, pvars, todo>>

(* Another call is waiting on breakpointc. *)
ServeNext(c) ==
  /\ lp = "serve"
  /\ bce = NoClient
  /\ SendingBreak(c)
  /\ cst' = [cst EXCEPT ![c] = "waiting"]
  /\ bce' = c
  /\ UNCHANGED <<kvars, pvars, breakpoints, lp, todo, cur, creq, taint>>

(* A faulty variant: the program goes on without its breakpoints. *)
ServeDoneUnset ==
  /\ lp = "serve"
  /\ bce = NoClient
  /\ \A c \in Clients : ~SendingBreak(c)
  /\ Goto("cont")
  /\ UNCHANGED <<kvars, pvars, todo>>

ServeDone ==
  /\ lp = "serve"
  /\ bce = NoClient
  /\ \A c \in Clients : ~SendingBreak(c)
  /\ GotoPokes("set")
  /\ UNCHANGED <<kvars, pvars>>

GetRegs ==
  /\ lp = "getRegs"
  /\ Stopped(stoppedPid)
  /\ stoppedRip' = tpc[stoppedPid] - BreakpointSize
  /\ Goto("setRegs")
  /\ UNCHANGED <<kvars, proc, procIsUp, stoppedPid, topOfStackAddrs, todo>>

(* A faulty variant: the registers are not written back. *)
SetRegsSkipped ==
  /\ lp = "setRegs"
  /\ Stopped(stoppedPid)
  /\ lp' = "loop"
  /\ Return(cur)
  /\ cur' = NoClient
  /\ UNCHANGED <<kvars, pvars, breakpoints, todo, taint>>

(* The registers are written back, and Resume returns the program's status. *)
SetRegs ==
  /\ lp = "setRegs"
  /\ Stopped(stoppedPid)
  /\ SetRip(stoppedPid, stoppedRip)
  /\ lp' = "loop"
  /\ Return(cur)
  /\ cur' = NoClient
  /\ UNCHANGED <<pvars, breakpoints, todo, taint>>

(* A ptrace request that finds no stopped thread ends Resume. *)
PtraceFails ==
  /\ \/ lp \in {"setOptions", "cont", "getRegs", "setRegs"}
     \/ lp \in {"set", "lift", "liftFinal"} /\ todo # {}
  /\ ~Stopped(stoppedPid)
  /\ ReturnError
  /\ UNCHANGED <<kvars, pvars>>

-----------------------------------------------------------------------------
(* handleFrames reads the top-of-stack addresses from the process once. *)

HandleFrames(c) ==
  /\ Dispatched(c, "frames")
  /\ topOfStackAddrs' = IF topOfStackAddrs = 0 /\ Stopped(stoppedPid)
                        THEN leader[stoppedPid] ELSE topOfStackAddrs
  /\ Reply(c)
  /\ UNCHANGED <<kvars, proc, procIsUp, stoppedPid, stoppedRip,
                 breakpoints, lp, todo, taint>>

-----------------------------------------------------------------------------
Program == KNext /\ UNCHANGED svars

Handle(c) ==
  \/ HandleBreakpoint(c) \/ HandleDeleteBreakpoints(c)
  \/ HandleRun(c) \/ HandleRunFails(c)
  \/ ResumeRefused(c) \/ ResumeFirst(c) \/ ResumeStep(c) \/ ResumeDirectly(c)
  \/ HandleFrames(c)
  \/ BreakpointsChanged(c) \/ ServeNext(c)

(* A step of handleResume that does not depend on the clients. *)
ResumeProceeds ==
  \/ \E t \in Tids : WaitForTrap(t) \/ WaitForTrapCont(t) \/ WaitForTrapGone(t)
  \/ \E a \in Addrs : SetBreakpoint(a) \/ LiftBreakpoint(a)
  \/ SetOptions \/ SetBreakpointsDone \/ Cont \/ KillStop
  \/ WaitStop \/ WaitStopUnexpected \/ LiftBreakpointsDone \/ ServeDone
  \/ GetRegs \/ SetRegs \/ PtraceFails

Next ==
  \/ Program
  \/ ResumeProceeds
  \/ \E c \in Clients : Send(c) \/ Handle(c)

Spec == Init /\ [][Next]_vars

(***************************************************************************)
(* Fairness.  The server's goroutine is scheduled; the kernel completes an *)
(* exec, delivers a pending SIGSTOP and finishes a killed thread.  Senders *)
(* on one channel are served in the order in which they block, and select  *)
(* chooses at random between ready channels, so that a client whose call   *)
(* can be taken again and again is taken in the end.  Nothing makes the    *)
(* program reach a breakpoint, and nothing makes a client call.            *)
(***************************************************************************)
Fairness ==
  /\ WF_vars(ResumeProceeds)
  /\ \A t \in Tids :
       /\ WF_vars(ExecStop(t) /\ UNCHANGED svars)
       /\ WF_vars(TakeSigstop(t) /\ UNCHANGED svars)
       /\ WF_vars(tstate[t] = "stepping" /\ (ExecInstr(t) \/ HitInt3(t)) /\ UNCHANGED svars)
       /\ WF_vars(Die(t) /\ UNCHANGED svars)
  /\ \A c \in Clients : SF_vars(Handle(c))

FairSpec == Spec /\ Fairness

-----------------------------------------------------------------------------
(* Properties. *)

(* Every variable keeps its type; in particular the program counter that   *)
(* handleResume computes from the registers is an instruction's address.   *)
TypeOK == KTypeOK /\ STypeOK

(* Whenever the server can serve a request, and whenever it lets the       *)
(* program single-step, the text of the process is that of the executable: *)
(* no exit from handleResume's loops leaves an INT3 behind, unless a       *)
(* Resume failed after setBreakpoints.                                     *)
TextPristine ==
  taint = "clean" /\ lp \in {"loop", "waitUp", "setOptions", "waitStep",
                             "serve", "getRegs", "setRegs"}
    => mem = Text

(* The instruction saved by addBreakpoints is the executable's and never   *)
(* an INT3 of the server's own, also for breakpoints that are added while  *)
(* a Resume is in progress and for those that survive a Run.               *)
OrigInstrGenuine ==
  taint # "polluted" => \A a \in Set : breakpoints[a] = Text[a]

(* No thread is left behind in a stop that wait4 has reported: waitForTrap *)
(* continues it, or it is the one that handleResume goes on with.          *)
OnlyStoppedPidHeld ==
  \A t \in Tids : tstate[t] = "held" => t = stoppedPid

(* A thread that runs after a Resume is on an instruction of the program,  *)
(* never one byte past an INT3 that it has executed.                       *)
NoDerail ==
  taint = "clean" => \A t \in Tids : Runs(t) => tpc[t] \in Addrs

(* Between requests, the registers that evaluation uses (s.stoppedRegs)    *)
(* are those of the stopped thread.                                        *)
RegsFresh ==
  (/\ taint = "clean"
   /\ lp = "loop"
   /\ procIsUp
   /\ stoppedPid # 0
   /\ tstate[stoppedPid] = "held")
  => stoppedRip = tpc[stoppedPid]

(* The cached top-of-stack addresses were read from the current process. *)
TopOfStackOfCurrentProcess == topOfStackAddrs \in {0, proc}

(* While a thread runs, every breakpoint is armed: the program cannot      *)
(* pass one unseen, whichever calls changed the set meanwhile (one thread, *)
(* no signals).                                                            *)
BreakpointsArmed ==
  taint = "clean" /\ (\E t \in Tids : tstate[t] = "running")
    => \A a \in Set : mem[a] = INT3

(* The status that Resume returns is that of a breakpoint which is still   *)
(* set, however its set changed while the program ran (one thread).        *)
ResumeStopsAtBreakpoint ==
  [][SetRegs /\ taint = "clean" => stoppedRip \in Set]_vars

(* A call that adds or deletes breakpoints is answered although a Resume   *)
(* is waiting for the program, unless that Resume fails (one thread).      *)
BreakpointCallServed ==
  \A c \in Clients : SendingBreak(c) ~> (cst[c] = "idle" \/ taint # "clean")

-----------------------------------------------------------------------------
(* The abstract debugger that the server implements for one thread. *)

(* The process as a client sees it. *)
ProcessState ==
  IF taint # "clean" THEN "failed"
  ELSE IF proc = 0 THEN "none"
  ELSE IF ~Live(stoppedPid) THEN "gone"
  ELSE IF lp # "loop" THEN "running"
  ELSE IF procIsUp THEN "stopped"
  ELSE "loaded"

(* The thread has executed an INT3 and its registers are not put back yet. *)
PastInt3 ==
  \/ tstate[stoppedPid] = "trapped" /\ tstop[stoppedPid] = "bp"
  \/ tstate[stoppedPid] = "held" /\ lp \in {"liftFinal", "getRegs", "setRegs"}

(* The instruction of the executable that the process has to execute next. *)
NextInstr ==
  IF ProcessState \in {"failed", "none", "gone"} THEN Entry
  ELSE IF PastInt3 THEN tpc[stoppedPid] - BreakpointSize
  ELSE tpc[stoppedPid]

(* The single step off the breakpoint of the last Resume is to be made. *)
SteppingOff == ProcessState = "running" /\ tstate[stoppedPid] = "stepping"

Dbg == INSTANCE Debugger WITH
         state <- ProcessState, pc <- NextInstr, bps <- Set, off <- SteppingOff

(* Through every single step, poke and wait of handleResume, and whichever *)
(* calls it serves meanwhile, the server is the abstract debugger: no      *)
(* breakpoint is passed unseen, none is reported that was not reached, and *)
(* Resume executes the instruction under the breakpoint it starts from     *)
(* (one thread, no signals).                                               *)
ImplementsDebugger == Dbg!Spec

-----------------------------------------------------------------------------
(* What the repository's comments and docs say, and the code does not do.  *)

(* Breakpoints can be added and removed while Resume waits for the program *)
(* (comment in wait): a call taken off breakpointc stays in the hands of   *)
(* handleResume until it is answered.                                      *)
NoCallAbandoned ==
  \A c \in Clients : cst[c] = "waiting" => c \in {cur, bce}

(* "Run abandons the current running process": how the abandoned process   *)
(* ends is no business of a later Resume, and never makes it fail.         *)
AbandonedProcessIgnored ==
  [][\A t \in Tids : WaitForTrapGone(t) => leader[t] = proc]_vars
=============================================================================
