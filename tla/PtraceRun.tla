------------------------------ MODULE PtraceRun ------------------------------
(***************************************************************************)
(* The thread that makes all ptrace and wait4 calls (server/ptrace.go):    *)
(* goroutines send it closures on fc and receive errors from ec.  Both     *)
(* channels are unbuffered, so that a send and its receive are one step.   *)
(* Every wrapper (startProcess, ptraceCont, ..., one poll of wait) is a    *)
(* send on fc followed by a receive from ec.                               *)
(***************************************************************************)
CONSTANTS Callers,     \* goroutines that use the wrappers
          Outcomes,    \* what a closure can return
          NoOutcome

VARIABLES cpc,       \* where each caller is
          rpc,       \* where ptraceRun is
          job,       \* whose closure ptraceRun received last
          err,       \* what that closure returned
          outcome,   \* history: what each caller's last closure returned
          returned   \* what each caller received from ec last

vars == <<cpc, rpc, job, err, outcome, returned>>

(* The variables keep their types, and what ptraceRun sends is an outcome. *)
TypeOK ==
  /\ cpc \in [Callers -> {"ready", "send", "receive"}]
  /\ rpc \in {"range", "call", "send"}
  /\ job \in Callers
  /\ err \in Outcomes \cup {NoOutcome}
  /\ rpc = "send" => err \in Outcomes
  /\ outcome \in [Callers -> Outcomes \cup {NoOutcome}]
  /\ returned \in [Callers -> Outcomes \cup {NoOutcome}]

Init ==
  /\ cpc = [c \in Callers |-> "ready"]
  /\ rpc = "range"
  /\ job \in Callers
  /\ err = NoOutcome
  /\ outcome = [c \in Callers |-> NoOutcome]
  /\ returned = [c \in Callers |-> NoOutcome]

(* A wrapper is called: it blocks in s.fc <- f. *)
Call(c) ==
  /\ cpc[c] = "ready"
  /\ cpc' = [cpc EXCEPT ![c] = "send"]
  /\ UNCHANGED <<rpc, job, err, outcome, returned>>

(* A faulty variant, a buffered fc: the closure is received while another one is in hand. *)
HandOverBuffered(c) ==
  /\ cpc[c] = "send"
  /\ cpc' = [cpc EXCEPT ![c] = "receive"]
  /\ rpc' = IF rpc = "range" THEN "call" ELSE rpc
  /\ job' = IF rpc = "range" THEN c ELSE job
  /\ UNCHANGED <<err, outcome, returned>>

(* s.fc <- f meets range fc. *)
HandOver(c) ==
  /\ cpc[c] = "send"
  /\ rpc = "range"
  /\ cpc' = [cpc EXCEPT ![c] = "receive"]
  /\ rpc' = "call"
  /\ job' = c
  /\ UNCHANGED <<err, outcome, returned>>

(* A faulty variant: only some outcomes are sent on ec. *)
RunClosureSilent ==
  /\ rpc = "call"
  /\ \E e \in Outcomes : /\ err' = e
                         /\ rpc' \in {"send", "range"}
                         /\ outcome' = [outcome EXCEPT ![job] = e]
  /\ UNCHANGED <<cpc, job, returned>>

(* f() runs on the locked thread. *)
RunClosure ==
  /\ rpc = "call"
  /\ rpc' = "send"
  /\ \E e \in Outcomes : /\ err' = e
                         /\ outcome' = [outcome EXCEPT ![job] = e]
  /\ UNCHANGED <<cpc, job, returned>>

(* ec <- f() meets a goroutine in <-s.ec, any of them. *)
HandBack(c) ==
  /\ rpc = "send"
  /\ cpc[c] = "receive"
  /\ cpc' = [cpc EXCEPT ![c] = "ready"]
  /\ rpc' = "range"
  /\ returned' = [returned EXCEPT ![c] = err]
  /\ UNCHANGED <<job, err, outcome>>

Next == RunClosure \/ \E c \in Callers : Call(c) \/ HandOver(c) \/ HandBack(c)

Spec == Init /\ [][Next]_vars

(* Goroutines and the locked thread are scheduled, and senders that block  *)
(* on a channel are served in order.                                       *)
FairSpec ==
  /\ Spec
  /\ WF_vars(RunClosure)
  /\ \A c \in Callers : SF_vars(HandOver(c)) /\ SF_vars(HandBack(c))

-----------------------------------------------------------------------------
(* "Both channels must be unbuffered, to ensure that the resultant error   *)
(* is sent back to the same goroutine that sent the closure": a caller     *)
(* that is not in a call has received what its own last closure returned.  *)
OwnResult ==
  \A c \in Callers : cpc[c] # "receive" => returned[c] = outcome[c]

(* Every call of a wrapper returns, with several goroutines calling. *)
CallReturns == \A c \in Callers : cpc[c] = "send" ~> cpc[c] = "ready"

(* The refinement mapping: a call is made when its closure has run. *)
phaseBar ==
  [c \in Callers |-> IF cpc[c] = "ready" THEN "ready"
                     ELSE IF cpc[c] = "receive" /\ rpc = "send" THEN "made"
                     ELSE "calling"]

Calls == INSTANCE PtraceCalls WITH phase <- phaseBar

(* ptraceRun and its callers behave like goroutines that make their system *)
(* calls themselves, one at a time.                                        *)
ImplementsCalls == Calls!CallsSpec
=============================================================================
