----------------------------- MODULE PtraceCalls -----------------------------
(***************************************************************************)
(* What ptraceRun promises (server/ptrace.go): a goroutine that hands over *)
(* a closure gets back the outcome of that closure, computed in one step   *)
(* during the call, as if it had made the system call itself.              *)
(***************************************************************************)
CONSTANTS Callers, Outcomes, NoOutcome

VARIABLES phase,     \* each caller: ready, calling, or its call has been made
          outcome,   \* the outcome of its last closure
          returned   \* the outcome that its last call returned

cvars == <<phase, outcome, returned>>

CallsInit ==
  /\ phase = [c \in Callers |-> "ready"]
  /\ outcome = [c \in Callers |-> NoOutcome]
  /\ returned = [c \in Callers |-> NoOutcome]

Invoke(c) ==
  /\ phase[c] = "ready"
  /\ phase' = [phase EXCEPT ![c] = "calling"]
  /\ UNCHANGED <<outcome, returned>>

MakeCall(c) ==
  /\ phase[c] = "calling"
  /\ phase' = [phase EXCEPT ![c] = "made"]
  /\ \E e \in Outcomes : outcome' = [outcome EXCEPT ![c] = e]
  /\ UNCHANGED returned

ReturnOwn(c) ==
  /\ phase[c] = "made"
  /\ phase' = [phase EXCEPT ![c] = "ready"]
  /\ returned' = [returned EXCEPT ![c] = outcome[c]]
  /\ UNCHANGED outcome

CallsNext == \E c \in Callers : Invoke(c) \/ MakeCall(c) \/ ReturnOwn(c)

CallsSpec == CallsInit /\ [][CallsNext]_cvars
=============================================================================
