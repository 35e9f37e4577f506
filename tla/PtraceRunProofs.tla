--------------------------- MODULE PtraceRunProofs ---------------------------
(***************************************************************************)
(* Proofs about PtraceRun, for any number of callers and any outcomes.     *)
(***************************************************************************)
EXTENDS PtraceRun, TLAPS

(* Exactly the caller whose closure ptraceRun has in hand is in <-s.ec. *)
OneReceiver ==
  \A c \in Callers : cpc[c] = "receive" <=> rpc # "range" /\ job = c

(* What is about to be sent on ec is what the closure in hand returned. *)
SendsOutcome == rpc = "send" => err = outcome[job]

RunInv == TypeOK /\ OneReceiver /\ SendsOutcome /\ OwnResult

-----------------------------------------------------------------------------
(* The rendezvous on fc: it needs an idle ptraceRun, so that the caller    *)
(* that moves to <-s.ec is alone there.                                    *)
LEMMA FcKeepsInv ==
  ASSUME RunInv, NEW c \in Callers, Call(c) \/ HandOver(c)
  PROVE  RunInv'
BY DEF RunInv, TypeOK, OneReceiver, SendsOutcome, OwnResult, Call, HandOver

(* The closure runs on ptraceRun's thread, and its error is kept for ec. *)
LEMMA ClosureKeepsInv == RunInv /\ RunClosure => RunInv'
BY DEF RunInv, TypeOK, OneReceiver, SendsOutcome, OwnResult, RunClosure

(* The rendezvous on ec: the one caller that waits there is the job. *)
LEMMA EcKeepsInv ==
  ASSUME RunInv, NEW c \in Callers, HandBack(c)
  PROVE  RunInv'
BY DEF RunInv, TypeOK, OneReceiver, SendsOutcome, OwnResult, HandBack

(* The invariant holds in every reachable state: the rendezvous on fc and  *)
(* on ec keep one closure, and one waiting caller, in play.                *)
LEMMA RunInvariant == Spec => []RunInv
<1> DEFINE Channel(c) == Call(c) \/ HandOver(c) \/ HandBack(c)
<1>init. Init => RunInv
  BY DEF Init, RunInv, TypeOK, OneReceiver, SendsOutcome, OwnResult
<1>stutter. RunInv /\ vars' = vars => RunInv'
  BY DEF vars, RunInv, TypeOK, OneReceiver, SendsOutcome, OwnResult
<1>next. RunInv /\ Next => RunInv'
  <2> HAVE RunInv /\ Next
  <2>a. \/ RunClosure
        \/ \E c \in Callers : Channel(c)
    BY DEF Next
  <2>b. (\E c \in Callers : Channel(c)) => RunInv'
    BY FcKeepsInv, EcKeepsInv
  <2> QED
    BY <2>a, <2>b, ClosureKeepsInv
<1>box. RunInv /\ [Next]_vars => RunInv'
  BY <1>next, <1>stutter
<1> QED
  BY <1>init, <1>box, PTL DEF Spec

(* The claim of ptraceRun's comment, for every number of goroutines: what  *)
(* a caller received is what its own closure returned.                     *)
THEOREM ResultIsOwn == Spec => []OwnResult
<1>own. RunInv => OwnResult
  BY DEF RunInv
<1> QED
  BY <1>own, RunInvariant, PTL

-----------------------------------------------------------------------------
(* How each step looks to PtraceCalls: a caller's own steps. *)
LEMMA CallerRefines ==
  ASSUME RunInv, NEW c \in Callers
  PROVE  /\ Call(c) => Calls!Invoke(c)
         /\ HandOver(c) => Calls!cvars' = Calls!cvars
         /\ HandBack(c) => Calls!ReturnOwn(c)
<1> USE DEF RunInv, TypeOK, OneReceiver, SendsOutcome, phaseBar
<1>fc. Call(c) => Calls!Invoke(c)
  BY DEF Call, Calls!Invoke
<1>hidden. HandOver(c) => Calls!cvars' = Calls!cvars
  BY DEF HandOver, Calls!cvars
<1>ec. HandBack(c) => Calls!ReturnOwn(c)
  BY DEF HandBack, Calls!ReturnOwn
<1> QED
  BY <1>fc, <1>hidden, <1>ec

(* The closure is the moment its caller's system call is made. *)
LEMMA ClosureRefines ==
  RunInv /\ RunClosure => \E c \in Callers : Calls!MakeCall(c)
<1> HAVE RunInv /\ RunClosure
<1>job. PICK c \in Callers : c = job
  BY DEF RunInv, TypeOK
<1> WITNESS c \in Callers
<1> QED
  BY <1>job DEF RunClosure, Calls!MakeCall, RunInv, TypeOK, OneReceiver, phaseBar

(* ptraceRun and its callers implement PtraceCalls. *)
THEOREM RunImplementsCalls == Spec => ImplementsCalls
<1>init. Init => Calls!CallsInit
  BY DEF Init, Calls!CallsInit, phaseBar
<1>stutter. vars' = vars => Calls!cvars' = Calls!cvars
  BY DEF vars, Calls!cvars, phaseBar
<1>next. RunInv /\ Next => Calls!CallsNext \/ Calls!cvars' = Calls!cvars
  BY CallerRefines, ClosureRefines DEF Next, Calls!CallsNext
<1>box. RunInv /\ [Next]_vars => [Calls!CallsNext]_(Calls!cvars)
  BY <1>next, <1>stutter
<1> QED
  BY <1>init, <1>box, RunInvariant, PTL
     DEF Spec, ImplementsCalls, Calls!CallsSpec
=============================================================================
