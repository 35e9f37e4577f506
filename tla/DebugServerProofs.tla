-------------------------- MODULE DebugServerProofs --------------------------
(***************************************************************************)
(* Proofs about DebugServer, for every set of addresses, clients and       *)
(* requests and any number of threads and signals: Inv (module             *)
(* DebugServerInv) is inductive, one lemma per action, and the safety      *)
(* properties follow from it.  The last two theorems are about programs of *)
(* one thread: where a Resume stops, and that no breakpoint is passed.     *)
(***************************************************************************)
EXTENDS DebugServerInv, TLAPS

(* The types hold before the first call. *)
LEMMA InitType == Init => TypeOK
<1> SUFFICES ASSUME Init PROVE TypeOK
  OBVIOUS
<1>0. 0 \in 0..MaxTid /\ 1 \in 1..(MaxTid + 1) /\ 0 \in 0..MaxSignals
  BY BoundsAssumption
<1>1. KTypeOK
  <2>1. tpc \in [Tids -> Rips] /\ mem \in [Addrs -> Instr]
    BY AddrsAssumption DEF Init, KInit, Rips, Text, Instr
  <2>2. tstate \in [Tids -> ThreadStates] /\ tstop \in [Tids -> StopCauses]
    BY DEF Init, KInit, ThreadStates, StopCauses
  <2>3. leader \in [Tids -> 0..MaxTid]
    BY <1>0 DEF Init, KInit
  <2>4. nextTid \in 1..(MaxTid + 1) /\ sigstop \in BOOLEAN /\ signals \in 0..MaxSignals
    BY <1>0 DEF Init, KInit
  <2>5. QED
    BY <2>1, <2>2, <2>3, <2>4 DEF KTypeOK
<1>2. STypeOK
  <2>1. proc \in 0..MaxTid /\ stoppedPid \in 0..MaxTid /\ topOfStackAddrs \in 0..MaxTid
    BY <1>0 DEF Init, SInit
  <2>2. procIsUp \in BOOLEAN /\ stoppedRip \in Rips \cup {0}
    BY DEF Init, SInit
  <2>3. /\ breakpoints \in [Addrs -> Instr \cup {NoBp}]
        /\ lp \in Labels
        /\ todo \in SUBSET Addrs
        /\ taint \in Taints
    BY DEF Init, SInit, Labels, Taints
  <2>4. /\ cur \in Clients \cup {NoClient}
        /\ bce \in Clients \cup {NoClient}
        /\ cst \in [Clients -> {"idle", "sending", "waiting"}]
        /\ creq \in [Clients -> Requests \cup {NoReq}]
    BY DEF Init, SInit
  <2>5. QED
    BY <2>1, <2>2, <2>3, <2>4 DEF STypeOK
<1>3. QED
  BY <1>1, <1>2 DEF TypeOK

(* The fields that handleRun clears keep their types. *)
LEMMA AbandonType ==
  ASSUME TypeOK, Abandon
  PROVE  /\ procIsUp' \in BOOLEAN
         /\ stoppedRip' \in Rips \cup {0}
         /\ topOfStackAddrs' \in 0..MaxTid
<1>1. CASE proc # 0
  <2>1. procIsUp' = FALSE /\ stoppedRip' = 0 /\ topOfStackAddrs' = 0
    BY <1>1 DEF Abandon
  <2>2. 0 \in 0..MaxTid
    BY BoundsAssumption
  <2>3. QED
    BY <2>1, <2>2
<1>2. CASE proc = 0
  BY <1>2 DEF Abandon, TypeOK, STypeOK
<1>3. QED
  BY <1>1, <1>2

(* The kill of handleRun leaves every thread in a state. *)
LEMMA KilledType ==
  ASSUME TypeOK
  PROVE  Killed(proc) \in [Tids -> ThreadStates]
  BY DEF Killed, TypeOK, KTypeOK, ThreadStates, Live

(* handleRun keeps the types. *)
LEMMA HandleRunType ==
  ASSUME TypeOK, NEW c \in Clients, HandleRun(c)
  PROVE  TypeOK'
<1>1. KTypeOK'
  <2>1. PICK killed \in [Tids -> ThreadStates] : Fork(killed)
    BY KilledType DEF HandleRun, TypeOK, KTypeOK
  <2>2. tstate' \in [Tids -> ThreadStates]
    BY <2>1 DEF Fork, ThreadStates
  <2>3. tpc' \in [Tids -> Rips]
    BY <2>1, AddrsAssumption DEF Fork, TypeOK, KTypeOK, Rips
  <2>4. leader' \in [Tids -> 0..MaxTid] /\ nextTid' \in 1..(MaxTid + 1)
    BY <2>1, BoundsAssumption DEF Fork, TypeOK, KTypeOK, Tids
  <2>5. mem' \in [Addrs -> Instr]
    BY <2>1 DEF Fork, Text, Instr
  <2>6. QED
    BY <2>1, <2>2, <2>3, <2>4, <2>5 DEF Fork, TypeOK, KTypeOK
<1>2. STypeOK'
  BY BoundsAssumption, AbandonType
     DEF TypeOK, STypeOK, HandleRun, Fork, Reply, Return, Tids, Taints
<1>3. QED
  BY <1>1, <1>2 DEF TypeOK

(* handleRun keeps the types when no process can be started. *)
LEMMA HandleRunFailsType ==
  ASSUME TypeOK, NEW c \in Clients, HandleRunFails(c)
  PROVE  TypeOK'
<1>1. KTypeOK'
  BY KilledType DEF TypeOK, KTypeOK, HandleRunFails
<1>2. STypeOK'
  BY BoundsAssumption, AbandonType
     DEF TypeOK, STypeOK, HandleRunFails, Reply, Return
<1>3. QED
  BY <1>1, <1>2 DEF TypeOK

(* An instruction of the program keeps the types. *)
LEMMA ExecInstrType ==
  ASSUME TypeOK, NEW t \in Tids, ExecInstr(t), UNCHANGED svars
  PROVE  TypeOK'
<1>1. tpc' \in [Tids -> Rips]
  BY DEF ExecInstr, TypeOK, KTypeOK, Rips
<1>2. tstate' \in [Tids -> ThreadStates] /\ tstop' \in [Tids -> StopCauses]
  BY DEF ExecInstr, Stop, TypeOK, KTypeOK, ThreadStates, StopCauses
<1>3. QED
  BY <1>1, <1>2 DEF TypeOK, KTypeOK, STypeOK, svars, pvars, cvars, ExecInstr

(* A clone keeps the types. *)
LEMMA CloneType ==
  ASSUME TypeOK, NEW t \in Tids, Clone(t), UNCHANGED svars
  PROVE  TypeOK'
<1>1. nextTid \in Tids /\ nextTid' = nextTid + 1
  BY DEF Clone
<1>2. tpc' \in [Tids -> Rips]
  BY <1>1 DEF Clone, TypeOK, KTypeOK, Rips
<1>3. tstate' \in [Tids -> ThreadStates] /\ tstop' \in [Tids -> StopCauses]
  BY <1>1 DEF Clone, TypeOK, KTypeOK, ThreadStates, StopCauses
<1>4. leader' \in [Tids -> 0..MaxTid] /\ nextTid' \in 1..(MaxTid + 1)
  BY <1>1, BoundsAssumption DEF Clone, TypeOK, KTypeOK, Tids
<1>5. QED
  BY <1>2, <1>3, <1>4 DEF TypeOK, KTypeOK, STypeOK, svars, pvars, cvars, Clone

(* The return of waitForTrap keeps the types. *)
LEMMA WaitForTrapType ==
  ASSUME TypeOK, NEW t \in Tids, WaitForTrap(t)
  PROVE  TypeOK'
<1>1. KTypeOK'
  BY DEF TypeOK, KTypeOK, WaitForTrap, Report, ThreadStates, StopCauses
<1>2. STypeOK'
  BY BoundsAssumption
     DEF TypeOK, STypeOK, WaitForTrap, Goto, GotoPokes, Tids, Set, Labels, cvars
<1>3. QED
  BY <1>1, <1>2 DEF TypeOK

-----------------------------------------------------------------------------
(* From here on the assumptions and the names of sets are used everywhere. *)
USE AddrsAssumption, BoundsAssumption, ServerAssumption
USE DEF Tids, Rips, Instr, Text, BreakpointSize, ThreadStates, StopCauses,
        Labels, Taints, WaitLabels, HeldLabels, PastInt3Labels, Live, Runs,
        Set, kvars, svars, pvars, cvars

(* The stop of the exec, which no wait but that of the first Resume        *)
(* takes.                                                                  *)
LEMMA ExecStopInv ==
  ASSUME Inv, NEW t \in Tids, ExecStop(t), UNCHANGED svars
  PROVE  Inv'
<1> USE DEF ExecStop, Stop
<1>1. TypeOK'
  BY SMTT(40) DEF Inv, TypeOK, KTypeOK, STypeOK
<1>2. ProcInv'
  BY DEF Inv, ProcInv, TopOfStackOfCurrentProcess
<1>3. (LiveInv /\ HeldInv)'
  BY DEF Inv, LiveInv, HeldInv
<1>4. FreshInv'
  BY DEF Inv, TypeOK, KTypeOK, STypeOK, FreshInv
<1>5. StepInv'
  BY DEF Inv, TypeOK, KTypeOK, STypeOK, StepInv
<1>6. (StopInv /\ PcInv)'
  BY DEF Inv, StopInv, PcInv
<1>7. Int3Inv'
  BY DEF Inv, TypeOK, KTypeOK, STypeOK, Int3Inv
<1>8. RestInv'
  BY DEF Inv, TypeOK, KTypeOK, STypeOK, RestInv, RegsFresh
<1>9. (TodoInv /\ MemInv /\ OrigInstrGenuine)'
  BY DEF Inv, TodoInv, MemInv, Armed, OrigInstrGenuine
<1>10. QED
  BY <1>1, <1>2, <1>3, <1>4, <1>5, <1>6, <1>7, <1>8, <1>9 DEF Inv

(* An instruction of the program: it moves a thread to another one. *)
LEMMA ExecInstrInv ==
  ASSUME Inv, NEW t \in Tids, ExecInstr(t), UNCHANGED svars
  PROVE  Inv'
<1> USE DEF ExecInstr, AtInstr, Stop
<1>1. TypeOK'
  BY ExecInstrType DEF Inv
<1>2. ProcInv'
  BY DEF Inv, ProcInv, TopOfStackOfCurrentProcess
<1>3. LiveInv'
  BY ZenonT(60) DEF Inv, TypeOK, KTypeOK, STypeOK, LiveInv
<1>4. HeldInv'
  BY SMTT(40) DEF Inv, TypeOK, KTypeOK, STypeOK, HeldInv
<1>5. FreshInv'
  <2>1. UNCHANGED <<procIsUp, stoppedPid, lp>>
    BY DEF svars, pvars
  <2>2. \A u \in Tids : u # t => tstate'[u] = tstate[u] /\ tstop'[u] = tstop[u]
    BY DEF Inv, TypeOK, KTypeOK
  <2>3. /\ Live(t) /\ tstate[t] \notin {"starting", "trapped"}
        /\ tstate'[t] # "starting"
        /\ tstate'[t] = "trapped" => tstop'[t] # "exec"
    BY DEF Inv, TypeOK, KTypeOK, Runs, Live
  <2>4. QED
    BY <2>1, <2>2, <2>3 DEF Inv, FreshInv, Live
<1>6. StepInv'
  BY SMTT(40) DEF Inv, TypeOK, KTypeOK, STypeOK, StepInv
<1>7. StopInv'
  BY SMTT(40) DEF Inv, TypeOK, KTypeOK, STypeOK, ProcInv, TopOfStackOfCurrentProcess,
         LiveInv, StopInv
<1>8. Int3Inv'
  <2>1. \A u \in Tids : u # t => /\ tstate'[u] = tstate[u]
                                 /\ tstop'[u] = tstop[u]
                                 /\ tpc'[u] = tpc[u]
    BY DEF Inv, TypeOK, KTypeOK
  <2>2. ~(tstate'[t] = "trapped" /\ tstop'[t] = "bp")
    BY DEF Inv, TypeOK, KTypeOK, Runs
  <2>3. QED
    BY <2>1, <2>2 DEF Inv, Int3Inv
<1>9. PcInv'
  <2>1. UNCHANGED <<stoppedPid, lp, proc>>
    BY DEF svars, pvars
  <2>2. \A u \in Tids : u # t => tstate'[u] = tstate[u] /\ tpc'[u] = tpc[u]
    BY DEF Inv, TypeOK, KTypeOK
  <2>3. tpc'[t] \in Addrs
    BY DEF Inv, TypeOK, KTypeOK
  <2>4. QED
    BY SMTT(40), <2>1, <2>2, <2>3 DEF Inv, TypeOK, KTypeOK, STypeOK, PcInv
<1>10. RestInv'
  BY SMTT(40) DEF Inv, TypeOK, KTypeOK, STypeOK, ProcInv, TopOfStackOfCurrentProcess,
         LiveInv, RestInv, RegsFresh
<1>11. (TodoInv /\ MemInv /\ OrigInstrGenuine)'
  BY DEF Inv, TodoInv, MemInv, Armed, OrigInstrGenuine
<1>12. QED
  BY <1>1, <1>2, <1>3, <1>4, <1>5, <1>6, <1>7, <1>8, <1>9, <1>10, <1>11 DEF Inv

(* A thread executes an INT3 and stops one byte past it: it cannot happen  *)
(* during a single step, when the text is the executable's.                *)
LEMMA HitInt3Inv ==
  ASSUME Inv, NEW t \in Tids, HitInt3(t), UNCHANGED svars
  PROVE  Inv'
<1> USE DEF HitInt3, AtInstr, Stop
<1>1. TypeOK'
  BY ZenonT(60) DEF Inv, TypeOK, KTypeOK, STypeOK, ProcInv, TopOfStackOfCurrentProcess,
         LiveInv
<1>2. ProcInv'
  BY DEF Inv, ProcInv, TopOfStackOfCurrentProcess
<1>3. (LiveInv /\ HeldInv)'
  BY DEF Inv, LiveInv, HeldInv
<1>4. FreshInv'
  BY DEF Inv, TypeOK, KTypeOK, STypeOK, FreshInv
<1>5. StepInv'
  BY DEF Inv, TypeOK, KTypeOK, STypeOK, StepInv
<1>6. StopInv'
  BY DEF Inv, StopInv
<1>7. Int3Inv'
  <2>1. tpc[t] \in Addrs /\ tpc' = [tpc EXCEPT ![t] = tpc[t] + BreakpointSize]
    OBVIOUS
  <2>2. tpc[t] \in Nat
    BY <2>1
  <2>3. tpc'[t] = tpc[t] + BreakpointSize
    BY <2>1 DEF Inv, TypeOK, KTypeOK
  <2>4. tpc'[t] - BreakpointSize \in Addrs
    BY <2>1, <2>2, <2>3
  <2>5. QED
    BY <2>4 DEF Inv, TypeOK, KTypeOK, Int3Inv
<1>8. PcInv'
  BY DEF Inv, TypeOK, KTypeOK, STypeOK, PcInv
<1>9. RestInv'
  <2>1. ~(taint = "clean" /\ lp = "waitStep")
    BY ZenonT(60) DEF Inv, MemInv, Armed
  <2>2. QED
    BY <2>1 DEF Inv, TypeOK, KTypeOK, STypeOK, ProcInv, RestInv, RegsFresh
<1>10. (TodoInv /\ MemInv /\ OrigInstrGenuine)'
  BY DEF Inv, TodoInv, MemInv, Armed, OrigInstrGenuine
<1>11. QED
  BY <1>1, <1>2, <1>3, <1>4, <1>5, <1>6, <1>7, <1>8, <1>9, <1>10 DEF Inv

(* A thread takes the SIGSTOP that handleResume sent. *)
LEMMA TakeSigstopInv ==
  ASSUME Inv, NEW t \in Tids, TakeSigstop(t), UNCHANGED svars
  PROVE  Inv'
<1> USE DEF TakeSigstop, Stop
<1>1. TypeOK'
  BY ZenonT(60) DEF Inv, TypeOK, KTypeOK, STypeOK
<1>2. ProcInv'
  BY DEF Inv, ProcInv, TopOfStackOfCurrentProcess
<1>3. (LiveInv /\ HeldInv)'
  BY DEF Inv, LiveInv, HeldInv
<1>4. FreshInv'
  BY DEF Inv, TypeOK, KTypeOK, STypeOK, FreshInv
<1>5. StepInv'
  BY DEF Inv, TypeOK, KTypeOK, STypeOK, StepInv
<1>6. (StopInv /\ PcInv)'
  BY DEF Inv, StopInv, PcInv
<1>7. Int3Inv'
  BY DEF Inv, TypeOK, KTypeOK, STypeOK, Int3Inv
<1>8. RestInv'
  BY DEF Inv, TypeOK, KTypeOK, STypeOK, RestInv, RegsFresh
<1>9. (TodoInv /\ MemInv /\ OrigInstrGenuine)'
  BY DEF Inv, TodoInv, MemInv, Armed, OrigInstrGenuine
<1>10. QED
  BY <1>1, <1>2, <1>3, <1>4, <1>5, <1>6, <1>7, <1>8, <1>9 DEF Inv

(* A thread stops for a signal. *)
LEMMA SignalInv ==
  ASSUME Inv, NEW t \in Tids, Signal(t), UNCHANGED svars
  PROVE  Inv'
<1> USE DEF Signal, Stop
<1>1. TypeOK'
  BY DEF Inv, TypeOK, KTypeOK, STypeOK
<1>2. ProcInv'
  BY DEF Inv, ProcInv, TopOfStackOfCurrentProcess
<1>3. (LiveInv /\ HeldInv)'
  BY DEF Inv, LiveInv, HeldInv
<1>4. FreshInv'
  BY DEF Inv, TypeOK, KTypeOK, STypeOK, FreshInv
<1>5. StepInv'
  BY DEF Inv, TypeOK, KTypeOK, STypeOK, StepInv
<1>6. (StopInv /\ PcInv)'
  BY DEF Inv, StopInv, PcInv
<1>7. Int3Inv'
  BY DEF Inv, TypeOK, KTypeOK, STypeOK, Int3Inv
<1>8. RestInv'
  BY DEF Inv, TypeOK, KTypeOK, STypeOK, RestInv, RegsFresh
<1>9. (TodoInv /\ MemInv /\ OrigInstrGenuine)'
  BY DEF Inv, TodoInv, MemInv, Armed, OrigInstrGenuine
<1>10. QED
  BY <1>1, <1>2, <1>3, <1>4, <1>5, <1>6, <1>7, <1>8, <1>9 DEF Inv

(* A thread starts another, and both stop. *)
LEMMA CloneInv ==
  ASSUME Inv, NEW t \in Tids, Clone(t), UNCHANGED svars
  PROVE  Inv'
<1> USE DEF Clone, AtInstr
<1>1. TypeOK'
  BY CloneType DEF Inv
<1>2. ProcInv'
  BY DEF Inv, TypeOK, KTypeOK, STypeOK, ProcInv, TopOfStackOfCurrentProcess
<1>3. LiveInv'
  <2>1. nextTid \in Tids /\ nextTid # t /\ nextTid' = nextTid + 1
    BY DEF Inv, LiveInv
  <2> SUFFICES ASSUME NEW u \in Tids
               PROVE  /\ nextTid' <= u => tstate'[u] = "none"
                      /\ Live(u)' => proc' # 0 /\ leader'[u] = proc'
    BY DEF LiveInv
  <2>2. CASE u \in {t, nextTid}
    BY SMTT(40), <2>1, <2>2 DEF Inv, TypeOK, KTypeOK, STypeOK, LiveInv
  <2>3. CASE u \notin {t, nextTid}
    BY <2>1, <2>3, SMTT(40) DEF Inv, TypeOK, KTypeOK, STypeOK, LiveInv
  <2>4. QED
    BY <2>2, <2>3
<1>4. HeldInv'
  BY DEF Inv, TypeOK, KTypeOK, STypeOK, HeldInv
<1>5. FreshInv'
  BY ZenonT(60) DEF Inv, TypeOK, KTypeOK, STypeOK, FreshInv
<1>6. StepInv'
  BY DEF Inv, TypeOK, KTypeOK, STypeOK, StepInv
<1>7. StopInv'
  <2>1. lp \in HeldLabels => stoppedPid \in Tids \ {t, nextTid}
    BY DEF Inv, ProcInv, LiveInv, StopInv
  <2>2. \A u \in Tids \ {t, nextTid} : tstate'[u] = tstate[u] /\ tpc'[u] = tpc[u]
    BY DEF Inv, TypeOK, KTypeOK
  <2>3. QED
    BY <2>1, <2>2 DEF Inv, StopInv
<1>8. Int3Inv'
  BY DEF Inv, TypeOK, KTypeOK, STypeOK, Int3Inv
<1>9. PcInv'
  BY ZenonT(60) DEF Inv, TypeOK, KTypeOK, STypeOK, PcInv
<1>10. RestInv'
  BY SMTT(40) DEF Inv, TypeOK, KTypeOK, STypeOK, ProcInv, TopOfStackOfCurrentProcess,
         LiveInv, HeldInv, FreshInv, StepInv, StopInv, Int3Inv, TodoInv,
         MemInv, Armed, PcInv, RestInv, RegsFresh, OrigInstrGenuine
<1>11. (TodoInv /\ MemInv /\ OrigInstrGenuine)'
  BY DEF Inv, TodoInv, MemInv, Armed, OrigInstrGenuine
<1>12. QED
  BY <1>1, <1>2, <1>3, <1>4, <1>5, <1>6, <1>7, <1>8, <1>9, <1>10, <1>11 DEF Inv

(* A thread ends. *)
LEMMA ThreadExitInv ==
  ASSUME Inv, NEW t \in Tids, ThreadExit(t), UNCHANGED svars
  PROVE  Inv'
<1> USE DEF ThreadExit
<1>1. TypeOK'
  BY SMTT(40) DEF Inv, TypeOK, KTypeOK, STypeOK
<1>2. ProcInv'
  BY DEF Inv, ProcInv, TopOfStackOfCurrentProcess
<1>3. (LiveInv /\ HeldInv /\ FreshInv /\ StepInv)'
  BY DEF Inv, LiveInv, HeldInv, FreshInv, StepInv
<1>4. (StopInv /\ Int3Inv /\ PcInv /\ RestInv)'
  BY DEF Inv, StopInv, Int3Inv, PcInv, RestInv, RegsFresh
<1>5. (TodoInv /\ MemInv /\ OrigInstrGenuine)'
  BY DEF Inv, TodoInv, MemInv, Armed, OrigInstrGenuine
<1>6. QED
  BY <1>1, <1>2, <1>3, <1>4, <1>5 DEF Inv

(* The process ends: its threads, stopped or not, leave nothing to hold. *)
LEMMA ExitInv ==
  ASSUME Inv, NEW t \in Tids, Exit(t), UNCHANGED svars
  PROVE  Inv'
<1> USE DEF Exit
<1>1. TypeOK'
  BY SMTT(40) DEF Inv, TypeOK, KTypeOK, STypeOK
<1>2. ProcInv'
  BY DEF Inv, ProcInv, TopOfStackOfCurrentProcess
<1>3. (LiveInv /\ HeldInv /\ FreshInv /\ StepInv)'
  BY DEF Inv, LiveInv, HeldInv, FreshInv, StepInv
<1>4. (Int3Inv /\ PcInv)'
  BY DEF Inv, Int3Inv, PcInv
<1>5. StopInv'
  BY DEF Inv, TypeOK, KTypeOK, STypeOK, ProcInv, TopOfStackOfCurrentProcess,
         LiveInv, StopInv
<1>6. RestInv'
  BY DEF Inv, TypeOK, KTypeOK, STypeOK, ProcInv, TopOfStackOfCurrentProcess,
         LiveInv, RestInv, RegsFresh
<1>7. (TodoInv /\ MemInv /\ OrigInstrGenuine)'
  BY DEF Inv, TodoInv, MemInv, Armed, OrigInstrGenuine
<1>8. QED
  BY <1>1, <1>2, <1>3, <1>4, <1>5, <1>6, <1>7 DEF Inv

(* A thread of a killed process is gone. *)
LEMMA DieInv ==
  ASSUME Inv, NEW t \in Tids, Die(t), UNCHANGED svars
  PROVE  Inv'
<1> USE DEF Die
<1>1. TypeOK'
  BY SMTT(40) DEF Inv, TypeOK, KTypeOK, STypeOK
<1>2. ProcInv'
  BY DEF Inv, ProcInv, TopOfStackOfCurrentProcess
<1>3. (LiveInv /\ HeldInv /\ FreshInv /\ StepInv)'
  BY DEF Inv, LiveInv, HeldInv, FreshInv, StepInv
<1>4. (StopInv /\ Int3Inv /\ PcInv /\ RestInv)'
  BY DEF Inv, StopInv, Int3Inv, PcInv, RestInv, RegsFresh
<1>5. (TodoInv /\ MemInv /\ OrigInstrGenuine)'
  BY DEF Inv, TodoInv, MemInv, Armed, OrigInstrGenuine
<1>6. QED
  BY <1>1, <1>2, <1>3, <1>4, <1>5 DEF Inv

(* A client calls the server. *)
LEMMA SendInv ==
  ASSUME Inv, NEW c \in Clients, Send(c)
  PROVE  Inv'
<1> USE DEF Send
<1>1. TypeOK'
  BY DEF Inv, TypeOK, KTypeOK, STypeOK
<1>2. ProcInv'
  BY DEF Inv, ProcInv, TopOfStackOfCurrentProcess
<1>3. (LiveInv /\ HeldInv /\ FreshInv /\ StepInv)'
  BY DEF Inv, LiveInv, HeldInv, FreshInv, StepInv
<1>4. (StopInv /\ Int3Inv /\ PcInv /\ RestInv)'
  BY DEF Inv, StopInv, Int3Inv, PcInv, RestInv, RegsFresh
<1>5. (TodoInv /\ MemInv /\ OrigInstrGenuine)'
  BY DEF Inv, TodoInv, MemInv, Armed, OrigInstrGenuine
<1>6. QED
  BY <1>1, <1>2, <1>3, <1>4, <1>5 DEF Inv

(* addBreakpoints: the text is the executable's when the server peeks at   *)
(* it.                                                                     *)
LEMMA HandleBreakpointInv ==
  ASSUME Inv, NEW c \in Clients, HandleBreakpoint(c)
  PROVE  Inv'
<1> USE DEF HandleBreakpoint, Dispatched, Sending, addBreakpoints, CanPeek,
          Reply, Return
<1>1. TypeOK'
  BY SMTT(40) DEF Inv, TypeOK, KTypeOK, STypeOK
<1>2. ProcInv'
  BY DEF Inv, ProcInv, TopOfStackOfCurrentProcess
<1>3. (LiveInv /\ HeldInv /\ FreshInv /\ StepInv)'
  BY DEF Inv, LiveInv, HeldInv, FreshInv, StepInv
<1>4. (StopInv /\ Int3Inv /\ PcInv /\ RestInv)'
  BY DEF Inv, StopInv, Int3Inv, PcInv, RestInv, RegsFresh
<1>5. (TodoInv /\ MemInv)'
  BY DEF Inv, TodoInv, MemInv, Armed
<1>6. OrigInstrGenuine'
  BY DEF Inv, TypeOK, KTypeOK, STypeOK, ProcInv, TopOfStackOfCurrentProcess,
         TodoInv, MemInv, Armed, OrigInstrGenuine
<1>7. QED
  BY <1>1, <1>2, <1>3, <1>4, <1>5, <1>6 DEF Inv

(* handleDeleteBreakpoints: no breakpoint is written when its record       *)
(* goes.                                                                   *)
LEMMA HandleDeleteBreakpointsInv ==
  ASSUME Inv, NEW c \in Clients, HandleDeleteBreakpoints(c)
  PROVE  Inv'
<1> USE DEF HandleDeleteBreakpoints, Dispatched, Sending, Reply, Return
<1>1. TypeOK'
  BY DEF Inv, TypeOK, KTypeOK, STypeOK
<1>2. ProcInv'
  BY DEF Inv, ProcInv, TopOfStackOfCurrentProcess
<1>3. (LiveInv /\ HeldInv /\ FreshInv /\ StepInv)'
  BY DEF Inv, LiveInv, HeldInv, FreshInv, StepInv
<1>4. (StopInv /\ Int3Inv /\ PcInv /\ RestInv)'
  BY DEF Inv, StopInv, Int3Inv, PcInv, RestInv, RegsFresh
<1>5. (TodoInv /\ MemInv /\ OrigInstrGenuine)'
  BY DEF Inv, TodoInv, MemInv, Armed, OrigInstrGenuine
<1>6. QED
  BY <1>1, <1>2, <1>3, <1>4, <1>5 DEF Inv

(* handleRun: the old process is killed and the new one starts with its    *)
(* own text, which the saved instructions fit.                             *)
LEMMA HandleRunInv ==
  ASSUME Inv, NEW c \in Clients, HandleRun(c)
  PROVE  Inv'
<1> USE DEF HandleRun, Dispatched, Sending, BreakOps, Abandon, Fork, Killed,
          Reply, Return
<1>1. TypeOK'
  BY HandleRunType DEF Inv
<1>2. ProcInv'
  BY DEF Inv, TypeOK, KTypeOK, STypeOK, ProcInv, TopOfStackOfCurrentProcess
<1>3. StepInv'
  BY DEF Inv, StepInv
<1>4. LiveInv'
  BY SMTT(40) DEF Inv, TypeOK, KTypeOK, STypeOK, LiveInv
<1>5. HeldInv'
  BY DEF Inv, TypeOK, KTypeOK, STypeOK, ProcInv, TopOfStackOfCurrentProcess,
         LiveInv, HeldInv
<1>6. FreshInv'
  <2>1. ~procIsUp' /\ stoppedPid' = nextTid
    BY DEF Inv, ProcInv
  <2>2. SUFFICES ASSUME NEW u \in Tids, u # nextTid
                 PROVE  ~Live(u)'
    <3>1. tstate'[nextTid] = "starting"
      BY DEF Inv, TypeOK, KTypeOK
    <3>2. QED
      BY <2>1, <3>1 DEF FreshInv
  <2>3. CASE proc # 0
    <3>1. tstate'[u] = IF Live(u) /\ leader[u] = proc THEN "dying" ELSE tstate[u]
      BY <2>2, <2>3 DEF Inv, TypeOK, KTypeOK
    <3>2. Live(u) => leader[u] = proc
      BY <2>2 DEF Inv, LiveInv
    <3>3. QED
      BY <3>1, <3>2 DEF Live
  <2>4. CASE proc = 0
    <3>1. tstate'[u] = tstate[u]
      BY <2>2, <2>4 DEF Inv, TypeOK, KTypeOK
    <3>2. ~Live(u)
      BY <2>2, <2>4 DEF Inv, LiveInv
    <3>3. QED
      BY <3>1, <3>2 DEF Live
  <2>5. QED
    BY <2>3, <2>4
<1>7. StopInv'
  BY DEF Inv, StopInv
<1>8. Int3Inv'
  BY DEF Inv, TypeOK, KTypeOK, STypeOK, Int3Inv
<1>9. PcInv'
  BY ZenonT(60) DEF Inv, TypeOK, KTypeOK, STypeOK, ProcInv, TopOfStackOfCurrentProcess,
         LiveInv, PcInv
<1>10. RestInv'
  BY DEF Inv, TypeOK, KTypeOK, STypeOK, ProcInv, TopOfStackOfCurrentProcess,
         LiveInv, RestInv, RegsFresh
<1>11. (TodoInv /\ MemInv /\ OrigInstrGenuine)'
  BY DEF Inv, TodoInv, MemInv, Armed, OrigInstrGenuine
<1>12. QED
  BY <1>1, <1>2, <1>3, <1>4, <1>5, <1>6, <1>7, <1>8, <1>9, <1>10, <1>11 DEF Inv

(* handleRun, when no process can be started. *)
LEMMA HandleRunFailsInv ==
  ASSUME Inv, NEW c \in Clients, HandleRunFails(c)
  PROVE  Inv'
<1> USE DEF HandleRunFails, Dispatched, Sending, BreakOps, Abandon, Killed,
          Reply, Return
<1>1. TypeOK'
  BY HandleRunFailsType DEF Inv
<1>2. ProcInv'
  BY DEF Inv, ProcInv, TopOfStackOfCurrentProcess
<1>3. (LiveInv /\ StepInv)'
  BY DEF Inv, LiveInv, StepInv
<1>4. HeldInv'
  BY DEF Inv, TypeOK, KTypeOK, STypeOK, ProcInv, TopOfStackOfCurrentProcess,
         LiveInv, HeldInv
<1>5. FreshInv'
  BY DEF Inv, TypeOK, KTypeOK, STypeOK, ProcInv, TopOfStackOfCurrentProcess,
         LiveInv, FreshInv
<1>6. (StopInv /\ Int3Inv /\ PcInv /\ RestInv)'
  BY DEF Inv, StopInv, Int3Inv, PcInv, RestInv, RegsFresh
<1>7. (TodoInv /\ MemInv /\ OrigInstrGenuine)'
  BY DEF Inv, TodoInv, MemInv, Armed, OrigInstrGenuine
<1>8. QED
  BY <1>1, <1>2, <1>3, <1>4, <1>5, <1>6, <1>7 DEF Inv

(* handleResume returns at once. *)
LEMMA ResumeRefusedInv ==
  ASSUME Inv, NEW c \in Clients, ResumeRefused(c)
  PROVE  Inv'
<1> USE DEF ResumeRefused, Sending, Reply, Return
<1>1. TypeOK'
  BY DEF Inv, TypeOK, KTypeOK, STypeOK
<1>2. ProcInv'
  BY DEF Inv, ProcInv, TopOfStackOfCurrentProcess
<1>3. (LiveInv /\ HeldInv /\ FreshInv /\ StepInv)'
  BY DEF Inv, LiveInv, HeldInv, FreshInv, StepInv
<1>4. (StopInv /\ Int3Inv /\ PcInv /\ RestInv)'
  BY DEF Inv, StopInv, Int3Inv, PcInv, RestInv, RegsFresh
<1>5. (TodoInv /\ MemInv /\ OrigInstrGenuine)'
  BY DEF Inv, TodoInv, MemInv, Armed, OrigInstrGenuine
<1>6. QED
  BY <1>1, <1>2, <1>3, <1>4, <1>5 DEF Inv

(* The first handleResume of a process begins to wait for its exec. *)
LEMMA ResumeFirstInv ==
  ASSUME Inv, NEW c \in Clients, ResumeFirst(c)
  PROVE  Inv'
<1> USE DEF ResumeFirst, Accept, Sending
<1>1. TypeOK'
  BY DEF Inv, TypeOK, KTypeOK, STypeOK
<1>2. ProcInv'
  BY DEF Inv, ProcInv, TopOfStackOfCurrentProcess
<1>3. (LiveInv /\ HeldInv /\ FreshInv /\ StepInv)'
  BY DEF Inv, LiveInv, HeldInv, FreshInv, StepInv
<1>4. (StopInv /\ Int3Inv /\ PcInv /\ RestInv)'
  BY DEF Inv, StopInv, Int3Inv, PcInv, RestInv, RegsFresh
<1>5. (TodoInv /\ MemInv /\ OrigInstrGenuine)'
  BY DEF Inv, TodoInv, MemInv, Armed, OrigInstrGenuine
<1>6. QED
  BY <1>1, <1>2, <1>3, <1>4, <1>5 DEF Inv

(* handleResume steps off a breakpoint, with none written. *)
LEMMA ResumeStepInv ==
  ASSUME Inv, NEW c \in Clients, ResumeStep(c)
  PROVE  Inv'
<1> USE DEF ResumeStep, Accept, Sending, Stopped, Restart
<1>1. TypeOK'
  BY DEF Inv, TypeOK, KTypeOK, STypeOK
<1>2. ProcInv'
  BY DEF Inv, ProcInv, TopOfStackOfCurrentProcess
<1>3. (LiveInv /\ FreshInv /\ StepInv)'
  BY DEF Inv, LiveInv, FreshInv, StepInv
<1>4. HeldInv'
  BY DEF Inv, TypeOK, KTypeOK, STypeOK, HeldInv
<1>5. (StopInv /\ Int3Inv /\ RestInv)'
  BY DEF Inv, StopInv, Int3Inv, RestInv, RegsFresh
<1>6. PcInv'
  BY DEF Inv, TypeOK, KTypeOK, STypeOK, ProcInv, TopOfStackOfCurrentProcess,
         HeldInv, StopInv, Int3Inv, MemInv, Armed, PcInv, RestInv, RegsFresh
<1>7. (TodoInv /\ MemInv /\ OrigInstrGenuine)'
  BY DEF Inv, TodoInv, MemInv, Armed, OrigInstrGenuine
<1>8. QED
  BY <1>1, <1>2, <1>3, <1>4, <1>5, <1>6, <1>7 DEF Inv

(* handleResume begins to write the breakpoints. *)
LEMMA ResumeDirectlyInv ==
  ASSUME Inv, NEW c \in Clients, ResumeDirectly(c)
  PROVE  Inv'
<1> USE DEF ResumeDirectly, Accept, Sending
<1>1. TypeOK'
  BY DEF Inv, TypeOK, KTypeOK, STypeOK
<1>2. ProcInv'
  BY DEF Inv, ProcInv, TopOfStackOfCurrentProcess
<1>3. (LiveInv /\ HeldInv /\ FreshInv /\ StepInv)'
  BY DEF Inv, LiveInv, HeldInv, FreshInv, StepInv
<1>4. (StopInv /\ Int3Inv /\ PcInv /\ RestInv)'
  BY DEF Inv, StopInv, Int3Inv, PcInv, RestInv, RegsFresh
<1>5. (TodoInv /\ MemInv /\ OrigInstrGenuine)'
  BY DEF Inv, TodoInv, MemInv, Armed, OrigInstrGenuine
<1>6. QED
  BY <1>1, <1>2, <1>3, <1>4, <1>5 DEF Inv

(* handleFrames caches what it reads from the current process. *)
LEMMA HandleFramesInv ==
  ASSUME Inv, NEW c \in Clients, HandleFrames(c)
  PROVE  Inv'
<1> USE DEF HandleFrames, Dispatched, Sending, BreakOps, Stopped, Reply,
          Return
<1>1. TypeOK'
  BY DEF Inv, TypeOK, KTypeOK, STypeOK
<1>2. ProcInv'
  BY DEF Inv, ProcInv, TopOfStackOfCurrentProcess
<1>3. (LiveInv /\ HeldInv /\ FreshInv /\ StepInv)'
  BY DEF Inv, LiveInv, HeldInv, FreshInv, StepInv
<1>4. (StopInv /\ Int3Inv /\ PcInv /\ RestInv)'
  BY DEF Inv, StopInv, Int3Inv, PcInv, RestInv, RegsFresh
<1>5. (TodoInv /\ MemInv /\ OrigInstrGenuine)'
  BY DEF Inv, TodoInv, MemInv, Armed, OrigInstrGenuine
<1>6. QED
  BY <1>1, <1>2, <1>3, <1>4, <1>5 DEF Inv

(* wait gives way to a call on breakpointc. *)
LEMMA BreakpointsChangedInv ==
  ASSUME Inv, NEW c \in Clients, BreakpointsChanged(c)
  PROVE  Inv'
<1> USE DEF BreakpointsChanged, SendingBreak
<1>1. TypeOK'
  BY DEF Inv, TypeOK, KTypeOK, STypeOK
<1>2. ProcInv'
  BY DEF Inv, ProcInv, TopOfStackOfCurrentProcess
<1>3. (LiveInv /\ HeldInv /\ FreshInv /\ StepInv)'
  BY DEF Inv, LiveInv, HeldInv, FreshInv, StepInv
<1>4. (StopInv /\ Int3Inv /\ PcInv /\ RestInv)'
  BY DEF Inv, StopInv, Int3Inv, PcInv, RestInv, RegsFresh
<1>5. (TodoInv /\ MemInv /\ OrigInstrGenuine)'
  BY DEF Inv, TodoInv, MemInv, Armed, OrigInstrGenuine
<1>6. QED
  BY <1>1, <1>2, <1>3, <1>4, <1>5 DEF Inv

(* handleResume takes another call off breakpointc. *)
LEMMA ServeNextInv ==
  ASSUME Inv, NEW c \in Clients, ServeNext(c)
  PROVE  Inv'
<1> USE DEF ServeNext, SendingBreak
<1>1. TypeOK'
  BY DEF Inv, TypeOK, KTypeOK, STypeOK
<1>2. ProcInv'
  BY DEF Inv, ProcInv, TopOfStackOfCurrentProcess
<1>3. (LiveInv /\ HeldInv /\ FreshInv /\ StepInv)'
  BY DEF Inv, LiveInv, HeldInv, FreshInv, StepInv
<1>4. (StopInv /\ Int3Inv /\ PcInv /\ RestInv)'
  BY DEF Inv, StopInv, Int3Inv, PcInv, RestInv, RegsFresh
<1>5. (TodoInv /\ MemInv /\ OrigInstrGenuine)'
  BY DEF Inv, TodoInv, MemInv, Armed, OrigInstrGenuine
<1>6. QED
  BY <1>1, <1>2, <1>3, <1>4, <1>5 DEF Inv

(* waitForTrap returns: the thread is past an INT3 exactly when the wait   *)
(* was for a breakpoint.                                                   *)
LEMMA WaitForTrapInv ==
  ASSUME Inv, NEW t \in Tids, WaitForTrap(t)
  PROVE  Inv'
<1> USE DEF WaitForTrap, Waiting, IsTrap, Report, Goto, GotoPokes
<1>1. TypeOK'
  BY WaitForTrapType DEF Inv
<1>2. ProcInv'
  BY DEF Inv, TypeOK, KTypeOK, STypeOK, ProcInv, TopOfStackOfCurrentProcess,
         LiveInv
<1>3. LiveInv'
  BY DEF Inv, LiveInv
<1>4. HeldInv'
  BY DEF Inv, TypeOK, KTypeOK, STypeOK, ProcInv, TopOfStackOfCurrentProcess,
         LiveInv, HeldInv
<1>5. FreshInv'
  BY DEF Inv, TypeOK, KTypeOK, STypeOK, ProcInv, TopOfStackOfCurrentProcess,
         LiveInv, FreshInv
<1>6. StepInv'
  BY DEF Inv, TypeOK, KTypeOK, STypeOK, StepInv
<1>7. Int3Inv'
  BY DEF Inv, Int3Inv
<1>8. StopInv'
  BY DEF Inv, TypeOK, KTypeOK, STypeOK, ProcInv, TopOfStackOfCurrentProcess,
         LiveInv, HeldInv, FreshInv, StepInv, StopInv, Int3Inv, TodoInv,
         MemInv, Armed, PcInv, RestInv, RegsFresh, OrigInstrGenuine
<1>9. PcInv'
  BY SMTT(40) DEF Inv, TypeOK, KTypeOK, STypeOK, ProcInv, TopOfStackOfCurrentProcess,
         LiveInv, HeldInv, FreshInv, StepInv, StopInv, Int3Inv, TodoInv,
         MemInv, Armed, PcInv, RestInv, RegsFresh, OrigInstrGenuine
<1>10. RestInv'
  BY DEF Inv, TypeOK, KTypeOK, STypeOK, RestInv, RegsFresh
<1>11. (TodoInv /\ MemInv /\ OrigInstrGenuine)'
  BY ZenonT(60) DEF Inv, TodoInv, MemInv, Armed, OrigInstrGenuine
<1>12. QED
  BY <1>1, <1>2, <1>3, <1>4, <1>5, <1>6, <1>7, <1>8, <1>9, <1>10, <1>11 DEF Inv

(* waitForTrap continues a thread, which is on an instruction. *)
LEMMA WaitForTrapContInv ==
  ASSUME Inv, NEW t \in Tids, WaitForTrapCont(t)
  PROVE  Inv'
<1> USE DEF WaitForTrapCont, Waiting, IsTrap, Restart
<1>1. TypeOK'
  BY DEF Inv, TypeOK, KTypeOK, STypeOK
<1>2. ProcInv'
  BY DEF Inv, ProcInv, TopOfStackOfCurrentProcess
<1>3. (LiveInv /\ HeldInv /\ FreshInv /\ StepInv)'
  BY DEF Inv, LiveInv, HeldInv, FreshInv, StepInv
<1>4. (StopInv /\ Int3Inv /\ PcInv /\ RestInv)'
  BY DEF Inv, StopInv, Int3Inv, PcInv, RestInv, RegsFresh
<1>5. (TodoInv /\ MemInv /\ OrigInstrGenuine)'
  BY DEF Inv, TodoInv, MemInv, Armed, OrigInstrGenuine
<1>6. QED
  BY <1>1, <1>2, <1>3, <1>4, <1>5 DEF Inv

(* waitForTrap fails on a thread that is gone. *)
LEMMA WaitForTrapGoneInv ==
  ASSUME Inv, NEW t \in Tids, WaitForTrapGone(t)
  PROVE  Inv'
<1> USE DEF WaitForTrapGone, Waiting, Reapable, Report, ReturnError, Return
<1>1. TypeOK'
  BY DEF Inv, TypeOK, KTypeOK, STypeOK
<1>2. ProcInv'
  BY DEF Inv, ProcInv, TopOfStackOfCurrentProcess
<1>3. (LiveInv /\ HeldInv /\ FreshInv /\ StepInv)'
  BY DEF Inv, LiveInv, HeldInv, FreshInv, StepInv
<1>4. (StopInv /\ Int3Inv /\ PcInv /\ RestInv)'
  BY DEF Inv, StopInv, Int3Inv, PcInv, RestInv, RegsFresh
<1>5. (TodoInv /\ MemInv /\ OrigInstrGenuine)'
  BY DEF Inv, TodoInv, MemInv, Armed, OrigInstrGenuine
<1>6. QED
  BY <1>1, <1>2, <1>3, <1>4, <1>5 DEF Inv

(* ptraceSetOptions, before the breakpoints are written. *)
LEMMA SetOptionsInv ==
  ASSUME Inv, SetOptions
  PROVE  Inv'
<1> USE DEF SetOptions, Stopped, Goto, GotoPokes
<1>1. TypeOK'
  BY DEF Inv, TypeOK, KTypeOK, STypeOK
<1>2. ProcInv'
  BY DEF Inv, ProcInv, TopOfStackOfCurrentProcess
<1>3. (LiveInv /\ HeldInv /\ FreshInv /\ StepInv)'
  BY DEF Inv, LiveInv, HeldInv, FreshInv, StepInv
<1>4. (StopInv /\ Int3Inv /\ PcInv)'
  BY DEF Inv, StopInv, Int3Inv, PcInv
<1>5. RestInv'
  BY DEF Inv, TypeOK, KTypeOK, STypeOK, ProcInv, TopOfStackOfCurrentProcess,
         LiveInv, HeldInv, FreshInv, StepInv, StopInv, RestInv, RegsFresh
<1>6. (TodoInv /\ MemInv /\ OrigInstrGenuine)'
  BY DEF Inv, TodoInv, MemInv, Armed, OrigInstrGenuine
<1>7. QED
  BY <1>1, <1>2, <1>3, <1>4, <1>5, <1>6 DEF Inv

(* setBreakpoints writes one INT3. *)
LEMMA SetBreakpointInv ==
  ASSUME Inv, NEW a \in Addrs, SetBreakpoint(a)
  PROVE  Inv'
<1> USE DEF SetBreakpoint, Stopped, Poke
<1>1. TypeOK'
  BY DEF Inv, TypeOK, KTypeOK, STypeOK
<1>2. ProcInv'
  BY DEF Inv, ProcInv, TopOfStackOfCurrentProcess
<1>3. (LiveInv /\ HeldInv /\ FreshInv /\ StepInv)'
  BY DEF Inv, LiveInv, HeldInv, FreshInv, StepInv
<1>4. (StopInv /\ Int3Inv /\ PcInv /\ RestInv)'
  BY DEF Inv, StopInv, Int3Inv, PcInv, RestInv, RegsFresh
<1>5. (TodoInv /\ OrigInstrGenuine)'
  BY DEF Inv, TodoInv, OrigInstrGenuine
<1>6. MemInv'
  BY DEF Inv, TypeOK, KTypeOK, STypeOK, ProcInv, TopOfStackOfCurrentProcess,
         LiveInv, HeldInv, FreshInv, StepInv, StopInv, Int3Inv, TodoInv,
         MemInv, Armed, PcInv, RestInv, RegsFresh, OrigInstrGenuine
<1>7. QED
  BY <1>1, <1>2, <1>3, <1>4, <1>5, <1>6 DEF Inv

(* setBreakpoints has written them all. *)
LEMMA SetBreakpointsDoneInv ==
  ASSUME Inv, SetBreakpointsDone
  PROVE  Inv'
<1> USE DEF SetBreakpointsDone, Goto
<1>1. TypeOK'
  BY DEF Inv, TypeOK, KTypeOK, STypeOK
<1>2. ProcInv'
  BY DEF Inv, ProcInv, TopOfStackOfCurrentProcess
<1>3. (LiveInv /\ HeldInv /\ FreshInv /\ StepInv)'
  BY DEF Inv, LiveInv, HeldInv, FreshInv, StepInv
<1>4. (StopInv /\ Int3Inv /\ PcInv /\ RestInv)'
  BY DEF Inv, StopInv, Int3Inv, PcInv, RestInv, RegsFresh
<1>5. (TodoInv /\ MemInv /\ OrigInstrGenuine)'
  BY DEF Inv, TodoInv, MemInv, Armed, OrigInstrGenuine
<1>6. QED
  BY <1>1, <1>2, <1>3, <1>4, <1>5 DEF Inv

(* ptraceCont: the thread that runs on is on an instruction. *)
LEMMA ContInv ==
  ASSUME Inv, Cont
  PROVE  Inv'
<1> USE DEF Cont, Stopped, Restart, Goto
<1>1. TypeOK'
  BY DEF Inv, TypeOK, KTypeOK, STypeOK
<1>2. ProcInv'
  BY DEF Inv, ProcInv, TopOfStackOfCurrentProcess
<1>3. (LiveInv /\ StepInv)'
  BY DEF Inv, LiveInv, StepInv
<1>4. HeldInv'
  BY DEF Inv, TypeOK, KTypeOK, STypeOK, HeldInv
<1>5. FreshInv'
  BY DEF Inv, TypeOK, KTypeOK, STypeOK, ProcInv, TopOfStackOfCurrentProcess,
         LiveInv, FreshInv
<1>6. (StopInv /\ Int3Inv /\ RestInv)'
  BY DEF Inv, StopInv, Int3Inv, RestInv, RegsFresh
<1>7. PcInv'
  BY DEF Inv, TypeOK, KTypeOK, STypeOK, ProcInv, TopOfStackOfCurrentProcess,
         HeldInv, StopInv, Int3Inv, MemInv, Armed, PcInv, RestInv, RegsFresh
<1>8. (TodoInv /\ MemInv /\ OrigInstrGenuine)'
  BY DEF Inv, TodoInv, MemInv, Armed, OrigInstrGenuine
<1>9. QED
  BY <1>1, <1>2, <1>3, <1>4, <1>5, <1>6, <1>7, <1>8 DEF Inv

(* The SIGSTOP is sent. *)
LEMMA KillStopInv ==
  ASSUME Inv, KillStop
  PROVE  Inv'
<1> USE DEF KillStop, Goto
<1>1. TypeOK'
  BY DEF Inv, TypeOK, KTypeOK, STypeOK
<1>2. ProcInv'
  BY DEF Inv, ProcInv, TopOfStackOfCurrentProcess
<1>3. (LiveInv /\ HeldInv /\ FreshInv /\ StepInv)'
  BY DEF Inv, LiveInv, HeldInv, FreshInv, StepInv
<1>4. (StopInv /\ Int3Inv /\ PcInv /\ RestInv)'
  BY DEF Inv, StopInv, Int3Inv, PcInv, RestInv, RegsFresh
<1>5. (TodoInv /\ MemInv /\ OrigInstrGenuine)'
  BY DEF Inv, TodoInv, MemInv, Armed, OrigInstrGenuine
<1>6. QED
  BY <1>1, <1>2, <1>3, <1>4, <1>5 DEF Inv

(* The thread has stopped for the SIGSTOP, on an instruction. *)
LEMMA WaitStopInv ==
  ASSUME Inv, WaitStop
  PROVE  Inv'
<1> USE DEF WaitStop, Report, Goto, GotoPokes
<1>1. TypeOK'
  BY DEF Inv, TypeOK, KTypeOK, STypeOK
<1>2. ProcInv'
  BY DEF Inv, ProcInv, TopOfStackOfCurrentProcess
<1>3. (LiveInv /\ FreshInv /\ StepInv)'
  BY DEF Inv, LiveInv, FreshInv, StepInv
<1>4. HeldInv'
  BY DEF Inv, TypeOK, KTypeOK, STypeOK, ProcInv, TopOfStackOfCurrentProcess,
         LiveInv, HeldInv
<1>5. (Int3Inv /\ PcInv /\ RestInv)'
  BY DEF Inv, Int3Inv, PcInv, RestInv, RegsFresh
<1>6. StopInv'
  BY DEF Inv, TypeOK, KTypeOK, STypeOK, ProcInv, TopOfStackOfCurrentProcess,
         LiveInv, StopInv
<1>7. (TodoInv /\ MemInv /\ OrigInstrGenuine)'
  BY DEF Inv, TodoInv, MemInv, Armed, OrigInstrGenuine
<1>8. QED
  BY <1>1, <1>2, <1>3, <1>4, <1>5, <1>6, <1>7 DEF Inv

(* handleResume fails on any other status. *)
LEMMA WaitStopUnexpectedInv ==
  ASSUME Inv, WaitStopUnexpected
  PROVE  Inv'
<1> USE DEF WaitStopUnexpected, Waitable, Reapable, Report, ReturnError,
          Return
<1>1. TypeOK'
  BY DEF Inv, TypeOK, KTypeOK, STypeOK
<1>2. ProcInv'
  BY DEF Inv, ProcInv, TopOfStackOfCurrentProcess
<1>3. (LiveInv /\ StepInv)'
  BY DEF Inv, LiveInv, StepInv
<1>4. HeldInv'
  BY DEF Inv, TypeOK, KTypeOK, STypeOK, ProcInv, TopOfStackOfCurrentProcess,
         LiveInv, HeldInv
<1>5. FreshInv'
  BY DEF Inv, TypeOK, KTypeOK, STypeOK, ProcInv, TopOfStackOfCurrentProcess,
         LiveInv, FreshInv
<1>6. (StopInv /\ Int3Inv /\ PcInv /\ RestInv)'
  BY DEF Inv, StopInv, Int3Inv, PcInv, RestInv, RegsFresh
<1>7. (TodoInv /\ MemInv /\ OrigInstrGenuine)'
  BY DEF Inv, TodoInv, MemInv, Armed, OrigInstrGenuine
<1>8. QED
  BY <1>1, <1>2, <1>3, <1>4, <1>5, <1>6, <1>7 DEF Inv

(* liftBreakpoints writes one saved instruction back. *)
LEMMA LiftBreakpointInv ==
  ASSUME Inv, NEW a \in Addrs, LiftBreakpoint(a)
  PROVE  Inv'
<1> USE DEF LiftBreakpoint, Stopped, Poke
<1>1. TypeOK'
  <2>1. breakpoints[a] \in Instr
    BY DEF Inv, TypeOK, STypeOK, TodoInv
  <2>2. QED
    BY <2>1 DEF Inv, TypeOK, KTypeOK, STypeOK
<1>2. ProcInv'
  BY DEF Inv, ProcInv, TopOfStackOfCurrentProcess
<1>3. (LiveInv /\ HeldInv /\ FreshInv /\ StepInv)'
  BY DEF Inv, LiveInv, HeldInv, FreshInv, StepInv
<1>4. (StopInv /\ Int3Inv /\ PcInv /\ RestInv)'
  BY DEF Inv, StopInv, Int3Inv, PcInv, RestInv, RegsFresh
<1>5. (TodoInv /\ OrigInstrGenuine)'
  BY DEF Inv, TodoInv, OrigInstrGenuine
<1>6. MemInv'
  BY SMTT(40) DEF Inv, TypeOK, KTypeOK, STypeOK, ProcInv, TopOfStackOfCurrentProcess,
         TodoInv, MemInv, Armed, OrigInstrGenuine
<1>7. QED
  BY <1>1, <1>2, <1>3, <1>4, <1>5, <1>6 DEF Inv

(* liftBreakpoints has written them all back. *)
LEMMA LiftBreakpointsDoneInv ==
  ASSUME Inv, LiftBreakpointsDone
  PROVE  Inv'
<1> USE DEF LiftBreakpointsDone, Goto
<1>1. TypeOK'
  BY DEF Inv, TypeOK, KTypeOK, STypeOK
<1>2. ProcInv'
  BY DEF Inv, ProcInv, TopOfStackOfCurrentProcess
<1>3. (LiveInv /\ HeldInv /\ FreshInv /\ StepInv)'
  BY DEF Inv, LiveInv, HeldInv, FreshInv, StepInv
<1>4. (StopInv /\ Int3Inv /\ PcInv /\ RestInv)'
  BY DEF Inv, StopInv, Int3Inv, PcInv, RestInv, RegsFresh
<1>5. (TodoInv /\ MemInv /\ OrigInstrGenuine)'
  BY DEF Inv, TodoInv, MemInv, Armed, OrigInstrGenuine
<1>6. QED
  BY <1>1, <1>2, <1>3, <1>4, <1>5 DEF Inv

(* No call is left on breakpointc, and the breakpoints are written again. *)
LEMMA ServeDoneInv ==
  ASSUME Inv, ServeDone
  PROVE  Inv'
<1> USE DEF ServeDone, Goto, GotoPokes
<1>1. TypeOK'
  BY DEF Inv, TypeOK, KTypeOK, STypeOK
<1>2. ProcInv'
  BY DEF Inv, ProcInv, TopOfStackOfCurrentProcess
<1>3. (LiveInv /\ HeldInv /\ FreshInv /\ StepInv)'
  BY DEF Inv, LiveInv, HeldInv, FreshInv, StepInv
<1>4. (StopInv /\ Int3Inv /\ PcInv)'
  BY DEF Inv, StopInv, Int3Inv, PcInv
<1>5. RestInv'
  BY DEF Inv, TypeOK, KTypeOK, STypeOK, ProcInv, TopOfStackOfCurrentProcess,
         LiveInv, HeldInv, FreshInv, StepInv, StopInv, RestInv, RegsFresh
<1>6. (TodoInv /\ MemInv /\ OrigInstrGenuine)'
  BY DEF Inv, TodoInv, MemInv, Armed, OrigInstrGenuine
<1>7. QED
  BY <1>1, <1>2, <1>3, <1>4, <1>5, <1>6 DEF Inv

(* The program counter is moved back onto the breakpoint. *)
LEMMA GetRegsInv ==
  ASSUME Inv, GetRegs
  PROVE  Inv'
<1> USE DEF GetRegs, Stopped, Goto
<1>1. TypeOK'
  BY DEF Inv, TypeOK, KTypeOK, STypeOK, ProcInv, TopOfStackOfCurrentProcess,
         LiveInv, HeldInv, FreshInv, StepInv, StopInv
<1>2. ProcInv'
  BY DEF Inv, ProcInv, TopOfStackOfCurrentProcess
<1>3. (LiveInv /\ HeldInv /\ FreshInv /\ StepInv)'
  BY DEF Inv, LiveInv, HeldInv, FreshInv, StepInv
<1>4. (StopInv /\ Int3Inv /\ PcInv /\ RestInv)'
  BY DEF Inv, StopInv, Int3Inv, PcInv, RestInv, RegsFresh
<1>5. (TodoInv /\ MemInv /\ OrigInstrGenuine)'
  BY DEF Inv, TodoInv, MemInv, Armed, OrigInstrGenuine
<1>6. QED
  BY <1>1, <1>2, <1>3, <1>4, <1>5 DEF Inv

(* The registers are written back and handleResume returns. *)
LEMMA SetRegsInv ==
  ASSUME Inv, SetRegs
  PROVE  Inv'
<1> USE DEF SetRegs, Stopped, SetRip, Return
<1>1. TypeOK'
  BY DEF Inv, TypeOK, KTypeOK, STypeOK, ProcInv, TopOfStackOfCurrentProcess,
         LiveInv, HeldInv, FreshInv, StepInv, StopInv
<1>2. ProcInv'
  BY DEF Inv, ProcInv, TopOfStackOfCurrentProcess
<1>3. (LiveInv /\ HeldInv /\ FreshInv /\ StepInv)'
  BY DEF Inv, LiveInv, HeldInv, FreshInv, StepInv
<1>4. StopInv'
  BY DEF Inv, StopInv
<1>5. Int3Inv'
  BY DEF Inv, TypeOK, KTypeOK, STypeOK, ProcInv, TopOfStackOfCurrentProcess,
         LiveInv, HeldInv, FreshInv, StepInv, StopInv, Int3Inv
<1>6. PcInv'
  BY DEF Inv, TypeOK, KTypeOK, STypeOK, ProcInv, TopOfStackOfCurrentProcess,
         LiveInv, HeldInv, FreshInv, StepInv, StopInv, PcInv
<1>7. RestInv'
  BY DEF Inv, TypeOK, KTypeOK, STypeOK, ProcInv, TopOfStackOfCurrentProcess,
         LiveInv, HeldInv, FreshInv, StepInv, StopInv, RestInv, RegsFresh
<1>8. (TodoInv /\ MemInv /\ OrigInstrGenuine)'
  BY DEF Inv, TodoInv, MemInv, Armed, OrigInstrGenuine
<1>9. QED
  BY <1>1, <1>2, <1>3, <1>4, <1>5, <1>6, <1>7, <1>8 DEF Inv

(* handleResume fails because the thread is gone. *)
LEMMA PtraceFailsInv ==
  ASSUME Inv, PtraceFails
  PROVE  Inv'
<1> USE DEF PtraceFails, Stopped, ReturnError, Return
<1>1. TypeOK'
  BY DEF Inv, TypeOK, KTypeOK, STypeOK
<1>2. ProcInv'
  BY DEF Inv, ProcInv, TopOfStackOfCurrentProcess
<1>3. (LiveInv /\ HeldInv /\ FreshInv /\ StepInv)'
  BY DEF Inv, LiveInv, HeldInv, FreshInv, StepInv
<1>4. (StopInv /\ Int3Inv /\ PcInv)'
  BY DEF Inv, StopInv, Int3Inv, PcInv
<1>5. RestInv'
  BY DEF Inv, TypeOK, KTypeOK, STypeOK, ProcInv, TopOfStackOfCurrentProcess,
         LiveInv, HeldInv, FreshInv, StepInv, StopInv, RestInv, RegsFresh
<1>6. (TodoInv /\ MemInv /\ OrigInstrGenuine)'
  BY DEF Inv, TodoInv, MemInv, Armed, OrigInstrGenuine
<1>7. QED
  BY <1>1, <1>2, <1>3, <1>4, <1>5, <1>6 DEF Inv

-----------------------------------------------------------------------------
(* Inv holds in every state that the server and the program can reach. *)
THEOREM Invariance == Spec => []Inv
<1>1. Init => Inv
  <2> SUFFICES ASSUME Init PROVE Inv
    OBVIOUS
  <2> USE DEF Init, KInit, SInit
  <2>1. TypeOK
    BY InitType
  <2>2. ProcInv /\ LiveInv /\ HeldInv /\ FreshInv /\ StepInv
    BY DEF ProcInv, TopOfStackOfCurrentProcess, LiveInv, HeldInv, FreshInv, StepInv
  <2>3. StopInv /\ Int3Inv /\ PcInv /\ RestInv
    BY DEF StopInv, Int3Inv, PcInv, RestInv, RegsFresh
  <2>4. TodoInv /\ MemInv /\ OrigInstrGenuine
    BY DEF TodoInv, MemInv, Armed, OrigInstrGenuine
  <2>5. QED
    BY <2>1, <2>2, <2>3, <2>4 DEF Inv
<1>2. Inv /\ [Next]_vars => Inv'
  <2> SUFFICES ASSUME Inv, [Next]_vars PROVE Inv'
    OBVIOUS
  <2>1. CASE Program
    BY <2>1, ExecStopInv, ExecInstrInv, HitInt3Inv, TakeSigstopInv, SignalInv,
       CloneInv, ThreadExitInv, ExitInv, DieInv DEF Program, KNext
  <2>2. CASE ResumeProceeds
    BY <2>2, WaitForTrapInv, WaitForTrapContInv, WaitForTrapGoneInv,
       SetBreakpointInv, LiftBreakpointInv, SetOptionsInv,
       SetBreakpointsDoneInv, ContInv, KillStopInv, WaitStopInv,
       WaitStopUnexpectedInv, LiftBreakpointsDoneInv, ServeDoneInv,
       GetRegsInv, SetRegsInv, PtraceFailsInv DEF ResumeProceeds
  <2>3. ASSUME NEW c \in Clients, Send(c) \/ Handle(c) PROVE Inv'
    BY <2>3, SendInv, HandleBreakpointInv, HandleDeleteBreakpointsInv,
       HandleRunInv, HandleRunFailsInv, ResumeRefusedInv, ResumeFirstInv,
       ResumeStepInv, ResumeDirectlyInv, HandleFramesInv,
       BreakpointsChangedInv, ServeNextInv DEF Handle
  <2>4. CASE UNCHANGED vars
    <3> USE <2>4 DEF vars
    <3>1. (TypeOK /\ ProcInv)'
      BY SMTT(40) DEF Inv, TypeOK, KTypeOK, STypeOK, ProcInv, TopOfStackOfCurrentProcess
    <3>2. (LiveInv /\ HeldInv /\ FreshInv /\ StepInv)'
      BY DEF Inv, LiveInv, HeldInv, FreshInv, StepInv
    <3>3. (StopInv /\ Int3Inv /\ PcInv /\ RestInv)'
      BY DEF Inv, StopInv, Int3Inv, PcInv, RestInv, RegsFresh
    <3>4. (TodoInv /\ MemInv /\ OrigInstrGenuine)'
      BY DEF Inv, TodoInv, MemInv, Armed, OrigInstrGenuine
    <3>5. QED
      BY <3>1, <3>2, <3>3, <3>4 DEF Inv
  <2>5. QED
    BY <2>1, <2>2, <2>3, <2>4 DEF Next
<1>3. QED
  BY <1>1, <1>2, PTL DEF Spec

(* Types are kept; the program counter that handleResume stores is valid. *)
THEOREM Typing == Spec => []TypeOK
<1>1. Inv => TypeOK
  BY DEF Inv
<1>2. QED
  BY <1>1, Invariance, PTL

(* Unless a Resume failed after setBreakpoints, the text of the process is *)
(* the executable's whenever the server can serve a request.               *)
THEOREM TextIsPristine == Spec => []TextPristine
<1>1. Inv => TextPristine
  BY DEF Inv, TypeOK, KTypeOK, MemInv, Armed, TextPristine
<1>2. QED
  BY <1>1, Invariance, PTL

(* addBreakpoints never saves an INT3 of the server's own. *)
THEOREM OrigInstrIsGenuine == Spec => []OrigInstrGenuine
<1>1. Inv => OrigInstrGenuine
  BY DEF Inv
<1>2. QED
  BY <1>1, Invariance, PTL

(* waitForTrap leaves no thread in a stop that the server forgets. *)
THEOREM OnlyStoppedPidIsHeld == Spec => []OnlyStoppedPidHeld
<1>1. Inv => OnlyStoppedPidHeld
  BY DEF Inv, HeldInv, OnlyStoppedPidHeld
<1>2. QED
  BY <1>1, Invariance, PTL

(* No thread runs on from the middle of an instruction. *)
THEOREM ThreadsStayOnInstructions == Spec => []NoDerail
<1>1. Inv => NoDerail
  BY DEF Inv, PcInv, NoDerail
<1>2. QED
  BY <1>1, Invariance, PTL

(* The registers used for evaluation are those of the stopped thread. *)
THEOREM RegistersAreFresh == Spec => []RegsFresh
<1>1. Inv => RegsFresh
  BY DEF Inv, RestInv, RegsFresh
<1>2. QED
  BY <1>1, Invariance, PTL

(* The top-of-stack addresses are never those of an earlier process. *)
THEOREM TopOfStackIsCurrent == Spec => []TopOfStackOfCurrentProcess
<1>1. Inv => TopOfStackOfCurrentProcess
  BY DEF Inv, ProcInv
<1>2. QED
  BY <1>1, Invariance, PTL

-----------------------------------------------------------------------------
(* A program that starts no threads. *)

(* A program without clones has one live thread, that of the newest process. *)
LEMMA OneThreadKept ==
  ASSUME Inv, OneThread, ~CanClone, [Next]_vars
  PROVE  OneThread'
<1> USE DEF OneThread
<1>1. ASSUME NEW t \in Tids, ExecStop(t), UNCHANGED svars PROVE OneThread'
  BY <1>1 DEF ExecStop, Stop
<1>2. ASSUME NEW t \in Tids, ExecInstr(t), UNCHANGED svars PROVE OneThread'
  BY <1>2 DEF Inv, TypeOK, KTypeOK, ExecInstr, AtInstr, Stop, Runs
<1>3. ASSUME NEW t \in Tids, HitInt3(t), UNCHANGED svars PROVE OneThread'
  BY <1>3 DEF HitInt3, AtInstr, Stop, Runs
<1>4. ASSUME NEW t \in Tids, TakeSigstop(t), UNCHANGED svars PROVE OneThread'
  BY <1>4 DEF TakeSigstop, Stop, Runs
<1>5. ASSUME NEW t \in Tids, Signal(t), UNCHANGED svars PROVE OneThread'
  BY <1>5 DEF Signal, Stop, Runs
<1>6. ASSUME NEW t \in Tids, ThreadExit(t), UNCHANGED svars PROVE OneThread'
  BY <1>6 DEF ThreadExit, Runs
<1>7. ASSUME NEW t \in Tids, Exit(t), UNCHANGED svars PROVE OneThread'
  BY <1>7 DEF Exit
<1>8. ASSUME NEW t \in Tids, Die(t), UNCHANGED svars PROVE OneThread'
  BY <1>8 DEF Die
<1>9. ASSUME NEW t \in Tids, WaitForTrap(t) PROVE OneThread'
  BY <1>9 DEF WaitForTrap, Waiting, IsTrap, Report, Goto, GotoPokes
<1>10. ASSUME NEW t \in Tids, WaitForTrapCont(t) PROVE OneThread'
  BY <1>10 DEF WaitForTrapCont, Waiting, IsTrap, Restart
<1>11. ASSUME NEW t \in Tids, WaitForTrapGone(t) PROVE OneThread'
  BY <1>11 DEF WaitForTrapGone, Waiting, Reapable, Report, ReturnError, Return
<1>12. ASSUME NEW a \in Addrs, SetBreakpoint(a) PROVE OneThread'
  BY <1>12 DEF SetBreakpoint, Poke
<1>13. ASSUME NEW a \in Addrs, LiftBreakpoint(a) PROVE OneThread'
  BY <1>13 DEF LiftBreakpoint, Poke
<1>14. CASE SetOptions
  BY <1>14 DEF SetOptions, Goto, GotoPokes
<1>15. CASE SetBreakpointsDone
  BY <1>15 DEF SetBreakpointsDone, Goto
<1>16. CASE Cont
  BY <1>16 DEF Cont, Stopped, Restart, Goto
<1>17. CASE KillStop
  BY <1>17 DEF KillStop, Goto
<1>18. CASE WaitStop
  BY <1>18 DEF WaitStop, Report, Goto, GotoPokes
<1>19. CASE WaitStopUnexpected
  BY <1>19 DEF WaitStopUnexpected, Waitable, Reapable, Report, ReturnError, Return
<1>20. CASE LiftBreakpointsDone
  BY <1>20 DEF LiftBreakpointsDone, Goto
<1>21. CASE ServeDone
  BY <1>21 DEF ServeDone, Goto, GotoPokes
<1>22. CASE GetRegs
  BY <1>22 DEF GetRegs, Stopped, Goto
<1>23. CASE SetRegs
  BY <1>23 DEF SetRegs, Stopped, SetRip, Return
<1>24. CASE PtraceFails
  BY <1>24 DEF PtraceFails, Stopped, ReturnError, Return
<1>25. ASSUME NEW c \in Clients, Send(c) PROVE OneThread'
  BY <1>25 DEF Send
<1>26. ASSUME NEW c \in Clients, HandleBreakpoint(c) PROVE OneThread'
  BY <1>26 DEF HandleBreakpoint, Dispatched, Reply, Return, addBreakpoints
<1>27. ASSUME NEW c \in Clients, HandleDeleteBreakpoints(c) PROVE OneThread'
  BY <1>27 DEF HandleDeleteBreakpoints, Dispatched, Reply, Return
<1>28. ASSUME NEW c \in Clients, HandleRun(c) PROVE OneThread'
  BY <1>28 DEF LiveInv, Inv, TypeOK, KTypeOK, HandleRun, Dispatched, BreakOps, Abandon,
         Fork, Killed, Reply, Return
<1>29. ASSUME NEW c \in Clients, HandleRunFails(c) PROVE OneThread'
  BY <1>29 DEF LiveInv, Inv, TypeOK, KTypeOK, HandleRunFails, Dispatched, BreakOps,
         Abandon, Killed, Reply, Return
<1>30. ASSUME NEW c \in Clients, ResumeRefused(c) PROVE OneThread'
  BY <1>30 DEF ResumeRefused, Reply, Return
<1>31. ASSUME NEW c \in Clients, ResumeFirst(c) PROVE OneThread'
  BY <1>31 DEF ResumeFirst, Accept
<1>32. ASSUME NEW c \in Clients, ResumeStep(c) PROVE OneThread'
  BY <1>32 DEF ResumeStep, Accept, Stopped, Restart
<1>33. ASSUME NEW c \in Clients, ResumeDirectly(c) PROVE OneThread'
  BY <1>33 DEF ResumeDirectly, Accept
<1>34. ASSUME NEW c \in Clients, HandleFrames(c) PROVE OneThread'
  BY <1>34 DEF HandleFrames, Reply, Return
<1>35. ASSUME NEW c \in Clients, BreakpointsChanged(c) PROVE OneThread'
  BY <1>35 DEF BreakpointsChanged, Waitable
<1>36. ASSUME NEW c \in Clients, ServeNext(c) PROVE OneThread'
  BY <1>36 DEF ServeNext
<1>37. CASE UNCHANGED vars
  BY <1>37 DEF vars
<1>38. CASE Program
  BY <1>38, <1>1, <1>2, <1>3, <1>4, <1>5, <1>6, <1>7, <1>8
     DEF Program, KNext, Clone
<1>39. CASE ResumeProceeds
  BY <1>39, <1>9, <1>10, <1>11, <1>12, <1>13, <1>14, <1>15, <1>16, <1>17, <1>18,
     <1>19, <1>20, <1>21, <1>22, <1>23, <1>24
     DEF ResumeProceeds
<1>40. ASSUME NEW c \in Clients, Send(c) \/ Handle(c) PROVE OneThread'
  BY <1>40, <1>25, <1>26, <1>27, <1>28, <1>29, <1>30, <1>31, <1>32, <1>33, <1>34,
     <1>35, <1>36
     DEF Handle
<1>41. QED
  BY <1>37, <1>38, <1>39, <1>40 DEF Next

(* A thread that has executed an INT3 is at a breakpoint that is still set  *)
(* when Resume returns: no call that changes the set is served meanwhile.   *)
LEMMA AtBreakpointKept ==
  ASSUME Inv, OneThread, AtBreakpoint, ~CanClone, [Next]_vars
  PROVE  AtBreakpoint'
<1> USE DEF AtBreakpoint, RunLabels
<1>1. ASSUME NEW t \in Tids, ExecStop(t), UNCHANGED svars PROVE AtBreakpoint'
  BY <1>1 DEF Inv, TypeOK, KTypeOK, ExecStop, Stop
<1>2. ASSUME NEW t \in Tids, ExecInstr(t), UNCHANGED svars PROVE AtBreakpoint'
  BY <1>2 DEF OneThread, ProcInv, Inv, TypeOK, KTypeOK, ExecInstr, AtInstr, Stop, Runs
<1>3. ASSUME NEW t \in Tids, HitInt3(t), UNCHANGED svars PROVE AtBreakpoint'
  <2>1. SUFFICES ASSUME taint = "clean"
                 PROVE  lp \in RunLabels /\ tpc[t] \in Set
    <3>1. /\ tpc'[t] - BreakpointSize = tpc[t]
          /\ \A u \in Tids : u # t => tstate'[u] = tstate[u] /\ tstop'[u] = tstop[u] /\ tpc'[u] = tpc[u]
      <4>1. tpc[t] \in Nat
        BY <1>3 DEF HitInt3, AtInstr
      <4>2. tpc'[t] = tpc[t] + BreakpointSize
        BY <1>3 DEF Inv, TypeOK, KTypeOK, HitInt3
      <4>3. \A u \in Tids : u # t => tstate'[u] = tstate[u] /\ tstop'[u] = tstop[u] /\ tpc'[u] = tpc[u]
        BY <1>3 DEF Inv, TypeOK, KTypeOK, HitInt3, Stop
      <4>4. QED
        BY <4>1, <4>2, <4>3
    <3>2. UNCHANGED <<taint, lp, breakpoints, stoppedPid, stoppedRip>>
      BY <1>3
    <3>3. tstate'[t] = "trapped"
      BY <1>3 DEF Inv, TypeOK, KTypeOK, HitInt3, Stop
    <3>4. lp \in {"liftFinal", "getRegs"} => stoppedPid \in Tids
      BY DEF Inv, ProcInv
    <3>5. QED
      BY <2>1, <3>1, <3>2, <3>3, <3>4
  <2>2. tpc[t] \in Addrs /\ mem[tpc[t]] = INT3
    BY <1>3 DEF HitInt3, AtInstr
  <2>3. tpc[t] \in Armed
    BY <2>1, <2>2 DEF Inv, MemInv
  <2>4. t = stoppedPid /\ tstate[t] \in {"running", "stepping"}
    BY <1>3 DEF HitInt3, OneThread
  <2>5. lp # "loop" => procIsUp
    BY DEF Inv, ProcInv
  <2>6. lp \notin {"set", "cont", "lift", "liftFinal"}
    BY <2>1, <2>4, <2>5 DEF Inv, StopInv, RestInv
  <2>7. QED
    BY <2>3, <2>6 DEF Armed
<1>4. ASSUME NEW t \in Tids, TakeSigstop(t), UNCHANGED svars PROVE AtBreakpoint'
  BY <1>4 DEF Inv, TypeOK, KTypeOK, TakeSigstop, Stop, Runs
<1>5. ASSUME NEW t \in Tids, Signal(t), UNCHANGED svars PROVE AtBreakpoint'
  BY <1>5 DEF Inv, TypeOK, KTypeOK, Signal, Stop, Runs
<1>6. ASSUME NEW t \in Tids, ThreadExit(t), UNCHANGED svars PROVE AtBreakpoint'
  BY <1>6 DEF ThreadExit, Runs
<1>7. ASSUME NEW t \in Tids, Exit(t), UNCHANGED svars PROVE AtBreakpoint'
  BY <1>7 DEF OneThread, ProcInv, Inv, TypeOK, KTypeOK, Exit
<1>8. ASSUME NEW t \in Tids, Die(t), UNCHANGED svars PROVE AtBreakpoint'
  BY <1>8 DEF Die
<1>9. ASSUME NEW t \in Tids, WaitForTrap(t) PROVE AtBreakpoint'
  BY <1>9 DEF OneThread, ProcInv, FreshInv, StepInv, StopInv, Inv, TypeOK, KTypeOK,
         WaitForTrap, Waiting, IsTrap, Report, Goto, GotoPokes
<1>10. ASSUME NEW t \in Tids, WaitForTrapCont(t) PROVE AtBreakpoint'
  BY <1>10 DEF WaitForTrapCont, Waiting, IsTrap, Restart
<1>11. ASSUME NEW t \in Tids, WaitForTrapGone(t) PROVE AtBreakpoint'
  BY <1>11 DEF WaitForTrapGone, Waiting, Reapable, Report, ReturnError, Return
<1>12. ASSUME NEW a \in Addrs, SetBreakpoint(a) PROVE AtBreakpoint'
  BY <1>12 DEF SetBreakpoint, Poke
<1>13. ASSUME NEW a \in Addrs, LiftBreakpoint(a) PROVE AtBreakpoint'
  BY <1>13 DEF LiftBreakpoint, Poke
<1>14. CASE SetOptions
  BY <1>14 DEF SetOptions, Goto, GotoPokes
<1>15. CASE SetBreakpointsDone
  BY <1>15 DEF SetBreakpointsDone, Goto
<1>16. CASE Cont
  BY <1>16 DEF Cont, Stopped, Restart, Goto
<1>17. CASE KillStop
  BY <1>17 DEF KillStop, Goto
<1>18. CASE WaitStop
  BY <1>18 DEF OneThread, ProcInv, Inv, TypeOK, KTypeOK, WaitStop, Report, Goto,
         GotoPokes
<1>19. CASE WaitStopUnexpected
  BY <1>19 DEF WaitStopUnexpected, Waitable, Reapable, Report, ReturnError, Return
<1>20. CASE LiftBreakpointsDone
  BY <1>20 DEF LiftBreakpointsDone, Goto
<1>21. CASE ServeDone
  BY <1>21 DEF ServeDone, Goto, GotoPokes
<1>22. CASE GetRegs
  BY <1>22 DEF OneThread, ProcInv, FreshInv, StepInv, StopInv, Inv, TypeOK, KTypeOK,
         GetRegs, Stopped, Goto
<1>23. CASE SetRegs
  BY <1>23 DEF SetRegs, Stopped, SetRip, Return
<1>24. CASE PtraceFails
  BY <1>24 DEF PtraceFails, Stopped, ReturnError, Return
<1>25. ASSUME NEW c \in Clients, Send(c) PROVE AtBreakpoint'
  BY <1>25 DEF Send
<1>26. ASSUME NEW c \in Clients, HandleBreakpoint(c) PROVE AtBreakpoint'
  BY <1>26 DEF HandleBreakpoint, Dispatched, Reply, Return, addBreakpoints
<1>27. ASSUME NEW c \in Clients, HandleDeleteBreakpoints(c) PROVE AtBreakpoint'
  BY <1>27 DEF HandleDeleteBreakpoints, Dispatched, Reply, Return
<1>28. ASSUME NEW c \in Clients, HandleRun(c) PROVE AtBreakpoint'
  BY <1>28 DEF OneThread, ProcInv, Inv, TypeOK, KTypeOK, HandleRun, Dispatched,
         BreakOps, Abandon, Fork, Killed, Reply, Return
<1>29. ASSUME NEW c \in Clients, HandleRunFails(c) PROVE AtBreakpoint'
  BY <1>29 DEF HandleRunFails, Dispatched, BreakOps, Abandon, Killed, Reply, Return
<1>30. ASSUME NEW c \in Clients, ResumeRefused(c) PROVE AtBreakpoint'
  BY <1>30 DEF ResumeRefused, Reply, Return
<1>31. ASSUME NEW c \in Clients, ResumeFirst(c) PROVE AtBreakpoint'
  BY <1>31 DEF ResumeFirst, Accept
<1>32. ASSUME NEW c \in Clients, ResumeStep(c) PROVE AtBreakpoint'
  BY <1>32 DEF ResumeStep, Accept, Stopped, Restart
<1>33. ASSUME NEW c \in Clients, ResumeDirectly(c) PROVE AtBreakpoint'
  BY <1>33 DEF ResumeDirectly, Accept
<1>34. ASSUME NEW c \in Clients, HandleFrames(c) PROVE AtBreakpoint'
  BY <1>34 DEF HandleFrames, Reply, Return
<1>35. ASSUME NEW c \in Clients, BreakpointsChanged(c) PROVE AtBreakpoint'
  BY <1>35 DEF BreakpointsChanged, Waitable
<1>36. ASSUME NEW c \in Clients, ServeNext(c) PROVE AtBreakpoint'
  BY <1>36 DEF ServeNext
<1>37. CASE UNCHANGED vars
  BY <1>37 DEF vars
<1>38. CASE Program
  BY <1>38, <1>1, <1>2, <1>3, <1>4, <1>5, <1>6, <1>7, <1>8
     DEF Program, KNext, Clone
<1>39. CASE ResumeProceeds
  BY <1>39, <1>9, <1>10, <1>11, <1>12, <1>13, <1>14, <1>15, <1>16, <1>17, <1>18,
     <1>19, <1>20, <1>21, <1>22, <1>23, <1>24
     DEF ResumeProceeds
<1>40. ASSUME NEW c \in Clients, Send(c) \/ Handle(c) PROVE AtBreakpoint'
  BY <1>40, <1>25, <1>26, <1>27, <1>28, <1>29, <1>30, <1>31, <1>32, <1>33, <1>34,
     <1>35, <1>36
     DEF Handle
<1>41. QED
  BY <1>37, <1>38, <1>39, <1>40 DEF Next

(* Without signals the only stops that waitForTrap would continue are those *)
(* of a SIGSTOP, and that one is taken by the wait after it was sent.       *)
LEMMA StopsKept ==
  ASSUME Inv, OneThread, Stops, ~CanClone, MaxSignals = 0, [Next]_vars
  PROVE  Stops'
<1> USE DEF Stops
<1>1. ASSUME NEW t \in Tids, ExecStop(t), UNCHANGED svars PROVE Stops'
  BY <1>1 DEF Inv, TypeOK, KTypeOK, ExecStop, Stop
<1>2. ASSUME NEW t \in Tids, ExecInstr(t), UNCHANGED svars PROVE Stops'
  BY <1>2 DEF Inv, TypeOK, KTypeOK, ExecInstr, AtInstr, Stop, Runs
<1>3. ASSUME NEW t \in Tids, HitInt3(t), UNCHANGED svars PROVE Stops'
  BY <1>3 DEF Inv, TypeOK, KTypeOK, HitInt3, AtInstr, Stop, Runs
<1>4. ASSUME NEW t \in Tids, TakeSigstop(t), UNCHANGED svars PROVE Stops'
  BY <1>4 DEF Inv, TypeOK, KTypeOK, TakeSigstop, Stop, Runs
<1>5. ASSUME NEW t \in Tids, Signal(t), UNCHANGED svars PROVE Stops'
  BY <1>5 DEF Inv, TypeOK, KTypeOK, Signal, Stop, Runs
<1>6. ASSUME NEW t \in Tids, ThreadExit(t), UNCHANGED svars PROVE Stops'
  BY <1>6 DEF ThreadExit, Runs
<1>7. ASSUME NEW t \in Tids, Exit(t), UNCHANGED svars PROVE Stops'
  BY <1>7 DEF Exit
<1>8. ASSUME NEW t \in Tids, Die(t), UNCHANGED svars PROVE Stops'
  BY <1>8 DEF Die
<1>9. ASSUME NEW t \in Tids, WaitForTrap(t) PROVE Stops'
  BY <1>9 DEF Inv, TypeOK, KTypeOK, WaitForTrap, Waiting, IsTrap, Report, Goto,
         GotoPokes
<1>10. ASSUME NEW t \in Tids, WaitForTrapCont(t) PROVE Stops'
  BY <1>10 DEF Inv, TypeOK, KTypeOK, WaitForTrapCont, Waiting, IsTrap, Restart
<1>11. ASSUME NEW t \in Tids, WaitForTrapGone(t) PROVE Stops'
  BY <1>11 DEF WaitForTrapGone, Waiting, Reapable, Report, ReturnError, Return
<1>12. ASSUME NEW a \in Addrs, SetBreakpoint(a) PROVE Stops'
  BY <1>12 DEF SetBreakpoint, Poke
<1>13. ASSUME NEW a \in Addrs, LiftBreakpoint(a) PROVE Stops'
  BY <1>13 DEF LiftBreakpoint, Poke
<1>14. CASE SetOptions
  BY <1>14 DEF SetOptions, Goto, GotoPokes
<1>15. CASE SetBreakpointsDone
  BY <1>15 DEF SetBreakpointsDone, Goto
<1>16. CASE Cont
  BY <1>16 DEF Inv, TypeOK, KTypeOK, Cont, Stopped, Restart, Goto
<1>17. CASE KillStop
  BY <1>17 DEF KillStop, Goto
<1>18. CASE WaitStop
  BY <1>18 DEF OneThread, ProcInv, Inv, TypeOK, KTypeOK, WaitStop, Report, Goto,
         GotoPokes
<1>19. CASE WaitStopUnexpected
  BY <1>19 DEF Inv, TypeOK, KTypeOK, WaitStopUnexpected, Waitable, Reapable, Report,
         ReturnError, Return
<1>20. CASE LiftBreakpointsDone
  BY <1>20 DEF LiftBreakpointsDone, Goto
<1>21. CASE ServeDone
  BY <1>21 DEF ServeDone, Goto, GotoPokes
<1>22. CASE GetRegs
  BY <1>22 DEF GetRegs, Stopped, Goto
<1>23. CASE SetRegs
  BY <1>23 DEF SetRegs, Stopped, SetRip, Return
<1>24. CASE PtraceFails
  BY <1>24 DEF PtraceFails, Stopped, ReturnError, Return
<1>25. ASSUME NEW c \in Clients, Send(c) PROVE Stops'
  BY <1>25 DEF Send
<1>26. ASSUME NEW c \in Clients, HandleBreakpoint(c) PROVE Stops'
  BY <1>26 DEF HandleBreakpoint, Dispatched, Reply, Return, addBreakpoints
<1>27. ASSUME NEW c \in Clients, HandleDeleteBreakpoints(c) PROVE Stops'
  BY <1>27 DEF HandleDeleteBreakpoints, Dispatched, Reply, Return
<1>28. ASSUME NEW c \in Clients, HandleRun(c) PROVE Stops'
  <2>1. Inv'
    BY <1>28, HandleRunInv
  <2>2. stoppedPid' = nextTid /\ tstate'[nextTid] = "starting" /\ ~procIsUp' /\ ~sigstop'
    BY <1>28 DEF Inv, TypeOK, KTypeOK, ProcInv, HandleRun, Abandon, Fork, Killed
  <2>3. \A u \in Tids : tstate'[u] # "trapped"
    BY <2>1, <2>2 DEF Inv, FreshInv
  <2>4. QED
    BY <2>2, <2>3
<1>29. ASSUME NEW c \in Clients, HandleRunFails(c) PROVE Stops'
  BY <1>29 DEF HandleRunFails, Dispatched, BreakOps, Abandon, Killed, Reply, Return
<1>30. ASSUME NEW c \in Clients, ResumeRefused(c) PROVE Stops'
  BY <1>30 DEF ResumeRefused, Reply, Return
<1>31. ASSUME NEW c \in Clients, ResumeFirst(c) PROVE Stops'
  BY <1>31 DEF ResumeFirst, Accept
<1>32. ASSUME NEW c \in Clients, ResumeStep(c) PROVE Stops'
  BY <1>32 DEF Inv, TypeOK, KTypeOK, ResumeStep, Accept, Stopped, Restart
<1>33. ASSUME NEW c \in Clients, ResumeDirectly(c) PROVE Stops'
  BY <1>33 DEF ResumeDirectly, Accept
<1>34. ASSUME NEW c \in Clients, HandleFrames(c) PROVE Stops'
  BY <1>34 DEF HandleFrames, Reply, Return
<1>35. ASSUME NEW c \in Clients, BreakpointsChanged(c) PROVE Stops'
  BY <1>35 DEF BreakpointsChanged, Waitable
<1>36. ASSUME NEW c \in Clients, ServeNext(c) PROVE Stops'
  BY <1>36 DEF ServeNext
<1>37. CASE UNCHANGED vars
  BY <1>37 DEF vars
<1>38. CASE Program
  BY <1>38, <1>1, <1>2, <1>3, <1>4, <1>5, <1>6, <1>7, <1>8
     DEF Program, KNext, Clone
<1>39. CASE ResumeProceeds
  BY <1>39, <1>9, <1>10, <1>11, <1>12, <1>13, <1>14, <1>15, <1>16, <1>17, <1>18,
     <1>19, <1>20, <1>21, <1>22, <1>23, <1>24
     DEF ResumeProceeds
<1>40. ASSUME NEW c \in Clients, Send(c) \/ Handle(c) PROVE Stops'
  BY <1>40, <1>25, <1>26, <1>27, <1>28, <1>29, <1>30, <1>31, <1>32, <1>33, <1>34,
     <1>35, <1>36
     DEF Handle
<1>41. QED
  BY <1>37, <1>38, <1>39, <1>40 DEF Next

(* The thread is continued only where every breakpoint has been written. *)
LEMMA RunsArmedKept ==
  ASSUME Inv, OneThread, Stops, RunsArmed, ~CanClone, MaxSignals = 0, [Next]_vars
  PROVE  RunsArmed'
<1> USE DEF RunsArmed, RunLabels
<1>1. ASSUME NEW t \in Tids, ExecStop(t), UNCHANGED svars PROVE RunsArmed'
  BY <1>1 DEF ExecStop, Stop
<1>2. ASSUME NEW t \in Tids, ExecInstr(t), UNCHANGED svars PROVE RunsArmed'
  BY <1>2 DEF Inv, TypeOK, KTypeOK, ExecInstr, AtInstr, Stop, Runs
<1>3. ASSUME NEW t \in Tids, HitInt3(t), UNCHANGED svars PROVE RunsArmed'
  BY <1>3 DEF HitInt3, AtInstr, Stop, Runs
<1>4. ASSUME NEW t \in Tids, TakeSigstop(t), UNCHANGED svars PROVE RunsArmed'
  BY <1>4 DEF TakeSigstop, Stop, Runs
<1>5. ASSUME NEW t \in Tids, Signal(t), UNCHANGED svars PROVE RunsArmed'
  BY <1>5 DEF Signal, Stop, Runs
<1>6. ASSUME NEW t \in Tids, ThreadExit(t), UNCHANGED svars PROVE RunsArmed'
  BY <1>6 DEF ThreadExit, Runs
<1>7. ASSUME NEW t \in Tids, Exit(t), UNCHANGED svars PROVE RunsArmed'
  BY <1>7 DEF Exit
<1>8. ASSUME NEW t \in Tids, Die(t), UNCHANGED svars PROVE RunsArmed'
  BY <1>8 DEF Die
<1>9. ASSUME NEW t \in Tids, WaitForTrap(t) PROVE RunsArmed'
  BY <1>9 DEF OneThread, ProcInv, Inv, TypeOK, KTypeOK, WaitForTrap, Waiting, IsTrap,
         Report, Goto, GotoPokes
<1>10. ASSUME NEW t \in Tids, WaitForTrapCont(t) PROVE RunsArmed'
  BY <1>10 DEF OneThread, Stops, ProcInv, FreshInv, StepInv, StopInv, Inv, TypeOK,
         KTypeOK, WaitForTrapCont, Waiting, IsTrap, Restart
<1>11. ASSUME NEW t \in Tids, WaitForTrapGone(t) PROVE RunsArmed'
  BY <1>11 DEF WaitForTrapGone, Waiting, Reapable, Report, ReturnError, Return
<1>12. ASSUME NEW a \in Addrs, SetBreakpoint(a) PROVE RunsArmed'
  BY <1>12 DEF SetBreakpoint, Poke
<1>13. ASSUME NEW a \in Addrs, LiftBreakpoint(a) PROVE RunsArmed'
  BY <1>13 DEF LiftBreakpoint, Poke
<1>14. CASE SetOptions
  BY <1>14 DEF SetOptions, Goto, GotoPokes
<1>15. CASE SetBreakpointsDone
  BY <1>15 DEF SetBreakpointsDone, Goto
<1>16. CASE Cont
  BY <1>16 DEF Cont, Stopped, Restart, Goto
<1>17. CASE KillStop
  BY <1>17 DEF KillStop, Goto
<1>18. CASE WaitStop
  BY <1>18 DEF OneThread, ProcInv, Inv, TypeOK, KTypeOK, WaitStop, Report, Goto,
         GotoPokes
<1>19. CASE WaitStopUnexpected
  BY <1>19 DEF WaitStopUnexpected, Waitable, Reapable, Report, ReturnError, Return
<1>20. CASE LiftBreakpointsDone
  BY <1>20 DEF LiftBreakpointsDone, Goto
<1>21. CASE ServeDone
  BY <1>21 DEF ServeDone, Goto, GotoPokes
<1>22. CASE GetRegs
  BY <1>22 DEF GetRegs, Stopped, Goto
<1>23. CASE SetRegs
  BY <1>23 DEF SetRegs, Stopped, SetRip, Return
<1>24. CASE PtraceFails
  BY <1>24 DEF PtraceFails, Stopped, ReturnError, Return
<1>25. ASSUME NEW c \in Clients, Send(c) PROVE RunsArmed'
  BY <1>25 DEF Send
<1>26. ASSUME NEW c \in Clients, HandleBreakpoint(c) PROVE RunsArmed'
  BY <1>26 DEF HandleBreakpoint, Dispatched, Reply, Return, addBreakpoints
<1>27. ASSUME NEW c \in Clients, HandleDeleteBreakpoints(c) PROVE RunsArmed'
  BY <1>27 DEF HandleDeleteBreakpoints, Dispatched, Reply, Return
<1>28. ASSUME NEW c \in Clients, HandleRun(c) PROVE RunsArmed'
  BY <1>28 DEF OneThread, ProcInv, Inv, TypeOK, KTypeOK, HandleRun, Dispatched,
         BreakOps, Abandon, Fork, Killed, Reply, Return
<1>29. ASSUME NEW c \in Clients, HandleRunFails(c) PROVE RunsArmed'
  BY <1>29 DEF HandleRunFails, Dispatched, BreakOps, Abandon, Killed, Reply, Return
<1>30. ASSUME NEW c \in Clients, ResumeRefused(c) PROVE RunsArmed'
  BY <1>30 DEF ResumeRefused, Reply, Return
<1>31. ASSUME NEW c \in Clients, ResumeFirst(c) PROVE RunsArmed'
  BY <1>31 DEF ResumeFirst, Accept
<1>32. ASSUME NEW c \in Clients, ResumeStep(c) PROVE RunsArmed'
  BY <1>32 DEF ResumeStep, Accept, Stopped, Restart
<1>33. ASSUME NEW c \in Clients, ResumeDirectly(c) PROVE RunsArmed'
  BY <1>33 DEF ResumeDirectly, Accept
<1>34. ASSUME NEW c \in Clients, HandleFrames(c) PROVE RunsArmed'
  BY <1>34 DEF HandleFrames, Reply, Return
<1>35. ASSUME NEW c \in Clients, BreakpointsChanged(c) PROVE RunsArmed'
  BY <1>35 DEF BreakpointsChanged, Waitable
<1>36. ASSUME NEW c \in Clients, ServeNext(c) PROVE RunsArmed'
  BY <1>36 DEF ServeNext
<1>37. CASE UNCHANGED vars
  BY <1>37 DEF vars
<1>38. CASE Program
  BY <1>38, <1>1, <1>2, <1>3, <1>4, <1>5, <1>6, <1>7, <1>8
     DEF Program, KNext, Clone
<1>39. CASE ResumeProceeds
  BY <1>39, <1>9, <1>10, <1>11, <1>12, <1>13, <1>14, <1>15, <1>16, <1>17, <1>18,
     <1>19, <1>20, <1>21, <1>22, <1>23, <1>24
     DEF ResumeProceeds
<1>40. ASSUME NEW c \in Clients, Send(c) \/ Handle(c) PROVE RunsArmed'
  BY <1>40, <1>25, <1>26, <1>27, <1>28, <1>29, <1>30, <1>31, <1>32, <1>33, <1>34,
     <1>35, <1>36
     DEF Handle
<1>41. QED
  BY <1>37, <1>38, <1>39, <1>40 DEF Next

(* The status that Resume returns is that of a breakpoint that is set, for *)
(* a program of one thread: whichever calls are served while it runs, and  *)
(* whatever signals it receives.                                           *)
THEOREM ResumeStopsWhereSet ==
  ASSUME ~CanClone
  PROVE  Spec => ResumeStopsAtBreakpoint
<1>1. Init => OneThread /\ AtBreakpoint
  BY DEF Init, KInit, SInit, OneThread, AtBreakpoint
<1>2. Inv /\ OneThread /\ AtBreakpoint /\ [Next]_vars => OneThread' /\ AtBreakpoint'
  BY OneThreadKept, AtBreakpointKept
<1>3. AtBreakpoint => (SetRegs /\ taint = "clean" => stoppedRip \in Set)
  BY DEF AtBreakpoint, SetRegs
<1>4. QED
  BY <1>1, <1>2, <1>3, Invariance, PTL DEF Spec, ResumeStopsAtBreakpoint

(* No breakpoint is passed unseen by a program of one thread that receives *)
(* no signals: one that arrives during the single step off a breakpoint    *)
(* makes waitForTrap continue the thread before the others are written.    *)
THEOREM BreakpointsStayArmed ==
  ASSUME ~CanClone, MaxSignals = 0
  PROVE  Spec => []BreakpointsArmed
<1>1. Init => OneThread /\ Stops /\ RunsArmed
  BY DEF Init, KInit, SInit, OneThread, Stops, RunsArmed
<1>2. Inv /\ OneThread /\ Stops /\ RunsArmed /\ [Next]_vars => OneThread' /\ Stops' /\ RunsArmed'
  BY OneThreadKept, StopsKept, RunsArmedKept
<1>3. Inv /\ RunsArmed => BreakpointsArmed
  <2>1. SUFFICES ASSUME Inv, RunsArmed, taint = "clean", NEW t \in Tids, tstate[t] = "running",
                        NEW a \in Set
                 PROVE  mem[a] = INT3
    BY DEF BreakpointsArmed
  <2>2. lp \in RunLabels
    BY <2>1 DEF RunsArmed
  <2>3. a \in Armed /\ a \in Addrs
    BY <2>1, <2>2 DEF Armed, RunLabels
  <2>4. QED
    BY <2>1, <2>3 DEF Inv, MemInv
<1>4. QED
  BY <1>1, <1>2, <1>3, Invariance, PTL DEF Spec

-----------------------------------------------------------------------------
(* The refinement of the abstract debugger, for one thread, no signals. *)

(* What is known of a program of one thread that receives no signals. *)
OneThreadInv == Inv /\ OneThread /\ AtBreakpoint /\ Stops /\ RunsArmed

(* After a failed Resume the client is promised nothing: what the server   *)
(* does then is hidden as long as its set of breakpoints stays.            *)
LEMMA FailedHidden ==
  ASSUME taint # "clean", taint' # "clean", Set' = Set
  PROVE  Dbg!dvars' = Dbg!dvars
<1>1. ProcessState = "failed" /\ ProcessState' = "failed"
  BY DEF ProcessState
<1>2. QED
  BY <1>1 DEF Dbg!dvars, NextInstr, SteppingOff

(* A step that leaves alone the thread, the label and the process is seen  *)
(* in the set of breakpoints alone.                                        *)
LEMMA OnlySetSeen ==
  ASSUME UNCHANGED <<tstate, tpc, tstop, proc, procIsUp, stoppedPid, lp, taint>>
  PROVE  UNCHANGED <<ProcessState, NextInstr, SteppingOff>>
  BY DEF ProcessState, NextInstr, SteppingOff, PastInt3, Live

(* handleBreakpoint adds all the addresses asked for, or none. *)
LEMMA AddRefines ==
  ASSUME Inv, NEW c \in Clients, HandleBreakpoint(c)
  PROVE  [Dbg!Next]_(Dbg!dvars)
<1>1. UNCHANGED <<ProcessState, NextInstr, SteppingOff>>
  <2>1. CASE taint = "clean"
    BY <2>1, OnlySetSeen DEF HandleBreakpoint, kvars, pvars
  <2>2. CASE taint # "clean"
    BY <2>2 DEF HandleBreakpoint, ProcessState, NextInstr, SteppingOff
  <2>3. QED
    BY <2>1, <2>2
<1>2. CASE \A a \in creq[c].pcs \ Set : CanPeek(a)
  <2>1. PICK pcs \in SUBSET Addrs : pcs = creq[c].pcs \ Set
    BY <1>2 DEF CanPeek
  <2>2. \A a \in Addrs : breakpoints'[a] = IF a \in pcs THEN mem[a] ELSE breakpoints[a]
    BY <1>2, <2>1 DEF HandleBreakpoint, addBreakpoints
  <2>3. \A a \in Addrs : mem[a] # NoBp
    BY ServerAssumption DEF Inv, TypeOK, KTypeOK
  <2>4. Set' = Set \cup pcs
    BY <2>1, <2>2, <2>3 DEF Set
  <2>5. Dbg!Add(pcs)
    BY <1>1, <2>4 DEF Dbg!Add
  <2>6. QED
    BY <2>5 DEF Dbg!Next
<1>3. CASE ~\A a \in creq[c].pcs \ Set : CanPeek(a)
  BY <1>1, <1>3 DEF HandleBreakpoint, addBreakpoints, Dbg!dvars, Set
<1>4. QED
  BY <1>2, <1>3

(* handleDeleteBreakpoints deletes the addresses asked for. *)
LEMMA DeleteRefines ==
  ASSUME Inv, NEW c \in Clients, HandleDeleteBreakpoints(c)
  PROVE  Dbg!Next
<1>1. UNCHANGED <<ProcessState, NextInstr, SteppingOff>>
  BY OnlySetSeen DEF HandleDeleteBreakpoints, kvars, pvars
<1>2. PICK pcs \in SUBSET Addrs : pcs = creq[c].pcs \cap Addrs
  OBVIOUS
<1>3. Set' = Set \ pcs
  BY <1>2 DEF HandleDeleteBreakpoints, Inv, TypeOK, STypeOK, Set
<1>4. Dbg!Delete(pcs)
  BY <1>1, <1>3 DEF Dbg!Delete
<1>5. QED
  BY <1>4 DEF Dbg!Next

(* handleRun starts a process at its entry, also after a failed Resume,    *)
(* unless a breakpoint was added in between.                               *)
LEMMA RunRefines ==
  ASSUME Inv, NEW c \in Clients, HandleRun(c)
  PROVE  [Dbg!Next]_(Dbg!dvars)
<1>1. lp = "loop" /\ lp' = "loop" /\ Set' = Set
  BY DEF HandleRun, Dispatched, BreakOps, Set
<1>2. CASE taint = "polluted"
  BY <1>1, <1>2, FailedHidden DEF HandleRun
<1>3. CASE taint # "polluted"
  <2>1. taint' = "clean"
    BY <1>3 DEF HandleRun, Inv, TypeOK, STypeOK, Taints
  <2>2. nextTid \in Tids /\ proc' = nextTid /\ stoppedPid' = nextTid /\ ~procIsUp'
    BY DEF HandleRun, Fork, Abandon, Inv, ProcInv
  <2>3. tstate'[nextTid] = "starting" /\ tpc'[nextTid] = Entry
    BY <2>2 DEF HandleRun, Fork, Killed, Inv, TypeOK, KTypeOK
  <2>4. ProcessState' = "loaded"
    BY <1>1, <2>1, <2>2, <2>3 DEF ProcessState, Live, Tids
  <2>5. NextInstr' = Entry /\ SteppingOff' = FALSE
    BY <1>1, <2>2, <2>3, <2>4 DEF NextInstr, PastInt3, SteppingOff
  <2>6. ProcessState # "running"
    BY <1>1 DEF ProcessState
  <2>7. Dbg!Run
    BY <1>1, <2>4, <2>5, <2>6 DEF Dbg!Run
  <2>8. QED
    BY <2>7 DEF Dbg!Next
<1>4. QED
  BY <1>2, <1>3

LEMMA RunFailsRefines ==
  ASSUME Inv, NEW c \in Clients, HandleRunFails(c)
  PROVE  [Dbg!Next]_(Dbg!dvars)
<1>1. lp = "loop" /\ lp' = "loop" /\ Set' = Set /\ taint' = taint /\ proc' = 0
  BY DEF HandleRunFails, Dispatched, BreakOps, Set
<1>2. CASE taint # "clean"
  BY <1>1, <1>2, FailedHidden
<1>3. CASE taint = "clean"
  <2>1. ProcessState \notin {"running", "failed"} /\ ProcessState' = "none"
    BY <1>1, <1>3 DEF ProcessState
  <2>2. NextInstr' = Entry /\ SteppingOff' = FALSE
    BY <2>1 DEF NextInstr, SteppingOff
  <2>3. QED
    BY <1>1, <2>1, <2>2 DEF Dbg!RunFails, Dbg!Next
<1>4. QED
  BY <1>2, <1>3

(* The first Resume of a process lets it run from its entry. *)
LEMMA ResumeFirstRefines ==
  ASSUME Inv, NEW c \in Clients, ResumeFirst(c), taint = "clean"
  PROVE  [Dbg!Next]_(Dbg!dvars)
<1>1. /\ lp = "loop" /\ lp' = "waitUp" /\ proc # 0 /\ ~procIsUp /\ Set' = Set
      /\ UNCHANGED <<tstate, tpc, tstop, proc, stoppedPid, taint>>
  BY DEF ResumeFirst, Accept, Set, kvars
<1>2. stoppedPid \in Tids
  BY <1>1 DEF Inv, ProcInv
<1>3. CASE Live(stoppedPid)
  <2>1. tstate[stoppedPid] \in {"starting", "trapped"}
        /\ (tstate[stoppedPid] = "trapped" => tstop[stoppedPid] = "exec")
    BY <1>1, <1>2, <1>3 DEF Inv, FreshInv
  <2>2. ProcessState = "loaded" /\ ProcessState' = "running"
    BY <1>1, <1>3 DEF ProcessState, Live
  <2>3. ~PastInt3 /\ ~PastInt3'
    BY <1>1, <2>1 DEF PastInt3
  <2>4. NextInstr' = NextInstr /\ SteppingOff' = FALSE
    BY <1>1, <2>1, <2>2, <2>3 DEF NextInstr, SteppingOff
  <2>5. QED
    BY <1>1, <2>2, <2>4 DEF Dbg!Resume, Dbg!Next
<1>4. CASE ~Live(stoppedPid)
  <2>1. ProcessState = "gone" /\ ProcessState' = "gone"
    BY <1>1, <1>4 DEF ProcessState, Live
  <2>2. QED
    BY <1>1, <2>1 DEF NextInstr, SteppingOff, Dbg!dvars
<1>5. QED
  BY <1>3, <1>4

(* Between Resumes a live thread stands before the instruction at the      *)
(* registers that the server has saved.                                    *)
LEMMA StoppedView ==
  ASSUME Inv, taint = "clean", lp = "loop", proc # 0, procIsUp, Live(stoppedPid)
  PROVE  /\ stoppedPid \in Tids
         /\ tstate[stoppedPid] = "held"
         /\ tpc[stoppedPid] = stoppedRip
         /\ ProcessState = "stopped"
         /\ NextInstr = stoppedRip
<1>1. stoppedPid \in Tids /\ stoppedPid # 0
  BY DEF Inv, ProcInv, Tids
<1>2. tstate[stoppedPid] = "held"
  BY DEF Inv, RestInv, Live
<1>3. tpc[stoppedPid] = stoppedRip
  BY <1>1, <1>2 DEF Inv, RestInv, RegsFresh
<1>4. ProcessState = "stopped"
  BY DEF ProcessState
<1>5. QED
  BY <1>1, <1>2, <1>3, <1>4 DEF NextInstr, PastInt3

(* A Resume from a breakpoint steps off it. *)
LEMMA ResumeStepRefines ==
  ASSUME Inv, NEW c \in Clients, ResumeStep(c), taint = "clean"
  PROVE  Dbg!Next
<1>1. /\ lp = "loop" /\ lp' = "waitStep" /\ proc # 0 /\ procIsUp /\ Set' = Set /\ stoppedRip \in Set
      /\ UNCHANGED <<tpc, proc, stoppedPid, taint>>
  BY DEF ResumeStep, Accept, Set, pvars, Restart
<1>2. Live(stoppedPid)
  BY DEF ResumeStep, Stopped, Live
<1>3. stoppedPid \in Tids /\ tpc[stoppedPid] = stoppedRip /\ ProcessState = "stopped" /\ NextInstr = stoppedRip
  BY <1>1, <1>2, StoppedView
<1>4. tstate'[stoppedPid] = "stepping"
  BY <1>3 DEF ResumeStep, Restart, Inv, TypeOK, KTypeOK
<1>5. ProcessState' = "running"
  BY <1>1, <1>4 DEF ProcessState, Live
<1>6. NextInstr' = NextInstr /\ SteppingOff' = TRUE
  BY <1>1, <1>3, <1>4, <1>5 DEF NextInstr, PastInt3, SteppingOff
<1>7. QED
  BY <1>1, <1>3, <1>5, <1>6 DEF Dbg!Resume, Dbg!Next

(* A Resume from anywhere else has no instruction to step off. *)
LEMMA ResumeDirectlyRefines ==
  ASSUME Inv, NEW c \in Clients, ResumeDirectly(c), taint = "clean"
  PROVE  [Dbg!Next]_(Dbg!dvars)
<1>1. /\ lp = "loop" /\ lp' = "set" /\ proc # 0 /\ procIsUp /\ Set' = Set /\ stoppedRip \notin Set
      /\ UNCHANGED <<tstate, tpc, tstop, proc, stoppedPid, taint>>
  BY DEF ResumeDirectly, Accept, Set, pvars, kvars
<1>2. CASE Live(stoppedPid)
  <2>1. tpc[stoppedPid] = stoppedRip /\ tstate[stoppedPid] = "held" /\ ProcessState = "stopped"
        /\ NextInstr = stoppedRip
    BY <1>1, <1>2, StoppedView
  <2>2. ProcessState' = "running"
    BY <1>1, <2>1 DEF ProcessState, Live
  <2>3. NextInstr' = NextInstr /\ SteppingOff' = FALSE
    BY <1>1, <2>1, <2>2 DEF NextInstr, PastInt3, SteppingOff
  <2>4. QED
    BY <1>1, <2>1, <2>2, <2>3 DEF Dbg!Resume, Dbg!Next
<1>3. CASE ~Live(stoppedPid)
  <2>1. ProcessState = "gone" /\ ProcessState' = "gone"
    BY <1>1, <1>3 DEF ProcessState, Live
  <2>2. QED
    BY <1>1, <2>1 DEF NextInstr, SteppingOff, Dbg!dvars
<1>4. QED
  BY <1>2, <1>3

(* The program and the server work on the same thread. *)
LEMMA LiveThread ==
  ASSUME Inv, OneThread, NEW t \in Tids, Live(t)
  PROVE  t = stoppedPid /\ proc # 0
  BY DEF OneThread, Inv, LiveInv

(* A thread runs only while the client waits for Resume. *)
LEMMA RunningView ==
  ASSUME OneThreadInv, NEW t \in Tids, Runs(t), taint = "clean"
  PROVE  /\ t = stoppedPid
         /\ proc # 0
         /\ lp # "loop"
         /\ ProcessState = "running"
         /\ NextInstr = tpc[t]
         /\ SteppingOff <=> tstate[t] = "stepping"
<1>1. Live(t)
  BY DEF Runs, Live
<1>2. t = stoppedPid /\ proc # 0
  BY <1>1, LiveThread DEF OneThreadInv
<1>3. lp # "loop"
  BY DEF OneThreadInv, RunsArmed, RunLabels, Inv, StepInv, Runs
<1>4. ProcessState = "running"
  BY <1>1, <1>2, <1>3 DEF ProcessState
<1>5. QED
  BY <1>2, <1>3, <1>4 DEF NextInstr, PastInt3, SteppingOff, Runs

(* The program executes an instruction only where no breakpoint is set, or *)
(* in the single step off the breakpoint it was resumed from.              *)
LEMMA ExecInstrRefines ==
  ASSUME OneThreadInv, NEW t \in Tids, ExecInstr(t), UNCHANGED svars, taint = "clean"
  PROVE  Dbg!Next
<1>1. /\ t = stoppedPid /\ proc # 0 /\ lp # "loop" /\ ProcessState = "running"
      /\ NextInstr = tpc[t] /\ (SteppingOff <=> tstate[t] = "stepping")
  BY RunningView DEF ExecInstr
<1>2. UNCHANGED <<taint, proc, lp, stoppedPid, breakpoints>> /\ Set' = Set
  BY DEF svars, pvars, Set
<1>3. SteppingOff \/ NextInstr \notin Set
  <2>1. SUFFICES ASSUME tstate[t] = "running", tpc[t] \in Set PROVE FALSE
    BY <1>1 DEF ExecInstr, Runs
  <2>2. tpc[t] \in Armed /\ tpc[t] \in Addrs
    BY <2>1 DEF OneThreadInv, RunsArmed, RunLabels, Armed, Set
  <2>3. mem[tpc[t]] = INT3
    BY <2>2 DEF OneThreadInv, Inv, MemInv
  <2>4. QED
    BY <2>2, <2>3 DEF ExecInstr, AtInstr
<1>4. tpc'[t] \in Addrs
  BY DEF ExecInstr, OneThreadInv, Inv, TypeOK, KTypeOK
<1>5. tstate'[t] = "running" \/ (tstate'[t] = "trapped" /\ tstop'[t] = "step")
  BY DEF ExecInstr, Runs, Stop, OneThreadInv, Inv, TypeOK, KTypeOK
<1>6. ProcessState' = "running"
  BY <1>1, <1>2, <1>5 DEF ProcessState, Live
<1>7. NextInstr' \in Addrs /\ SteppingOff' = FALSE
  BY <1>1, <1>2, <1>4, <1>5, <1>6 DEF NextInstr, PastInt3, SteppingOff
<1>8. QED
  BY <1>1, <1>2, <1>3, <1>6, <1>7 DEF Dbg!Execute, Dbg!Next

(* An INT3 is no instruction of the program: it is still before the one    *)
(* that the INT3 replaces.                                                 *)
LEMMA HitInt3Refines ==
  ASSUME OneThreadInv, NEW t \in Tids, HitInt3(t), UNCHANGED svars, taint = "clean"
  PROVE  Dbg!dvars' = Dbg!dvars
<1>1. /\ t = stoppedPid /\ proc # 0 /\ lp # "loop" /\ ProcessState = "running"
      /\ NextInstr = tpc[t] /\ (SteppingOff <=> tstate[t] = "stepping")
  BY RunningView DEF HitInt3
<1>2. UNCHANGED <<taint, proc, lp, stoppedPid, breakpoints>> /\ Set' = Set
  BY DEF svars, pvars, Set
<1>3. tstate[t] # "stepping"
  <2>1. SUFFICES ASSUME tstate[t] = "stepping" PROVE FALSE
    OBVIOUS
  <2>2. lp = "waitStep"
    BY <2>1 DEF OneThreadInv, Inv, StepInv
  <2>3. \A a \in Addrs : mem[a] # INT3
    BY <2>2, AddrsAssumption DEF OneThreadInv, Inv, MemInv, Armed, Text
  <2>4. QED
    BY <2>3 DEF HitInt3, AtInstr
<1>4. tpc[t] \in Nat
  BY AddrsAssumption DEF HitInt3, AtInstr
<1>5. tpc'[t] = tpc[t] + BreakpointSize /\ tstate'[t] = "trapped" /\ tstop'[t] = "bp"
  BY DEF HitInt3, Stop, OneThreadInv, Inv, TypeOK, KTypeOK
<1>6. tpc'[t] - BreakpointSize = tpc[t]
  BY <1>4, <1>5 DEF BreakpointSize
<1>7. ProcessState' = "running"
  BY <1>1, <1>2, <1>5 DEF ProcessState, Live
<1>8. PastInt3'
  BY <1>1, <1>2, <1>5 DEF PastInt3
<1>9. NextInstr' = NextInstr
  BY <1>1, <1>2, <1>6, <1>7, <1>8 DEF NextInstr
<1>10. SteppingOff' = SteppingOff
  BY <1>1, <1>2, <1>3, <1>5 DEF SteppingOff
<1>11. QED
  BY <1>1, <1>2, <1>7, <1>9, <1>10 DEF Dbg!dvars

(* While the client waits for Resume, a step of the server or of the       *)
(* kernel that leaves the thread before the same instruction is not seen.  *)
LEMMA RunningHidden ==
  ASSUME UNCHANGED <<taint, proc, stoppedPid>>, Set' = Set,
         lp # "loop", lp' # "loop",
         Live(stoppedPid), Live(stoppedPid)',
         tstate[stoppedPid] # "stepping", tstate'[stoppedPid] # "stepping",
         UNCHANGED tpc, PastInt3' <=> PastInt3
  PROVE  Dbg!dvars' = Dbg!dvars
<1>1. ProcessState' = ProcessState
  BY DEF ProcessState
<1>2. NextInstr' = NextInstr
  BY <1>1 DEF NextInstr
<1>3. SteppingOff' = SteppingOff
  BY DEF SteppingOff
<1>4. QED
  BY <1>1, <1>2, <1>3 DEF Dbg!dvars

(* Neither is anything that is done with a process that is gone. *)
LEMMA GoneHidden ==
  ASSUME UNCHANGED <<taint, proc, stoppedPid>>, Set' = Set,
         ~Live(stoppedPid), ~Live(stoppedPid)'
  PROVE  Dbg!dvars' = Dbg!dvars
<1>1. ProcessState' = ProcessState /\ ProcessState \in {"failed", "none", "gone"}
  BY DEF ProcessState
<1>2. QED
  BY <1>1 DEF NextInstr, SteppingOff, Dbg!dvars

(* The process ends, stopped or not. *)
LEMMA EndRefines ==
  ASSUME Inv, taint = "clean", UNCHANGED svars, proc # 0, Live(stoppedPid), ~Live(stoppedPid)'
  PROVE  Dbg!Next
<1>1. UNCHANGED <<taint, proc, lp, stoppedPid, procIsUp, breakpoints>> /\ Set' = Set
  BY DEF svars, pvars, Set
<1>2. ProcessState \in {"loaded", "stopped", "running"} /\ ProcessState' = "gone"
  BY <1>1 DEF ProcessState
<1>3. NextInstr' = Entry /\ SteppingOff' = FALSE
  BY <1>2 DEF NextInstr, SteppingOff
<1>4. QED
  BY <1>1, <1>2, <1>3 DEF Dbg!End, Dbg!Next

(* A Resume fails, with the process running or gone. *)
LEMMA FailRefines ==
  ASSUME Inv, taint = "clean", taint' # "clean", lp # "loop", Set' = Set
  PROVE  Dbg!Next
<1>1. proc # 0
  BY DEF Inv, ProcInv
<1>2. ProcessState \in {"running", "gone"} /\ ProcessState' = "failed"
  BY <1>1 DEF ProcessState
<1>3. NextInstr' = Entry /\ SteppingOff' = FALSE
  BY <1>2 DEF NextInstr, SteppingOff
<1>4. QED
  BY <1>2, <1>3 DEF Dbg!Fail, Dbg!Next

(* The steps of the program and of the kernel. *)
LEMMA ProgramRefines ==
  ASSUME OneThreadInv, ~CanClone, MaxSignals = 0, Program, taint = "clean"
  PROVE  [Dbg!Next]_(Dbg!dvars)
<1>1. UNCHANGED <<taint, proc, lp, stoppedPid, procIsUp, breakpoints>> /\ Set' = Set /\ UNCHANGED svars
  BY DEF Program, svars, pvars, Set
<1>2. PICK t \in Tids : \/ ExecStop(t) \/ ExecInstr(t) \/ HitInt3(t) \/ TakeSigstop(t)
                        \/ Signal(t) \/ Clone(t) \/ ThreadExit(t) \/ Exit(t) \/ Die(t)
  BY DEF Program, KNext
<1>3. CASE ExecStop(t)
  <2>1. t = stoppedPid /\ proc # 0
    BY <1>3, LiveThread DEF ExecStop, Live, OneThreadInv
  <2>2. tstate[t] = "starting" /\ tstate'[t] = "trapped" /\ tstop'[t] = "exec" /\ UNCHANGED tpc
    BY <1>3 DEF ExecStop, Stop, OneThreadInv, Inv, TypeOK, KTypeOK
  <2>3. ProcessState' = ProcessState
    BY <1>1, <2>1, <2>2 DEF ProcessState, Live
  <2>4. ~PastInt3 /\ ~PastInt3'
    BY <1>1, <2>1, <2>2 DEF PastInt3
  <2>5. NextInstr' = NextInstr /\ SteppingOff' = SteppingOff
    BY <1>1, <2>1, <2>2, <2>3, <2>4 DEF NextInstr, SteppingOff
  <2>6. QED
    BY <1>1, <2>3, <2>5 DEF Dbg!dvars
<1>4. CASE ExecInstr(t)
  BY <1>1, <1>4, ExecInstrRefines
<1>5. CASE HitInt3(t)
  BY <1>1, <1>5, HitInt3Refines
<1>6. CASE TakeSigstop(t)
  <2>1. t = stoppedPid /\ lp # "loop"
    BY <1>6, RunningView DEF TakeSigstop
  <2>2. tstate[t] = "running"
    BY <1>6 DEF TakeSigstop, Runs, OneThreadInv, Stops, Inv, StepInv
  <2>3. tstate'[t] = "trapped" /\ tstop'[t] = "sigstop" /\ UNCHANGED tpc
    BY <1>6 DEF TakeSigstop, Stop, OneThreadInv, Inv, TypeOK, KTypeOK
  <2>4. ~PastInt3 /\ ~PastInt3' /\ Live(stoppedPid) /\ Live(stoppedPid)'
    BY <1>1, <2>1, <2>2, <2>3 DEF PastInt3, Live
  <2>5. QED
    BY <1>1, <2>1, <2>2, <2>3, <2>4, RunningHidden
<1>7. CASE ThreadExit(t) \/ Exit(t) \/ Die(t)
  <2>1. UNCHANGED <<tpc, tstop>>
    BY <1>7 DEF ThreadExit, Exit, Die
  <2>2. \A u \in Tids : tstate'[u] = tstate[u] \/ ~Live(u)'
    BY <1>7 DEF ThreadExit, Exit, Die, Live, OneThreadInv, Inv, TypeOK, KTypeOK
  <2>3. CASE proc = 0
    <3>1. ProcessState = "none" /\ ProcessState' = "none"
      BY <1>1, <2>3 DEF ProcessState
    <3>2. QED
      BY <1>1, <3>1 DEF NextInstr, SteppingOff, Dbg!dvars
  <2>4. CASE proc # 0 /\ Live(stoppedPid)
    <3>1. CASE ~Live(stoppedPid)'
      BY <1>1, <2>4, <3>1, EndRefines DEF OneThreadInv
    <3>2. CASE Live(stoppedPid)'
      <4>1. stoppedPid \in Tids
        BY <2>4 DEF OneThreadInv, Inv, ProcInv
      <4>2. tstate'[stoppedPid] = tstate[stoppedPid]
        BY <1>1, <2>2, <3>2, <4>1 DEF Live
      <4>3. ProcessState' = ProcessState
        BY <1>1, <4>2 DEF ProcessState, Live
      <4>4. PastInt3' <=> PastInt3
        BY <1>1, <2>1, <4>2 DEF PastInt3
      <4>5. NextInstr' = NextInstr /\ SteppingOff' = SteppingOff
        BY <1>1, <2>1, <4>2, <4>3, <4>4 DEF NextInstr, SteppingOff
      <4>6. QED
        BY <1>1, <4>3, <4>5 DEF Dbg!dvars
    <3>3. QED
      BY <3>1, <3>2
  <2>5. CASE proc # 0 /\ ~Live(stoppedPid)
    <3>1. stoppedPid \in Tids
      BY <2>5 DEF OneThreadInv, Inv, ProcInv
    <3>2. ~Live(stoppedPid)'
      BY <1>1, <2>2, <2>5, <3>1 DEF Live
    <3>3. QED
      BY <1>1, <2>5, <3>2, GoneHidden
  <2>6. QED
    BY <2>3, <2>4, <2>5
<1>8. ~Signal(t) /\ ~Clone(t)
  BY DEF Signal, Clone, OneThreadInv, Inv, TypeOK, KTypeOK
<1>9. QED
  BY <1>2, <1>3, <1>4, <1>5, <1>6, <1>7, <1>8

(* A stop that ends a wait of handleResume is not seen yet. *)
LEMMA WaitForTrapRefines ==
  ASSUME OneThreadInv, NEW t \in Tids, WaitForTrap(t), taint = "clean"
  PROVE  Dbg!dvars' = Dbg!dvars
<1>1. /\ lp \in {"waitUp", "waitStep", "waitTrap"}
      /\ lp' = IF lp = "waitUp" THEN "setOptions" ELSE IF lp = "waitStep" THEN "set" ELSE "liftFinal"
      /\ Set' = Set /\ UNCHANGED <<taint, proc, tpc>>
  BY DEF WaitForTrap, Waiting, Goto, GotoPokes, Set, Report
<1>2. t = stoppedPid
  BY LiveThread DEF WaitForTrap, Live, OneThreadInv
<1>3. stoppedPid' = stoppedPid
  BY <1>2 DEF WaitForTrap
<1>4. tstate[t] = "trapped" /\ tstate'[t] = "held"
  BY DEF WaitForTrap, Report, OneThreadInv, Inv, TypeOK, KTypeOK
<1>5. tstop[t] \in {"exec", "bp", "step"}
  BY DEF WaitForTrap, IsTrap
<1>6. lp = "waitTrap" <=> tstop[t] = "bp"
  BY <1>1, <1>2, <1>4, <1>5 DEF OneThreadInv, Inv, ProcInv, FreshInv, StepInv, RestInv
<1>7. PastInt3' <=> PastInt3
  BY <1>1, <1>2, <1>3, <1>4, <1>6 DEF PastInt3
<1>8. Live(stoppedPid) /\ Live(stoppedPid)'
  BY <1>2, <1>3, <1>4 DEF Live
<1>9. QED
  BY <1>1, <1>2, <1>3, <1>4, <1>7, <1>8, RunningHidden

(* An error return of handleResume is a failure, unless it happened before *)
(* any breakpoint was written: then the process was gone.                  *)
LEMMA ReturnErrorRefines ==
  ASSUME OneThreadInv, ReturnError, UNCHANGED pvars, lp # "loop", taint = "clean",
         lp \in {"waitUp", "setOptions", "waitStep"} => ~Live(stoppedPid) /\ ~Live(stoppedPid)'
  PROVE  [Dbg!Next]_(Dbg!dvars)
<1>1. Set' = Set /\ UNCHANGED <<proc, stoppedPid>>
  BY DEF ReturnError, Set, pvars
<1>2. CASE lp \in {"waitUp", "setOptions", "waitStep"}
  <2>1. taint' = taint
    BY <1>2 DEF ReturnError
  <2>2. QED
    BY <1>1, <1>2, <2>1, GoneHidden
<1>3. CASE lp \notin {"waitUp", "setOptions", "waitStep"}
  <2>1. taint' # "clean"
    BY <1>3 DEF ReturnError
  <2>2. QED
    BY <1>1, <2>1, FailRefines DEF OneThreadInv
<1>4. QED
  BY <1>2, <1>3

(* Resume returns where the program was stopped, at a breakpoint. *)
LEMMA SetRegsRefines ==
  ASSUME OneThreadInv, SetRegs, taint = "clean"
  PROVE  Dbg!Next
<1>1. /\ lp = "setRegs" /\ lp' = "loop" /\ Set' = Set
      /\ UNCHANGED <<taint, proc, stoppedPid, procIsUp, stoppedRip, tstate, tstop>>
  BY DEF SetRegs, SetRip, Set, pvars
<1>2. proc # 0 /\ procIsUp /\ stoppedPid \in Tids
  BY <1>1 DEF OneThreadInv, Inv, ProcInv
<1>3. tstate[stoppedPid] = "held"
  BY <1>1 DEF SetRegs, Stopped, OneThreadInv, Inv, StopInv, HeldLabels
<1>4. stoppedRip = tpc[stoppedPid] - BreakpointSize
  BY <1>1, <1>3 DEF OneThreadInv, Inv, StopInv
<1>5. stoppedRip \in Set
  BY <1>1 DEF OneThreadInv, AtBreakpoint
<1>6. tpc'[stoppedPid] = stoppedRip
  BY <1>2 DEF SetRegs, SetRip, OneThreadInv, Inv, TypeOK, KTypeOK
<1>7. ProcessState = "running" /\ ProcessState' = "stopped"
  BY <1>1, <1>2, <1>3 DEF ProcessState, Live
<1>8. NextInstr = stoppedRip
  BY <1>1, <1>3, <1>4, <1>7 DEF NextInstr, PastInt3
<1>9. NextInstr' = stoppedRip
  BY <1>1, <1>3, <1>6, <1>7 DEF NextInstr, PastInt3
<1>10. SteppingOff = FALSE /\ SteppingOff' = FALSE
  BY <1>3, <1>7 DEF SteppingOff
<1>11. QED
  BY <1>1, <1>5, <1>7, <1>8, <1>9, <1>10 DEF Dbg!Report, Dbg!Next

(* A change of label inside handleResume is not seen. *)
LEMMA LabelHidden ==
  ASSUME OneThreadInv, taint = "clean", lp # "loop", lp' # "loop", Set' = Set,
         UNCHANGED <<tstate, tpc, tstop, taint, proc, stoppedPid>>,
         tstate[stoppedPid] = "held" => (lp \in PastInt3Labels <=> lp' \in PastInt3Labels)
  PROVE  Dbg!dvars' = Dbg!dvars
<1>1. ProcessState' = ProcessState
  BY DEF ProcessState, Live
<1>2. PastInt3' <=> PastInt3
  BY DEF PastInt3, PastInt3Labels
<1>3. NextInstr' = NextInstr /\ SteppingOff' = SteppingOff
  BY <1>1, <1>2 DEF NextInstr, SteppingOff
<1>4. QED
  BY <1>1, <1>3 DEF Dbg!dvars

(* The steps of handleResume. *)
LEMMA ResumeProceedsRefines ==
  ASSUME OneThreadInv, ResumeProceeds, taint = "clean"
  PROVE  [Dbg!Next]_(Dbg!dvars)
<1> USE DEF PastInt3Labels
<1>1. ASSUME NEW t \in Tids, WaitForTrap(t) PROVE Dbg!dvars' = Dbg!dvars
  BY <1>1, WaitForTrapRefines
<1>2. ASSUME NEW t \in Tids, WaitForTrapCont(t) PROVE FALSE
  BY <1>2 DEF WaitForTrapCont, Waiting, IsTrap, OneThreadInv, Stops
<1>3. ASSUME NEW t \in Tids, WaitForTrapGone(t) PROVE [Dbg!Next]_(Dbg!dvars)
  <2>1. lp # "loop" /\ ReturnError /\ UNCHANGED pvars /\ (lp # "waitTrap" => t = stoppedPid)
    BY <1>3 DEF WaitForTrapGone, Waiting
  <2>2. tstate[t] = "zombie" /\ tstate'[t] = "reaped"
    BY <1>3 DEF WaitForTrapGone, Reapable, Report, OneThreadInv, Inv, TypeOK, KTypeOK
  <2>3. stoppedPid' = stoppedPid
    BY <2>1 DEF pvars
  <2>4. lp # "waitTrap" => ~Live(stoppedPid) /\ ~Live(stoppedPid)'
    BY <2>1, <2>2, <2>3 DEF Live
  <2>5. QED
    BY <2>1, <2>4, ReturnErrorRefines
<1>4. ASSUME NEW a \in Addrs, SetBreakpoint(a) \/ LiftBreakpoint(a) PROVE Dbg!dvars' = Dbg!dvars
  <2>1. UNCHANGED <<ProcessState, NextInstr, SteppingOff>>
    BY <1>4, OnlySetSeen DEF SetBreakpoint, LiftBreakpoint, Poke, pvars
  <2>2. QED
    BY <1>4, <2>1 DEF SetBreakpoint, LiftBreakpoint, Set, Dbg!dvars
<1>5. CASE SetOptions
  BY <1>5, LabelHidden DEF SetOptions, Goto, GotoPokes, Set, kvars, pvars
<1>6. CASE SetBreakpointsDone
  BY <1>6, LabelHidden DEF SetBreakpointsDone, Goto, Set, kvars, pvars
<1>7. CASE Cont
  <2>1. /\ lp = "cont" /\ lp' = "waitTrap" /\ Set' = Set
        /\ UNCHANGED <<taint, proc, stoppedPid, tpc>>
    BY <1>7 DEF Cont, Goto, Restart, Set, pvars
  <2>2. stoppedPid \in Tids /\ tstate[stoppedPid] = "held"
    BY <1>7 DEF Cont, Stopped, OneThreadInv, Inv, ProcInv, RestInv
  <2>3. tstate'[stoppedPid] = "running"
    BY <1>7, <2>2 DEF Cont, Restart, OneThreadInv, Inv, TypeOK, KTypeOK
  <2>4. ~PastInt3 /\ ~PastInt3' /\ Live(stoppedPid) /\ Live(stoppedPid)'
    BY <2>1, <2>2, <2>3 DEF PastInt3, Live
  <2>5. QED
    BY <2>1, <2>2, <2>3, <2>4, RunningHidden
<1>8. CASE KillStop
  BY <1>8, LabelHidden DEF KillStop, Goto, Set, pvars
<1>9. CASE WaitStop
  <2>1. /\ lp = "waitStop" /\ lp' = "lift" /\ Set' = Set
        /\ UNCHANGED <<taint, proc, stoppedPid, tpc>>
    BY <1>9 DEF WaitStop, Goto, GotoPokes, Report, Set, pvars
  <2>2. stoppedPid \in Tids
    BY <2>1 DEF OneThreadInv, Inv, ProcInv
  <2>3. tstate[stoppedPid] = "trapped" /\ tstop[stoppedPid] # "bp" /\ tstate'[stoppedPid] = "held"
    BY <1>9, <2>2 DEF WaitStop, Report, OneThreadInv, Inv, TypeOK, KTypeOK
  <2>4. ~PastInt3 /\ ~PastInt3' /\ Live(stoppedPid) /\ Live(stoppedPid)'
    BY <2>1, <2>2, <2>3 DEF PastInt3, Live
  <2>5. QED
    BY <2>1, <2>2, <2>3, <2>4, RunningHidden
<1>10. CASE WaitStopUnexpected
  BY <1>10, ReturnErrorRefines DEF WaitStopUnexpected
<1>11. CASE LiftBreakpointsDone
  BY <1>11, LabelHidden DEF LiftBreakpointsDone, Goto, Set, kvars, pvars
<1>12. CASE ServeDone
  BY <1>12, LabelHidden DEF ServeDone, Goto, GotoPokes, Set, kvars, pvars
<1>13. CASE GetRegs
  BY <1>13, LabelHidden DEF GetRegs, Goto, Set, kvars
<1>14. CASE SetRegs
  BY <1>14, SetRegsRefines
<1>15. CASE PtraceFails
  <2>1. lp \in {"setOptions", "cont", "getRegs", "setRegs", "set", "lift", "liftFinal"}
    BY <1>15 DEF PtraceFails
  <2>2. stoppedPid \in Tids
    BY <2>1 DEF OneThreadInv, Inv, ProcInv
  <2>3. UNCHANGED <<tstate, stoppedPid>>
    BY <1>15 DEF PtraceFails, kvars, pvars
  <2>4. lp = "setOptions" => ~Live(stoppedPid) /\ ~Live(stoppedPid)'
    BY <1>15, <2>2, <2>3 DEF PtraceFails, Stopped, Live, OneThreadInv, Inv, StopInv, HeldLabels
  <2>5. QED
    BY <1>15, <2>1, <2>4, ReturnErrorRefines DEF PtraceFails
<1>16. QED
  BY <1>1, <1>2, <1>3, <1>4, <1>5, <1>6, <1>7, <1>8, <1>9, <1>10, <1>11, <1>12,
     <1>13, <1>14, <1>15
     DEF ResumeProceeds

(* The steps that take or answer a call. *)
LEMMA HandleRefines ==
  ASSUME OneThreadInv, NEW c \in Clients, Send(c) \/ Handle(c), taint = "clean"
  PROVE  [Dbg!Next]_(Dbg!dvars)
<1>1. CASE Send(c) \/ ResumeRefused(c) \/ HandleFrames(c) \/ ServeNext(c)
  <2>1. UNCHANGED <<tstate, tpc, tstop, proc, procIsUp, stoppedPid, lp, taint, breakpoints>>
    BY <1>1 DEF Send, ResumeRefused, HandleFrames, ServeNext, kvars, pvars
  <2>2. UNCHANGED <<ProcessState, NextInstr, SteppingOff>>
    BY <2>1, OnlySetSeen
  <2>3. QED
    BY <2>1, <2>2 DEF Set, Dbg!dvars
<1>2. CASE BreakpointsChanged(c)
  BY <1>2, LabelHidden DEF BreakpointsChanged, Set, kvars, pvars, PastInt3Labels
<1>3. QED
  BY <1>1, <1>2, AddRefines, DeleteRefines, RunRefines, RunFailsRefines, ResumeFirstRefines,
     ResumeStepRefines, ResumeDirectlyRefines
     DEF Handle, OneThreadInv

(* After a failed Resume only the set of breakpoints is seen, and a Run. *)
LEMMA FailedRefines ==
  ASSUME Inv, Next, taint # "clean"
  PROVE  [Dbg!Next]_(Dbg!dvars)
<1>1. CASE \E c \in Clients : HandleBreakpoint(c) \/ HandleDeleteBreakpoints(c) \/ HandleRun(c)
  BY <1>1, AddRefines, DeleteRefines, RunRefines
<1>2. CASE Program
  <2>1. UNCHANGED <<taint, breakpoints>>
    BY <1>2 DEF Program, svars
  <2>2. QED
    BY <2>1, FailedHidden DEF Set
<1>3. CASE ResumeProceeds
  <2>1. taint' = taint /\ breakpoints' = breakpoints
    BY <1>3 DEF ResumeProceeds, WaitForTrap, WaitForTrapCont, WaitForTrapGone, SetBreakpoint,
                LiftBreakpoint, SetOptions, SetBreakpointsDone, Cont, KillStop, WaitStop,
                WaitStopUnexpected, LiftBreakpointsDone, ServeDone, GetRegs, SetRegs,
                PtraceFails, ReturnError, Goto, GotoPokes, svars
  <2>2. QED
    BY <2>1, FailedHidden DEF Set
<1>4. ASSUME NEW c \in Clients,
             \/ Send(c) \/ HandleRunFails(c) \/ ResumeRefused(c) \/ ResumeFirst(c) \/ ResumeStep(c)
             \/ ResumeDirectly(c) \/ HandleFrames(c) \/ BreakpointsChanged(c) \/ ServeNext(c)
      PROVE  [Dbg!Next]_(Dbg!dvars)
  <2>1. taint' = taint /\ breakpoints' = breakpoints
    BY <1>4 DEF Send, HandleRunFails, ResumeRefused, ResumeFirst, ResumeStep, ResumeDirectly,
                HandleFrames, BreakpointsChanged, ServeNext, Accept
  <2>2. QED
    BY <2>1, FailedHidden DEF Set
<1>5. QED
  BY <1>1, <1>2, <1>3, <1>4 DEF Next, Handle

(* The server is the abstract debugger for a program of one thread that    *)
(* receives no signals: through every poke, single step and wait of        *)
(* handleResume no breakpoint is passed unseen, Resume returns at          *)
(* breakpoints alone, and the instruction under the one that it starts     *)
(* from is the first to be executed.                                       *)
THEOREM ServerImplementsDebugger ==
  ASSUME ~CanClone, MaxSignals = 0
  PROVE  Spec => ImplementsDebugger
<1>1. Init => Dbg!Init
  <2>1. SUFFICES ASSUME Init PROVE Dbg!Init
    OBVIOUS
  <2>2. ProcessState = "none"
    BY <2>1 DEF Init, SInit, ProcessState
  <2>3. Set = {}
    BY <2>1 DEF Init, SInit, Set
  <2>4. QED
    BY <2>2, <2>3 DEF Dbg!Init, NextInstr, SteppingOff
<1>2. Init => OneThread /\ AtBreakpoint /\ Stops /\ RunsArmed
  BY DEF Init, KInit, SInit, OneThread, AtBreakpoint, Stops, RunsArmed
<1>3. OneThreadInv /\ [Next]_vars => OneThread' /\ AtBreakpoint' /\ Stops' /\ RunsArmed'
  BY OneThreadKept, AtBreakpointKept, StopsKept, RunsArmedKept DEF OneThreadInv
<1>4. OneThreadInv /\ [Next]_vars => [Dbg!Next]_(Dbg!dvars)
  <2>1. SUFFICES ASSUME OneThreadInv, [Next]_vars PROVE [Dbg!Next]_(Dbg!dvars)
    OBVIOUS
  <2>2. CASE UNCHANGED vars
    <3>1. UNCHANGED <<tstate, tpc, tstop, proc, procIsUp, stoppedPid, lp, taint, breakpoints>>
      BY <2>2 DEF vars, kvars, svars, pvars
    <3>2. QED
      BY <3>1, OnlySetSeen DEF Set, Dbg!dvars
  <2>3. CASE Next /\ taint # "clean"
    BY <2>1, <2>3, FailedRefines DEF OneThreadInv
  <2>4. CASE Next /\ taint = "clean"
    BY <2>1, <2>4, ProgramRefines, ResumeProceedsRefines, HandleRefines DEF Next
  <2>5. QED
    BY <2>1, <2>2, <2>3, <2>4
<1>5. QED
  BY <1>1, <1>2, <1>3, <1>4, Invariance, PTL DEF Spec, OneThreadInv, ImplementsDebugger, Dbg!Spec
=============================================================================
