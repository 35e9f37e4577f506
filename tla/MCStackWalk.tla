---------------------------- MODULE MCStackWalk ----------------------------
(***************************************************************************)
(* The stack walk, on the stacks that calls and returns leave behind, and  *)
(* the list of goroutines, on any few goroutines, for the runtimes of      *)
(* several versions of Go.  Addresses have four bytes of seven bits.       *)
(***************************************************************************)
EXTENDS Integers, Sequences, SequencesExt, FiniteSets, TLC, Input

CONSTANTS MaxSteps,     \* calls and returns of a program
          MaxGs         \* goroutines

At(name, off, type) == [name |-> name, off |-> off, type |-> type]
Integer(k) == [k |-> k, size |-> 4]
Struct(fields) == [k |-> "struct", size |-> 32, fields |-> fields]
Rest(sched) == <<At("goid", 4, "int"), At("sched", 16, sched), At("startpc", 24, "uint"), At("gopc", 28, "uint")>>

WTypes ==
  [int |-> Integer("int"), uint |-> Integer("uint"), void |-> [k |-> "void", size |-> 0],
   char |-> [k |-> "uint", size |-> 1], ptr |-> [k |-> "ptr", size |-> 4, elem |-> "char"],
   string |-> [k |-> "string", size |-> 8, fields |-> <<At("str", 0, "ptr"), At("len", 4, "int")>>],
   slice |-> [k |-> "slice", size |-> 12, elem |-> "ptr",
              fields |-> <<At("array", 0, "ptr"), At("len", 4, "int"), At("cap", 8, "int")>>],
   gobuf |-> Struct(<<At("sp", 0, "uint"), At("pc", 4, "uint")>>),
   newg |-> Struct(<<At("atomicstatus", 0, "uint"), At("waitreason", 8, "string")>> \o Rest("gobuf")),
   oldg |-> Struct(<<At("status", 0, "int"), At("waitreason", 8, "ptr")>> \o Rest("gobuf")),
   oddg |-> [k |-> "typedef", size |-> 32, elem |-> "oddstruct"],
   oddstruct |-> Struct(<<At("status", 0, "uint")>> \o Rest("int"))]

(* Functions: goexit at 10, f at 20 and h at 30; the second instruction of *)
(* each is in its body, where the frame has its full size.                 *)
Entry(tag, name, type, loc) == [tag |-> tag, name |-> name, type |-> type, loc |-> loc]
FVars == <<Entry("FormalParameter", "p", "int", <<156>>),
           Entry("Variable", "v", "int", <<156, 17, 116, 34>>),
           Entry("Variable", "elsewhere", "int", <<3, 0, 1, 0, 0>>),
           Entry("Variable", "w", "int", <<156, 17, 184, 127, 34>>)>>
HVars == <<Entry("Variable", "untyped", "", <<156>>),
           Entry("FormalParameter", "q", "int", <<156, 17, 4, 34>>)>>
VarOffsets == [p |-> 0, v |-> -12, w |-> -72, q |-> 4]
Declared == 10 :> {} @@ 20 :> {"p", "v", "w"} @@ 30 :> {"q"}
Frame == 10 :> 0 @@ 20 :> 8 @@ 30 :> 4     \* the size of a function's locals

WCode == [pc \in {10, 11, 20, 21, 30, 31} |->
            LET start == 10 * (pc \div 10) IN
            [start |-> start, offset |-> 4 + IF pc = start THEN 0 ELSE Frame[start],
             vars |-> IF start = 20 THEN FVars ELSE IF start = 30 THEN HVars ELSE << >>]]

WFunctions == [goexit |-> 10, mstart |-> 40, mcall |-> 41, morestack |-> 42, lessstack |-> 43, _rt0_go |-> 44]

Sym(t, a) == [t |-> t, a |-> a]
PCVars == [goexitPC |-> Sym("uint", 100), mstartPC |-> Sym("uint", 104), mcallPC |-> Sym("uint", 108),
           morestackPC |-> Sym("uint", 112), rt0_goPC |-> Sym("uint", 116)]
Runtimes ==
  [new |-> [g |-> Sym("newg", 0), allgs |-> Sym("slice", 120)] @@ PCVars,
   old |-> [g |-> Sym("oldg", 0), allg |-> Sym("ptr", 120), allglen |-> Sym("int", 124)],
   odd |-> [g |-> Sym("oddg", 0), allg |-> Sym("ptr", 120), allglen |-> Sym("void", 124)]]

Quad(n) == <<n % 128, (n \div 128) % 128, n \div 16384, 0>>
Store(mem, a, bytes) == [x \in a..(a + Len(bytes) - 1) |-> bytes[x - a + 1]] @@ mem

SW == INSTANCE StackWalk WITH
  Mem <- input.mem, Types <- WTypes, Hmaps <- << >>, PointerSize <- 4, MaxString <- 2,
  ByteBits <- 7, BigBits <- 28, BucketCnt <- 2, LoadFactor <- 1, Word <- 32768,
  Code <- WCode, Symbols <- Runtimes[input.runtime], Functions <- WFunctions, ReasonLimit <- 2

PCImage == Store(<< >>, 100, Quad(10) \o Quad(40) \o Quad(41) \o Quad(42) \o Quad(44))

-----------------------------------------------------------------------------
(* Calls and returns: chain holds the active functions, the last called    *)
(* first, with the address that follows each one's return address.         *)
StackTop == 400

StackInit ==
  \E runtime \in {"new", "old"} :
    input = [kind |-> "stack", runtime |-> runtime, mem |-> PCImage, steps |-> 0,
             chain |-> <<[pc |-> 11, sp |-> StackTop - 4, fp |-> StackTop]>>]

InBody == input.chain[1].pc % 10 = 1
Moved(chain, mem) == [input EXCEPT !.chain = chain, !.mem = mem, !.steps = @ + 1]

StackNext ==
  /\ input.kind = "stack" /\ input.steps < MaxSteps
  /\ LET top == input.chain[1]
         size == Frame[10 * (top.pc \div 10)]
     IN \/ /\ InBody
           /\ \E f \in {20, 30} :
                input' = Moved(<<[pc |-> f, sp |-> top.sp - 4, fp |-> top.sp]>> \o input.chain,
                               Store(input.mem, top.sp - 4, Quad(top.pc)))
        \/ /\ ~InBody
           /\ input' = Moved([input.chain EXCEPT ![1].pc = @ + 1, ![1].sp = @ - size], input.mem)
        \/ /\ Len(input.chain) > 1 /\ InBody
           /\ input' = Moved(Tail(input.chain), input.mem)

(* Goroutines.  A class "dead" is not to be reported, "none" is a state    *)
(* that no goroutine should be in.                                         *)
States ==
  {<<0, "Queued">>, <<1, "Queued">>, <<2, "Running">>, <<3, "Blocked">>, <<4, "Blocked">>, <<6, "dead">>,
   <<8, "Running">>, <<9, "none">>, <<4096, "none">>, <<4097, "Queued">>, <<4098, "Running">>,
   <<4100, "Blocked">>, <<4102, "none">>, <<4104, "none">>}
Reasons == {<< >>, <<65>>, <<65, 66>>}

(* above is the word above the frame of goexit, the first of the stack. *)
GsImage(gs, above) ==
  LET G(i) == 2000 + 32 * i
      struct(i) == Quad(gs[i].state[1]) \o Quad(7 + i) \o Quad(3000 + 4 * i) \o Quad(Len(gs[i].reason))
                   \o Quad(4000) \o Quad(21) \o Quad(20) \o Quad(31)
      reasons == [a \in 3004..(3003 + 4 * Len(gs)) |->
                    LET r == gs[(a - 3000) \div 4].reason
                    IN IF a % 4 < Len(r) THEN r[(a % 4) + 1] ELSE 0]
      structs == [a \in 2032..(2031 + 32 * Len(gs)) |-> struct((a - 2000) \div 32)[((a - 2000) % 32) + 1]]
      list == [a \in 1000..(999 + 4 * Len(gs)) |-> Quad(G(((a - 1000) \div 4) + 1))[(a % 4) + 1]]
      stack == Store(<< >>, 4000, Quad(0) \o Quad(0) \o Quad(11) \o Quad(above))
  IN Store(PCImage, 120, Quad(1000) \o Quad(Len(gs)) \o Quad(Len(gs)) \o Quad(0))
     @@ list @@ structs @@ reasons @@ stack

GsInit ==
  \E runtime \in DOMAIN Runtimes, above \in {0, 21} :
    LET gs == IF runtime = "odd" THEN <<[state |-> <<1, "Queued">>, reason |-> << >>]>> ELSE << >>
    IN input = [kind |-> "goroutines", runtime |-> runtime, gs |-> gs, above |-> above,
                mem |-> GsImage(gs, above)]

GsNext ==
  /\ input.kind = "goroutines" /\ Len(input.gs) < MaxGs
  /\ \E state \in States, reason \in Reasons :
       /\ state[1] % 4096 # 4 => reason = << >>
       /\ LET gs == Append(input.gs, [state |-> state, reason |-> reason])
          IN input' = [input EXCEPT !.gs = gs, !.mem = GsImage(gs, input.above)]

-----------------------------------------------------------------------------
(* The frames are the active functions, the last called first, up to the   *)
(* number asked for or the first function of the stack, wherever each one  *)
(* is in its code and whatever earlier calls have left on the stack; and   *)
(* their variables are where their functions keep them.                    *)
WalkIsCallChain ==
  input.kind = "stack" =>
    LET chain == input.chain
        IsFrame(f, c) ==
          LET vars == f.params \o f.vars
          IN /\ <<f.pc, f.sp>> = <<c.pc, c.sp>>
             /\ {vars[j].name : j \in DOMAIN vars} = Declared[f.start]
             /\ \A j \in DOMAIN vars : vars[j].a = c.fp + VarOffsets[vars[j].name]
        IsChain(w, n) ==
          /\ w.err = "" /\ Len(w.frames) = IF n > Len(chain) THEN Len(chain) ELSE n
          /\ \A i \in DOMAIN w.frames : IsFrame(w.frames[i], chain[i])
        Walks(tops) ==
          /\ tops.err = ""
          /\ \A n \in 0..(Len(chain) + 1) :
               IsChain(SW!walkStack(tops.v, chain[1].pc, chain[1].sp, n), n)
    IN Walks(SW!evaluateTopOfStackAddrs)

(* Goroutines lists every goroutine that is not dead, once and in order,   *)
(* with its state, why it waits and, unless it runs, its stack; or it      *)
(* fails, and does so only if some goroutine is in a state that it should  *)
(* not be in.  Before the first Frames, whose walk finds out which         *)
(* functions are the first of a stack, more frames may follow the last.    *)
GoroutinesComplete ==
  input.kind = "goroutines" =>
    LET gs == input.gs
        live == SelectSeq([i \in DOMAIN gs |-> i], LAMBDA i : gs[i].state[2] # "dead")
        IsStack(pcs, tops) ==
          IF tops = << >> THEN IsPrefix(<<21, 11>>, pcs) ELSE pcs = <<21, 11>>
        Describes(r, i, tops) ==
          /\ r.id = 7 + i /\ r.status = gs[i].state[2]
          /\ r.reason = IF input.runtime = "odd" THEN << >> ELSE gs[i].reason
          /\ r.function = 20 /\ r.caller = 30
          /\ IF r.status = "Running" \/ input.runtime = "odd" THEN r.frames = << >>
             ELSE IsStack([j \in DOMAIN r.frames |-> r.frames[j].pc], tops)
        Complete(r, tops) ==
          IF \E i \in DOMAIN gs : gs[i].state[2] = "none" THEN r.err # ""
          ELSE /\ r.err = "" /\ Len(r.v) = Len(live)
               /\ \A j \in DOMAIN live : Describes(r.v[j], live[j], tops)
    IN \A tops \in {<< >>, <<10>>} : Complete(SW!handleGoroutines(tops), tops)
=============================================================================
