----------------------------- MODULE StackWalk -----------------------------
(***************************************************************************)
(* Stack frames and goroutines of the stopped program (server/server.go:   *)
(* walkStack, Frames, Goroutines; server/dwarf.go: evalLocation).          *)
(*                                                                         *)
(* What the line, frame and symbol tables say of a program counter is      *)
(* Code: the function it is in, the offset from the stack pointer to the   *)
(* frame, and the entries that follow the function's, up to the first one  *)
(* with tag 0.  Modules LineMachine, FrameMachine and EntryReader are      *)
(* about how these tables are read.                                        *)
(***************************************************************************)
EXTENDS Values, Leb128

CONSTANTS Code,       \* pc -> [start, offset, vars], for the PCs that are known
          Symbols,    \* name of a variable -> [t, a], its type "" if it has none
          Functions,  \* name of a function -> its first address
          ReasonLimit \* bytes read of a wait reason

opConsts == 17
opPlus == 34
opCallFrameCFA == 156

(* evalLocation: DW_OP_call_frame_cfa, then nothing or an offset to add. *)
evalLocation(v) ==
  LET Offset(s) == IF s.err THEN Fail("truncated sleb128")
                   ELSE IF s.rest = <<opPlus>> THEN OK(s.s)
                   ELSE Fail("unsupported location specifier")
      bytes == SubSeq(v, 3, Len(v))
  IN IF v = << >> THEN Fail("empty location specifier")
     ELSE IF v[1] # opCallFrameCFA THEN Fail("unsupported location specifier")
     ELSE IF Len(v) = 1 THEN OK(0)
     ELSE IF v[2] # opConsts THEN Fail("unsupported location specifier")
     ELSE Offset(sleb128(FoldLeft(sleb128Byte, sleb128Start, bytes), bytes))

(* parseParameterOrLocal *)
parseParameterOrLocal(entry, fp) ==
  IF entry.type = "" THEN Fail("no type")
  ELSE Then(evalLocation(entry.loc), LAMBDA off :
         OK([name |-> entry.name, t |-> entry.type, a |-> fp + off]))

(* The variables with a tag, without those that could not be parsed. *)
Parsed(entries, tag, fp) ==
  LET Good(outs) == SelectSeq(outs, LAMBDA o : o.err = "")
      Values(outs) == [i \in DOMAIN outs |-> outs[i].v]
      tagged == SelectSeq(entries, LAMBDA e : e.tag = tag)
  IN Values(Good([i \in DOMAIN tagged |-> parseParameterOrLocal(tagged[i], fp)]))

topOfStack(tops, funcEntry) == \E i \in DOMAIN tops : tops[i] = funcEntry

(* A faulty variant: the return address is looked for at the frame. *)
ReturnAddressAtFrame(fp) == peekPtr(fp)

(* The return address, below the frame. *)
ReturnAddress(fp) == peekPtr(fp - PointerSize)

(* walkStack: the frames found so far are returned with an error, too. *)
RECURSIVE walkStack(_, _, _, _)
walkStack(tops, pc, sp, count) ==
  LET c == Code[pc]
      fp == sp + c.offset
      frame == [pc |-> pc, sp |-> sp, start |-> c.start,
                params |-> Parsed(c.vars, "FormalParameter", fp),
                vars |-> Parsed(c.vars, "Variable", fp)]
      Caller(ret) == IF ret.err # "" THEN [frames |-> << >>, err |-> ret.err]
                     ELSE walkStack(tops, ret.v, fp, count - 1)
      With(rest) == [frames |-> <<frame>> \o rest.frames, err |-> rest.err]
  IN IF count <= 0 THEN [frames |-> << >>, err |-> ""]
     ELSE IF pc \notin DOMAIN Code THEN [frames |-> << >>, err |-> "no such PC"]
     ELSE With(IF topOfStack(tops, c.start) THEN [frames |-> << >>, err |-> ""]
               ELSE Caller(ReturnAddress(fp)))

(* evaluateTopOfStackAddrs: variables that hold PCs, since Go 1.4, or the  *)
(* functions themselves.                                                   *)
PCVariables == <<"goexitPC", "mstartPC", "mcallPC", "morestackPC", "rt0_goPC">>
TopFunctions == <<"goexit", "mstart", "mcall", "morestack", "lessstack", "_rt0_go">>

evaluateTopOfStackAddrs ==
  LET indirect == "rt0_goPC" \in DOMAIN Symbols
      names == IF indirect THEN PCVariables ELSE TopFunctions
      table == IF indirect THEN DOMAIN Symbols ELSE DOMAIN Functions
      addrs == [i \in DOMAIN names |-> IF indirect THEN peekPtr(Symbols[names[i]].a)
                                                   ELSE OK(Functions[names[i]])]
  IN IF \E i \in DOMAIN names : names[i] \notin table THEN Fail("no such symbol")
     ELSE IF FirstErr(addrs) # "" THEN Fail(FirstErr(addrs))
     ELSE OK([i \in DOMAIN addrs |-> addrs[i].v])

-----------------------------------------------------------------------------
(* The type runtime.g, and its fields. *)
gType == followTypedefs(Symbols["g"].t)
GFields == Types[gType].fields

(* gStatus and gScanStatus, from status 0 on. *)
gStatus == <<"Queued", "Queued", "Running", "Blocked", "Blocked", "invalid", "invalid", "invalid", "Running">>
gScanStatus == <<"invalid", "Queued", "Running", "Blocked", "Blocked", "invalid", "invalid", "Queued">>
Gdead == 6
Gwaiting == 4
Gscan == 4096

(* A faulty variant: the bit of a scan is not looked at. *)
goroutineStatusPlain(status) == IF status < Len(gStatus) THEN gStatus[status + 1] ELSE "invalid"

goroutineStatus(status) ==
  LET scan == Xor(status, Gscan) IN
  IF status < Len(gStatus) THEN gStatus[status + 1]
  ELSE IF scan >= 0 /\ scan < Len(gScanStatus) THEN gScanStatus[scan + 1]
  ELSE "invalid"

(* peekCString: what cannot be read is taken for the end of the string. *)
peekCString(a, limit) ==
  LET ends == {i \in 0..(limit - 1) : IF a + i \in DOMAIN Mem THEN Mem[a + i] = 0 ELSE TRUE}
      n == IF ends = {} THEN limit ELSE CHOOSE i \in ends : \A j \in ends : i <= j
  IN Bytes(a, n)

(* The wait reason of a goroutine, a Go string or a C string; or none. *)
waitreason(g) ==
  LET f == getField(GFields, "waitreason")
      t == followTypedefs(f.v.type)
      C(ptr) == IF ptr.err # "" THEN << >> ELSE peekCString(ptr.v, ReasonLimit)
      Go(s) == IF s.err = "" THEN s.v.str ELSE C(peekPtrStructField(GFields, g, "waitreason"))
  IN IF f.err # "" THEN << >>
     ELSE IF Types[t].k # "string" THEN C(peekPtrStructField(GFields, g, "waitreason"))
     ELSE Go(peekStringBytes(Types[t].fields, g + f.v.off, ReasonLimit))

(* runtime.allglen, whose size is guessed if it has no integer type. *)
allglen ==
  LET l == Symbols["allglen"]
      Guess(short) == IF short.err # "" \/ short.v # 0 THEN short ELSE peekUint(l.a, 8)
  IN IF "allglen" \notin DOMAIN Symbols \/ l.t = "" THEN Fail("no allglen")
     ELSE IF Types[followTypedefs(l.t)].k \in {"int", "uint"} THEN peekUint(l.a, Types[l.t].size)
     ELSE Guess(peekUint(l.a, 4))

(* runtime.allgs; failing that, in whatever way, runtime.allg and allglen. *)
allgs ==
  LET s == Symbols["allgs"]
      t == followTypedefs(s.t)
      old == IF "allg" \notin DOMAIN Symbols THEN Fail("no allg")
             ELSE Then(peekPtr(Symbols["allg"].a), LAMBDA ptr :
                  Then(allglen, LAMBDA len : OK([ptr |-> ptr, len |-> len])))
      New(slice) == IF slice.err # "" THEN old ELSE OK([ptr |-> slice.v.a, len |-> slice.v.len])
  IN IF "allgs" \notin DOMAIN Symbols THEN old
     ELSE IF s.t = "" \/ Types[t].k # "slice" THEN old
     ELSE New(peekSlice(t, s.a))

(* goroutineStackInit and the function it makes: the goroutine's saved PC  *)
(* and SP are fields of its field sched.                                   *)
goroutineStackFrameCount == 10

goroutineStack(tops, g) ==
  LET sched == getField(GFields, "sched")
      s == followTypedefs(sched.v.type)
      pc == getField(Types[s].fields, "pc")
      sp == getField(Types[s].fields, "sp")
      Kind(f) == Types[followTypedefs(f.v.type)]
      Saved(f) == peekUint(g + sched.v.off + f.v.off, Kind(f).size)
      ok == sched.err = "" /\ Types[s].k = "struct" /\ pc.err = "" /\ sp.err = ""
              /\ Kind(pc).k \in {"int", "uint"} /\ Kind(sp).k \in {"int", "uint"}
      Walked(p, q) == IF p.err # "" \/ q.err # "" THEN << >>
                      ELSE walkStack(tops, p.v, q.v, goroutineStackFrameCount).frames
  IN IF ~ok THEN << >>
     ELSE Walked(Saved(pc), Saved(sp))

functionName(g, name) ==
  LET Of(pc) == IF pc.err # "" \/ pc.v \notin DOMAIN Code THEN 0 ELSE Code[pc.v].start
  IN Of(peekIntegerStructField(GFields, g, name, "uint"))

(* atomicstatus, or status in older runtimes. *)
statusOf(g) ==
  LET Of(atomic) == IF atomic.err = "" THEN atomic ELSE peekLenStructField(GFields, g, "status")
  IN Of(peekIntegerStructField(GFields, g, "atomicstatus", "uint"))

(* What is reported of a goroutine, of a class that its status stands for. *)
reported(tops, g, status, class) ==
  Then(peekIntegerStructField(GFields, g, "goid", "int"), LAMBDA goid :
    OK({[id |-> goid, status |-> class,
         reason |-> IF status \in {Gwaiting, Gscan + Gwaiting} THEN waitreason(g) ELSE << >>,
         function |-> functionName(g, "startpc"), caller |-> functionName(g, "gopc"),
         frames |-> IF class = "Running" THEN << >> ELSE goroutineStack(tops, g)]}))

(* One goroutine: none if it is dead. *)
goroutine(tops, i, ptr) ==
  Then(peekPtr(ptr + i * PointerSize), LAMBDA g :
  Then(statusOf(g), LAMBDA status :
    IF status = Gdead THEN OK({})
    ELSE IF goroutineStatus(status) = "invalid" THEN Fail("unexpected goroutine status")
    ELSE reported(tops, g, status, goroutineStatus(status))))

(* handleGoroutines: the first goroutine that cannot be read is an error.  *)
RECURSIVE goroutinesFrom(_, _, _)
goroutinesFrom(tops, i, all) ==
  IF i = all.len THEN OK(<< >>)
  ELSE Then(goroutine(tops, i, all.ptr), LAMBDA g :
       Then(goroutinesFrom(tops, i + 1, all), LAMBDA rest :
         OK(SetToSeq(g) \o rest)))

handleGoroutines(tops) ==
  IF "g" \notin DOMAIN Symbols THEN Fail("no runtime.g")
  ELSE IF Types[gType].k # "struct" THEN Fail("runtime.g is not a struct")
  ELSE Then(allgs, LAMBDA all : goroutinesFrom(tops, 0, all))
=============================================================================
