------------------------------ MODULE MCGoSym ------------------------------
(***************************************************************************)
(* The Go symbol tables of every small program, given as the file and the  *)
(* line of each of its instructions, and of every small list of symbols.   *)
(***************************************************************************)
EXTENDS Integers, Sequences, FiniteSets, Input

CONSTANTS MaxCode,      \* instructions of a program
          MaxSyms,      \* symbols of a table
          MaxAline      \* lines of an object of Go 1.1

CodeStart == 3
FileNames == <<"x.go", "y.go">>

(* What the linker writes for the instructions r[1]..r[2]: for each run of *)
(* equal values its difference from the last one, and its length.          *)
RECURSIVE Encode(_, _, _, _)
Encode(code, Val(_), r, last) ==
  IF r[1] > r[2] THEN <<0>>
  ELSE LET v == Val(code[r[1]])
           others == {k \in r[1]..r[2] : Val(code[k]) # v}
           next == IF others = {} THEN r[2] + 1 ELSE CHOOSE k \in others : \A l \in others : k <= l
           zig == IF v < last THEN 2 * (last - v) - 1 ELSE 2 * (v - last)
       IN <<zig, next - r[1]>> \o Encode(code, Val, <<next, r[2]>>, v)

File(c) == c.file
Line(c) == c.line
SPAdj(c) == 8 * (c.line - 1)
Firsts(code) == SelectSeq([i \in DOMAIN code |-> i], LAMBDA i : code[i].first)
LastOf(code, k) == IF k = Len(Firsts(code)) THEN Len(code) ELSE Firsts(code)[k + 1] - 1
FuncsOf(code) ==
  [k \in DOMAIN Firsts(code) |->
     LET r == <<Firsts(code)[k], LastOf(code, k)>> IN
     [entry |-> CodeStart + r[1] - 1, name |-> "f", frame |-> 0, sp |-> Encode(code, SPAdj, r, -1),
      file |-> Encode(code, File, r, -1), line |-> Encode(code, Line, r, -1)]]

(* Instruction i is at CodeStart + i - 1 and begins a function if first. *)
CodeInit == input = [kind |-> "code", code |-> << >>, functab |-> << >>]
CodeNext ==
  /\ input.kind = "code" /\ Len(input.code) < MaxCode
  /\ \E file \in 1..2, line \in 1..2, first \in BOOLEAN :
       LET code == Append(input.code, [file |-> file, line |-> line, first |-> first]) IN
       /\ input.code = << >> => first
       /\ input' = [input EXCEPT !.code = code, !.functab = FuncsOf(code)]

G == INSTANCE GoSym WITH
  Functab <- IF input.kind = "code" THEN input.functab ELSE << >>,
  TextEnd <- IF input.kind = "code" THEN CodeStart + Len(input.code) ELSE 0,
  Filetab <- FileNames, Quantum <- 1

TextSym(k) == [type |-> "T", val |-> input.functab[k].entry, name |-> "f"]
Etext == [type |-> "T", val |-> CodeStart + Len(input.code), name |-> "etext"]

(* Without symbols, the functions of Go 1.2 are those of the line table. *)
Go12Tables == {G!NewTable(syms, [go12 |-> TRUE]) : syms \in {<< >>, Append([k \in DOMAIN input.functab |-> TextSym(k)], Etext)}}

(* The table of Go 1.1 with the same lines: an object per file. *)
RECURSIVE EncodeOld(_, _, _)
EncodeOld(i, pc, line) ==
  IF i > Len(input.code) THEN << >>
  ELSE LET l == input.code[i].line
           at == CodeStart + i - 1
       IN IF l = line THEN EncodeOld(i + 1, pc, line)
          ELSE (IF at = pc THEN << >> ELSE <<128 + at - pc>>)
               \o <<IF l > line THEN l - line ELSE 64 + line - l>> \o EncodeOld(i + 1, at + 1, l)
OldPcln == [go12 |-> FALSE, data |-> EncodeOld(1, CodeStart, 0), pc |-> CodeStart, line |-> 0]

PathSyms(file) == <<[type |-> "Z", val |-> 1, name |-> FileNames[file]], [type |-> "Z", val |-> 3, name |-> ""]>>
RECURSIVE OldSyms(_)
OldSyms(k) ==
  IF k > Len(input.functab) THEN <<Etext>>
  ELSE LET FileOf(l) == input.code[input.functab[l].entry - CodeStart + 1].file
           file == FileOf(k)
       IN
       (IF k > 1 /\ FileOf(k - 1) = file THEN << >> ELSE PathSyms(file))
       \o <<TextSym(k)>> \o OldSyms(k + 1)
OldTable == G!NewTable(OldSyms(1), OldPcln)

(* Each file has its functions together, and each of them begins on        *)
(* another line than the one before it ended on.                           *)
IsOldCode ==
  /\ input.kind = "code" /\ input.code # << >>
  /\ \A i \in 2..Len(input.code) :
       /\ input.code[i].file # input.code[i - 1].file => input.code[i].first /\ input.code[i].file = 2
       /\ input.code[i].first => input.code[i].line # input.code[i - 1].line

(* Symbols. *)
SymsInit == input = [kind |-> "syms", syms |-> << >>, pc |-> 1]
SymsNext ==
  /\ input.kind = "syms" /\ Len(input.syms) < MaxSyms
  /\ \E type \in {"T", "p", "a", "m", "Z"}, name \in {"f", "etext", ""} :
       /\ name = "etext" => type = "T"
       /\ name = "" => type = "Z"
       /\ input' = [input EXCEPT !.syms = Append(@, [type |-> type, val |-> input.pc, name |-> name]),
                                 !.pc = @ + 1]

(* Files that include others, as their path symbols say. *)
PathsInit == input = [kind |-> "paths", paths |-> <<[name |-> "a", val |-> 1]>>, depth |-> 1]
PathsNext ==
  /\ input.kind = "paths" /\ input.depth > 0
  /\ \E name \in {"b", "c", "d", ""}, val \in 2..MaxAline :
       /\ val > input.paths[Len(input.paths)].val
       /\ \A i \in DOMAIN input.paths : name = "" \/ input.paths[i].name # name
       /\ input' = [input EXCEPT !.paths = Append(@, [name |-> name, val |-> val]),
                                 !.depth = IF name = "" THEN @ - 1 ELSE @ + 1]

-----------------------------------------------------------------------------
PCOf(i) == CodeStart + i - 1
OnLine(file, line) == {i \in DOMAIN input.code : input.code[i].file = file /\ input.code[i].line = line}

IsFirst(pc, on) == \E i \in on : pc = PCOf(i) /\ \A j \in on : i <= j

(* The file, line and function of each PC are those of its instruction,    *)
(* and a PC outside the text has none.                                     *)
LinesOf(t) ==
  /\ \A i \in DOMAIN input.code :
       LET l == G!PCToLine(t, PCOf(i)) IN
       /\ l[1] = FileNames[input.code[i].file] /\ l[2] = input.code[i].line
       /\ Firsts(input.code)[l[3]] <= i /\ i <= LastOf(input.code, l[3])
  /\ \A pc \in {CodeStart - 1, PCOf(Len(input.code)) + 1} : G!PCToLine(t, pc) = <<"", 0, 0>>

(* In a table of Go 1.2, each PC has the file, line, stack adjustment and  *)
(* function that the linker gave it; each line of a file has the first of  *)
(* its PCs, and one without code has none, in whatever order files and     *)
(* lines alternate.                                                        *)
LineTableExact ==
  input.kind = "code" =>
    \A t \in Go12Tables :
      /\ LinesOf(t)
      /\ \A i \in DOMAIN input.code : G!PCToSPAdj(t, PCOf(i)) = SPAdj(input.code[i])
      /\ \A file, line \in 1..2 :
           LET r == G!LineToPC(t, FileNames[file], line)
               on == OnLine(file, line)
           IN IF on = {} THEN r = <<0, 0>> ELSE IsFirst(r[1], on) /\ r[2] = G!PCToFunc(t, r[1])

OldLineFound(t, file, line) ==
  LET r == G!LineToPC(t, FileNames[file], line)
      fn == t.funcs[r[2]]
      on == OnLine(file, line)
  IN /\ on # {} => IsFirst(r[1], on)
     /\ r[1] # 0 => /\ fn.entry <= r[1] /\ r[1] <= fn.end
                    /\ r[1] = fn.end \/ \E i \in on : r[1] = PCOf(i)
                    /\ \E i \in DOMAIN input.code : PCOf(i) = r[1] /\ input.code[i].line = line

(* In a table of Go 1.1, cut at the beginning of each function, each PC    *)
(* has its file, line and function; a line that has code has the first of  *)
(* its PCs.  The PC found is on the line and in the function returned, or  *)
(* is the end of that function: LineToPC of a line table considers maxpc   *)
(* too, although its comment (pclntab.go:103-104) says "only program       *)
(* counters before maxpc".  In the second case the line may be in the next *)
(* object.                                                                 *)
OldTableExact ==
  IsOldCode =>
    \A t \in {OldTable} : LinesOf(t) /\ \A file, line \in 1..2 : OldLineFound(t, file, line)

(* PCToFunc finds the function that holds a PC, up to the symbol etext,    *)
(* and none outside; a parameter, a local or a frame size belongs to the   *)
(* function whose symbol comes last before it, if no path symbol comes     *)
(* between; a function is of the object whose path symbols come last       *)
(* before it, and of no other.                                             *)
FunctionsOfSymbols ==
  input.kind = "syms" =>
    LET syms == input.syms
        Before(j, types) == {i \in 1..(j - 1) : syms[i].type \in types}
        Owner(j) == {i \in Before(j, {"T", "Z"}) : Before(j, {"T", "Z"}) \subseteq 1..i}
        text == {i \in DOMAIN syms : syms[i].type = "T"}
        Finds(funcs, f, pc) ==
          LET holds == {i \in text : syms[i].val <= pc /\ \E j \in text : pc < syms[j].val}
              last == CHOOSE i \in holds : \A j \in holds : j <= i
          IN IF holds = {} THEN f = 0
             ELSE IF syms[last].name # "etext" THEN f # 0 /\ funcs[f].sym = last
             ELSE f = 0 \/ \E i \in holds : funcs[f].sym = i
        Owned(type, fn) == {j \in DOMAIN syms : syms[j].type = type /\ fn.sym \in Owner(j)}
        Elements(seq) == {seq[i] : i \in DOMAIN seq}
        Sizes(fn) == {syms[j].val : j \in Owned("m", fn)}
        OfObject(t, k) ==
          LET fn == t.funcs[k]
              paths == Before(fn.sym, {"Z"})
          IN /\ \A o \in DOMAIN t.objs : k \in Elements(t.objs[o].funcs) <=> o = fn.obj
             /\ IF paths = {} THEN fn.obj = 0
                ELSE \A i \in paths : (\A j \in paths : j <= i) => syms[i] \in Elements(t.objs[fn.obj].paths)
        Right(t) ==
          /\ \A pc \in 0..input.pc : Finds(t.funcs, G!PCToFunc(t, pc), pc)
          /\ \A k \in DOMAIN t.funcs :
               LET fn == t.funcs[k] IN
               /\ Elements(fn.params) = Owned("p", fn) /\ Elements(fn.locals) = Owned("a", fn)
               /\ IF Sizes(fn) = {} THEN fn.frame = 0
                  ELSE fn.frame \in Sizes(fn) /\ \A v \in Sizes(fn) : v <= fn.frame
               /\ OfObject(t, k)
    IN Right(G!NewTable(syms, [go12 |-> FALSE, data |-> << >>, pc |-> 0, line |-> 0]))

(* In an object of Go 1.1, the absolute line of a line of a file is again  *)
(* that line of that file.                                                 *)
AlinesInvert ==
  input.kind = "paths" /\ input.depth = 0 =>
    \A path \in {"a", "b", "c", "d"}, line \in 1..MaxAline :
      LET aline == G!alineFromLine(input.paths, path, line) IN
      aline # 0 => G!lineFromAline(input.paths, aline) = <<path, line>>

(* PCs, lines and files convert into each other without loss. *)
GoLinesExact == LineTableExact /\ OldTableExact /\ AlinesInvert
=============================================================================
