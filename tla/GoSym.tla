-------------------------------- MODULE GoSym --------------------------------
(***************************************************************************)
(* The Go symbol tables of package gosym: the line table since Go 1.2      *)
(* (gosym/pclntab.go), the tables of Go 1.1 and earlier, and the table of  *)
(* symbols (gosym/symtab.go).                                              *)
(*                                                                         *)
(* The varints of a table are a sequence of numbers.  An index out of      *)
(* range panics; the functions whose names begin with go12 recover and     *)
(* return the value that stands for "not found".                           *)
(***************************************************************************)
EXTENDS Integers, Sequences, SequencesExt, FiniteSetsExt, TLC

CONSTANTS Functab,   \* the functions, by address: [entry, name, frame, file, line, sp], tables of varints
          TextEnd,   \* the last word of the function table
          Filetab,   \* file names, by number from 1
          Quantum

(* step: the next pair of a table of deltas; a zero delta ends the table,  *)
(* except as the first one.  Signs are in the lowest bit.  What follows a  *)
(* table, which would be read by a step after its end, is left out.        *)
Stepped(s, entry) ==
  LET first == s.pc = entry
      uv == s.p[1]
      delta == IF uv % 2 = 1 THEN -(uv \div 2) - 1 ELSE uv \div 2
  IN IF s.p = << >> THEN [s EXCEPT !.end = "panic"]
     ELSE IF uv = 0 /\ ~first THEN [s EXCEPT !.end = "end", !.p = Tail(@)]
     ELSE IF Len(s.p) = 1 THEN [s EXCEPT !.end = "panic"]
     ELSE [p |-> SubSeq(s.p, 3, Len(s.p)), pc |-> s.pc + s.p[2] * Quantum, val |-> s.val + delta, end |-> ""]

Start(table, entry) == [p |-> table, pc |-> entry, val |-> -1, end |-> ""]

(* pcvalue: the value that is in effect at the target. *)
RECURSIVE valueAt(_, _, _)
valueAt(s, entry, target) ==
  LET n == Stepped(s, entry) IN
  IF n.end # "" THEN -1
  ELSE IF target < n.pc THEN n.val
  ELSE valueAt(n, entry, target)

pcvalue(table, entry, target) == IF table = << >> THEN -1 ELSE valueAt(Start(table, entry), entry, target)

EndOf(i) == IF i = Len(Functab) THEN TextEnd ELSE Functab[i + 1].entry

(* findFunc: a binary search among n functions from lo on; 0 is not found. *)
RECURSIVE search(_, _, _)
search(pc, lo, n) ==
  LET m == n \div 2 IN
  IF n = 0 THEN 0
  ELSE IF Functab[lo + m].entry <= pc /\ pc < EndOf(lo + m) THEN lo + m
  ELSE IF pc < Functab[lo + m].entry THEN search(pc, lo, m)
  ELSE search(pc, lo + m + 1, n - (m + 1))

findFunc(pc) ==
  IF Functab = << >> THEN 0
  ELSE IF pc < Functab[1].entry \/ pc >= TextEnd THEN 0
  ELSE search(pc, 1, Len(Functab))

go12PCToLine(pc) == LET f == findFunc(pc) IN IF f = 0 THEN -1 ELSE pcvalue(Functab[f].line, Functab[f].entry, pc)
go12PCToSPAdj(pc) == LET f == findFunc(pc) IN IF f = 0 THEN -1 ELSE pcvalue(Functab[f].sp, Functab[f].entry, pc)

go12PCToFile(pc) ==
  LET f == findFunc(pc)
      fno == pcvalue(Functab[f].file, Functab[f].entry, pc)
  IN IF f = 0 THEN "" ELSE IF fno \notin DOMAIN Filetab THEN "" ELSE Filetab[fno]

(* A faulty variant: a line that began before the file is passed over. *)
matchLateLine(fileStart, lineStart, linePC) == IF fileStart <= lineStart THEN lineStart ELSE 0

(* findFileLine: the table of lines is run only over the ranges of PCs of  *)
(* the file, and goes on where the range before it has left it.            *)
matchLine(fileStart, lineStart, linePC) ==
  IF fileStart <= lineStart THEN lineStart ELSE IF fileStart < linePC THEN fileStart ELSE 0

RECURSIVE scanLines(_, _, _, _, _)
scanLines(fl, entry, fileStart, filePC, line) ==
  LET n == Stepped(fl, entry)
      found == IF n.val = line THEN matchLine(fileStart, fl.pc, n.pc) ELSE 0
  IN IF fl.pc >= filePC THEN [fl |-> fl, found |-> 0]
     ELSE IF n.end # "" THEN [fl |-> n, found |-> 0]
     ELSE IF found # 0 THEN [fl |-> n, found |-> found]
     ELSE scanLines(n, entry, fileStart, filePC, line)

RECURSIVE scanFiles(_, _, _, _, _)
scanFiles(fp, fl, entry, filenum, line) ==
  LET n == Stepped(fp, entry)
      Scanned(r) ==
        IF r.fl.end = "panic" THEN [found |-> 0, panic |-> TRUE]
        ELSE IF r.found # 0 THEN [found |-> r.found, panic |-> FALSE]
        ELSE scanFiles(n, [r.fl EXCEPT !.end = ""], entry, filenum, line)
  IN IF n.end # "" THEN [found |-> 0, panic |-> n.end = "panic"]
     ELSE Scanned(IF n.val = filenum /\ fp.pc < n.pc THEN scanLines(fl, entry, fp.pc, n.pc, line)
                                                     ELSE [fl |-> fl, found |-> 0])

findFileLine(f, filenum, line) ==
  IF f.file = << >> \/ f.line = << >> THEN [found |-> 0, panic |-> FALSE]
  ELSE scanFiles(Start(f.file, f.entry), Start(f.line, f.entry), f.entry, filenum, line)

(* go12LineToPC, with the number that initFileMap gives a file: its last.  *)
RECURSIVE inFuncs(_, _, _)
inFuncs(i, filenum, line) ==
  LET Searched(r) == IF r.panic \/ r.found # 0 THEN r.found ELSE inFuncs(i + 1, filenum, line)
  IN IF i > Len(Functab) THEN 0 ELSE Searched(findFileLine(Functab[i], filenum, line))

go12LineToPC(file, line) ==
  LET numbers == {i \in DOMAIN Filetab : Filetab[i] = file} IN
  IF numbers = {} THEN 0 ELSE inFuncs(1, Max(numbers), line)

-----------------------------------------------------------------------------
(* The table of lines of Go 1.1: codes 1..64 and 65..128 change the line   *)
(* and move the PC by one, larger ones move the PC, and 0 is followed by a *)
(* large change of the line.                                               *)
RECURSIVE parse(_, _, _)
parse(t, targetPC, targetLine) ==
  LET code == Head(t.data)
      rest == Tail(t.data)
      Lines(n, data) == [data |-> data, pc |-> t.pc + 1, line |-> t.line + n]
  IN IF t.pc > targetPC \/ t.line = targetLine \/ t.data = << >> THEN t
     ELSE parse(IF code = 0 THEN IF rest = << >> THEN Lines(0, << >>) ELSE Lines(Head(rest), Tail(rest))
                ELSE IF code <= 64 THEN Lines(code, rest)
                ELSE IF code <= 128 THEN Lines(64 - code, rest)
                ELSE [data |-> rest, pc |-> t.pc + (code - 128), line |-> t.line],
                targetPC, targetLine)

slice(t, pc) == parse(t, pc, -1)
oldPCToLine(t, pc) == parse(t, pc, -1).line
oldLineToPC(t, line, maxpc) ==
  LET r == parse(t, maxpc, line) IN IF r.line # line THEN 0 ELSE r.pc - 1

(* lineFromAline: paths are pushed when a file begins, popped at its end;  *)
(* a pop of the empty stack returns at once.                               *)
RECURSIVE walkPaths(_, _, _)
walkPaths(paths, aline, stack) ==
  LET s == Head(paths)
      popped == [i \in 1..(Len(stack) - 1) |->
                   IF i = 1 THEN [stack[2] EXCEPT !.offset = @ + s.val - stack[1].start] ELSE stack[i + 1]]
      entry == [path |-> s.name, start |-> s.val, offset |-> 0]
      top == Head(stack)
  IN IF paths # << >> /\ s.val <= aline
     THEN IF s.val = 1 THEN walkPaths(Tail(paths), aline, <<entry>>)
          ELSE IF s.name # "" THEN walkPaths(Tail(paths), aline, <<entry>> \o stack)
          ELSE IF stack = << >> THEN <<"<malformed symbol table>", 0>>
          ELSE walkPaths(Tail(paths), aline, popped)
     ELSE IF stack = << >> THEN <<"", 0>>
     ELSE <<top.path, aline - top.start - top.offset + 1>>

lineFromAline(paths, aline) == walkPaths(paths, aline, << >>)

(* alineFromLine: 0 if the line is not found. *)
RECURSIVE atDepth(_, _, _, _)
atDepth(paths, line, depth, incstart) ==
  LET s == Head(paths) IN
  IF paths = << >> THEN 0
  ELSE IF depth = 1 /\ s.val >= line THEN line - 1
  ELSE IF s.name = ""
  THEN IF depth = 1 THEN 0
       ELSE atDepth(Tail(paths), IF depth = 2 THEN line + s.val - incstart ELSE line, depth - 1, incstart)
  ELSE atDepth(Tail(paths), line, depth + 1, IF depth = 1 THEN s.val ELSE incstart)

alineFromLine(paths, path, line) ==
  LET at == {i \in DOMAIN paths : paths[i].name = path} IN
  IF line < 1 \/ at = {} THEN 0
  ELSE atDepth(SubSeq(paths, Min(at), Len(paths)), line + paths[Min(at)].val, 0, 0)
-----------------------------------------------------------------------------
(* NewTable.  A symbol has a type, a value and a name; "T" stands for the  *)
(* types of text symbols, "Z" for those of path symbols.  The table being  *)
(* built has the number of its text symbols, whether the last symbol is a  *)
(* path, the depth of the paths, whether the last function is still open   *)
(* to symbols, the line table that the next function cuts, and the number  *)
(* of functions that are not of the last object.                           *)
newTable(pcln) ==
  [go12 |-> pcln.go12, funcs |-> << >>, lastf |-> 0, nf |-> 0, pcln |-> pcln,
   path |-> FALSE, depth |-> 0, open |-> FALSE,
   objs |-> IF pcln.go12 THEN <<[paths |-> << >>, funcs |-> << >>]>> ELSE << >>,
   files |-> IF pcln.go12 THEN [name \in Range(Filetab) |-> 1] ELSE << >>]

(* The functions since the last object began become its functions. *)
finishObj(t) ==
  LET n == Len(t.objs) IN
  IF n = 0 THEN t
  ELSE [t EXCEPT !.objs[n].funcs = [i \in 1..(Len(t.funcs) - t.lastf) |-> t.lastf + i]]

startObj(t) ==
  LET u == finishObj(t) IN
  [u EXCEPT !.lastf = Len(t.funcs), !.depth = 0, !.objs = Append(@, [paths |-> << >>, funcs |-> << >>])]

(* A faulty variant: paths do not end the symbols of a function. *)
pathSymbolStaysOpen(t, s) ==
  LET u == IF t.path THEN t ELSE startObj(t)
      n == Len(u.objs)
  IN IF t.go12 THEN t
     ELSE [u EXCEPT !.path = TRUE, !.objs[n].paths = Append(@, s),
                    !.files = IF s.name # "" /\ u.depth = 0 THEN (s.name :> n) @@ @ ELSE @,
                    !.depth = IF s.name = "" THEN @ - 1 ELSE @ + 1]

(* The first of a run of path symbols starts an object; a name that is not *)
(* inside another is a file of the table.                                  *)
pathSymbol(t, s) ==
  LET u == IF t.path THEN t ELSE startObj(t)
      n == Len(u.objs)
  IN IF t.go12 THEN [t EXCEPT !.open = FALSE]
     ELSE [u EXCEPT !.path = TRUE, !.open = FALSE, !.objs[n].paths = Append(@, s),
                    !.files = IF s.name # "" /\ u.depth = 0 THEN (s.name :> n) @@ @ ELSE @,
                    !.depth = IF s.name = "" THEN @ - 1 ELSE @ + 1]

(* A text symbol ends the function before it and, but for etext, begins    *)
(* one, of the last object (0 if there is none).                           *)
textSymbol(t, i, s) ==
  LET n == Len(t.funcs)
      table == IF t.go12 THEN t.pcln ELSE slice(t.pcln, s.val)
      fn == [sym |-> i, name |-> s.name, entry |-> s.val, end |-> 0, params |-> << >>, locals |-> << >>,
             frame |-> 0, table |-> table, obj |-> Len(t.objs)]
      u == [t EXCEPT !.nf = @ + 1, !.path = FALSE, !.open = s.name # "etext",
                     !.funcs = IF n = 0 THEN @ ELSE [@ EXCEPT ![n].end = s.val]]
  IN IF s.name = "etext" THEN u ELSE [u EXCEPT !.pcln = table, !.funcs = Append(@, fn)]

(* Other symbols: the parameters, locals and frame of an open function. *)
ownSymbol(t, i, s) ==
  LET n == Len(t.funcs)
      u == [t EXCEPT !.path = FALSE]
  IN IF ~t.open THEN u
     ELSE IF s.type = "m" THEN [u EXCEPT !.funcs[n].frame = s.val]
     ELSE IF s.type = "p" THEN [u EXCEPT !.funcs[n].params = Append(@, i)]
     ELSE IF s.type = "a" THEN [u EXCEPT !.funcs[n].locals = Append(@, i)]
     ELSE u

go12Funcs(pcln) ==
  [i \in DOMAIN Functab |->
     [sym |-> 0, name |-> Functab[i].name, entry |-> Functab[i].entry, end |-> EndOf(i),
      params |-> << >>, locals |-> << >>, frame |-> Functab[i].frame, table |-> pcln, obj |-> 0]]

NewTable(syms, pcln) ==
  LET Add(t, i) == IF syms[i].type = "Z" THEN pathSymbol(t, syms[i])
                   ELSE IF syms[i].type = "T" THEN textSymbol(t, i, syms[i])
                   ELSE ownSymbol(t, i, syms[i])
      t == FoldLeft(Add, newTable(pcln), [i \in DOMAIN syms |-> i])
  IN finishObj(IF t.go12 /\ t.nf = 0 THEN [t EXCEPT !.funcs = go12Funcs(pcln)] ELSE t)

(* PCToFunc: a binary search; 0 if no function is found. *)
RECURSIVE searchFuncs(_, _, _, _)
searchFuncs(funcs, pc, lo, n) ==
  LET m == n \div 2
      f == funcs[lo + m]
  IN IF n = 0 THEN 0
     ELSE IF pc < f.entry THEN searchFuncs(funcs, pc, lo, m)
     ELSE IF pc < f.end THEN lo + m
     ELSE searchFuncs(funcs, pc, lo + m + 1, n - (m + 1))

PCToFunc(t, pc) == searchFuncs(t.funcs, pc, 1, Len(t.funcs))

(* A file, a line and a function. *)
PCToLine(t, pc) ==
  LET fn == PCToFunc(t, pc) IN
  IF fn = 0 THEN <<"", 0, 0>>
  ELSE IF t.go12 THEN <<go12PCToFile(pc), go12PCToLine(pc), fn>>
  ELSE Append(lineFromAline(t.objs[t.funcs[fn].obj].paths, oldPCToLine(t.funcs[fn].table, pc)), fn)

PCToSPAdj(t, pc) == IF PCToFunc(t, pc) = 0 \/ ~t.go12 THEN 0 ELSE go12PCToSPAdj(pc)

(* A PC and a function; a PC of 0 stands for an error. *)
LineToPC(t, file, line) ==
  LET fns == t.objs[t.files[file]].funcs
      aline == alineFromLine(t.objs[t.files[file]].paths, file, line)
      pcs == [i \in DOMAIN fns |-> oldLineToPC(t.funcs[fns[i]].table, aline, t.funcs[fns[i]].end)]
      found == {i \in DOMAIN fns : pcs[i] # 0}
      pc12 == go12LineToPC(file, line)
  IN IF file \notin DOMAIN t.files THEN <<0, 0>>
     ELSE IF t.go12 THEN <<pc12, IF pc12 = 0 THEN 0 ELSE PCToFunc(t, pc12)>>
     ELSE IF aline = 0 \/ found = {} THEN <<0, 0>>
     ELSE <<pcs[Min(found)], fns[Min(found)]>>
=============================================================================
