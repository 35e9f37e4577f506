------------------------------ MODULE BestFile ------------------------------
(***************************************************************************)
(* How LineToPCs of dwarf/line.go chooses the file of the line table that  *)
(* a request "file:line" means.  What Go's strings package says of names   *)
(* is given by the operators Split, HasPrefix and Length.                  *)
(*                                                                         *)
(* A step is one round of the loop over m.header.file; the file it looks   *)
(* at is chosen when the loop comes to it.  Entry 0 of the table has no    *)
(* name.                                                                   *)
(***************************************************************************)
EXTENDS Integers, Sequences, SequencesExt, Input

CONSTANTS Names, NoName,       \* names of files, the empty one
          Dirs,                \* compilation directories
          MaxFiles,            \* files of a line table, entry 0 included
          Split(_),            \* strings.Split(name, "/"), from 1 on
          HasPrefix(_, _),     \* strings.HasPrefix(name, prefix)
          Length(_)            \* len(name)

ASSUME StringsAssumption ==
  /\ NoName \in Names /\ Dirs \subseteq Names
  /\ \A name \in Names : /\ Len(Split(name)) \in Nat \ {0}
                         /\ Length(name) \in Nat
                         /\ \A dir \in Dirs \cup {NoName} : HasPrefix(name, dir) \in BOOLEAN

(* matchingPathComponentSuffixSize *)
SuffixSize(p1, p2) ==
  LET c1 == Split(p1)
      c2 == Split(p2)
  IN CHOOSE n \in 0..Len(c1) :
       /\ n <= Len(c2)
       /\ \A i \in 0..(n - 1) : c1[Len(c1) - i] = c2[Len(c2) - i]
       /\ n = Len(c1) \/ n = Len(c2) \/ c1[Len(c1) - n] # c2[Len(c2) - n]

None == [fileNum |-> 0, components |-> 0, length |-> 0, underComp |-> FALSE]

Candidate(name, num, compDir, want) ==
  [fileNum |-> num,
   components |-> SuffixSize(name, want),
   length |-> Length(name),
   underComp |-> HasPrefix(name, compDir)]

(* A faulty variant: the compilation directory decides before the match. *)
BetterDirFirst(f, best) ==
  IF f.underComp # best.underComp THEN f.underComp
  ELSE IF f.components # best.components THEN f.components > best.components
  ELSE f.length < best.length

Better(f, best) ==
  IF f.components # best.components THEN f.components > best.components
  ELSE IF f.underComp # best.underComp THEN f.underComp
  ELSE f.length < best.length

(* compilationDirectory returns the empty name if it finds no entry. *)
FileInit == \E dir \in Dirs \cup {NoName}, want \in Names :
  input = [kind |-> "file", compDir |-> dir, want |-> want, files |-> << >>, best |-> None]

FileNext ==
  /\ input.kind = "file"
  /\ Len(input.files) < MaxFiles
  /\ \E name \in IF input.files = << >> THEN {NoName} ELSE Names :
       LET f == Candidate(name, Len(input.files), input.compDir, input.want) IN
       input' = [input EXCEPT !.files = Append(@, name),
                              !.best = IF Better(f, @) THEN f ELSE @]

FileSpec == FileInit /\ [][FileNext]_input

(* What follows the loop: "couldn't find file", or the chosen one. *)
found == input.best.components > 0
bestFile == input.best.fileNum + 1

-----------------------------------------------------------------------------
(* The files that end in the longest part of the path asked for. *)
Longest ==
  LET size(i) == SuffixSize(input.files[i], input.want) IN
  {i \in DOMAIN input.files : /\ size(i) > 0
                              /\ \A j \in DOMAIN input.files : size(j) <= size(i)}

(* The file LineToPCs chooses ends in the longest part of the path asked   *)
(* for; among those that do, its name begins with that of the compilation  *)
(* directory if such a name does, and is the shortest of those.  A file is *)
(* found exactly if some file of the table has the base name asked for.    *)
BestFileIsBest ==
  input.kind = "file" =>
    LET fs == input.files
        Under == {i \in Longest : HasPrefix(fs[i], input.compDir)}
        Preferred == IF Under = {} THEN Longest ELSE Under
    IN IF \A i \in DOMAIN fs : Last(Split(fs[i])) # Last(Split(input.want))
       THEN ~found
       ELSE /\ found /\ bestFile \in Preferred
            /\ \A i \in Preferred : Length(fs[bestFile]) <= Length(fs[i])
=============================================================================
