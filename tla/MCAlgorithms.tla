---------------------------- MODULE MCAlgorithms ----------------------------
(***************************************************************************)
(* The pure algorithms of the code, each checked against a reference       *)
(* definition on every small input.  An input is built step by step, so    *)
(* that the states are the inputs.                                         *)
(***************************************************************************)
EXTENDS MCEvaluator, MCTypeReader, MCStackWalk, MCGoSym, LebDecoding, BestFile

(* Short names of files: sequences of characters, absolute ones and        *)
(* relative ones, one directory's name the beginning of another's.         *)
MCHasPrefix(s, prefix) == IsPrefix(prefix, s)
MCLength(s) == Len(s)
MCNoName == << >>
MCRelative ==
  LET parts == {<<"a">>, <<"a", "b">>} IN
  parts \cup {p \o <<"/">> \o q : p, q \in parts}
MCNames == {MCNoName} \cup MCRelative \cup {<<"/">> \o p : p \in MCRelative}
MCParts ==
  [s \in MCNames |->
     LET cuts == SetToSortSeq({i \in DOMAIN s : s[i] = "/"} \cup {0, Len(s) + 1}, <) IN
     [k \in 1..(Len(cuts) - 1) |-> SubSeq(s, cuts[k] + 1, cuts[k + 1] - 1)]]
MCSplit(s) == MCParts[s]
MCDirs == {<<"/", "a">>, <<"/", "a", "b">>}

Init ==
  \/ ExprInit \/ ChainInit \/ OperandsInit \/ MapInit \/ QueueInit \/ PrintInit
  \/ TypesInit \/ StackInit \/ GsInit \/ CodeInit \/ SymsInit \/ PathsInit \/ FileInit
  \/ LebInit

Next ==
  \/ ExprNext \/ ChainNext \/ EvalNext \/ OperandsNext \/ MapNext \/ QueueNext \/ PrintNext
  \/ TypesNext \/ StackNext \/ GsNext \/ CodeNext \/ SymsNext \/ PathsNext \/ FileNext
  \/ LebNext

Spec == Init /\ [][Next]_input
=============================================================================
