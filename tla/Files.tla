-------------------------------- MODULE Files --------------------------------
(***************************************************************************)
(* The server's table of open files, s.files (server/server.go: handleOpen,*)
(* handleReadAt, handleClose), and the File values that clients get from   *)
(* Open and use for ReadAt and Close (local/local.go, remote/remote.go).   *)
(* The server's goroutine runs one of these handlers at a time.  A request *)
(* carries any descriptor: the server does not know who opened what.       *)
(*                                                                         *)
(* A file that the server has opened is named by the client File that it   *)
(* was opened for.  A bad mode, a failed OS call or a bad descriptor is an *)
(* error that changes nothing, and is no step.                             *)
(***************************************************************************)
EXTENDS Integers, Sequences, FiniteSets

CONSTANTS Handles,   \* the File values that clients create
          Nil

ASSUME HandlesAssumption == Nil \notin Handles /\ IsFiniteSet(Handles)

VARIABLES files,    \* s.files: the descriptor of files[i] is i - 1
          osOpen,   \* the files that the server holds open
          fd,       \* the descriptor that each File keeps
          created,  \* the File values that Open has returned
          peak      \* history: the most files ever open at the same time

vars == <<files, osOpen, fd, created, peak>>

(* The variables keep their types. *)
TypeOK ==
  /\ files \in Seq(Handles \cup {Nil})
  /\ osOpen \in SUBSET Handles
  /\ fd \in [Handles -> Nat]
  /\ created \in SUBSET Handles
  /\ peak \in Nat

Init ==
  /\ files = << >>
  /\ osOpen = {}
  /\ fd = [h \in Handles |-> 0]
  /\ created = {}
  /\ peak = 0

-----------------------------------------------------------------------------
Slots == DOMAIN files
Free == {i \in Slots : files[i] = Nil}

(* The first free slot, or a new one. *)
OpenSlot == IF Free = {} THEN Len(files) + 1
                         ELSE CHOOSE i \in Free : \A j \in Free : i <= j

(* What handleReadAt reads from, and what handleClose closes. *)
FileAt(d) == IF d < 0 \/ Len(files) <= d THEN Nil ELSE files[d + 1]

(* A faulty variant: the slot is always a new one. *)
AppendAlways(h) ==
  /\ h \notin created
  /\ files' = Append(files, h)
  /\ osOpen' = osOpen \cup {h}
  /\ fd' = [fd EXCEPT ![h] = 0]
  /\ created' = created \cup {h}
  /\ peak' = IF Cardinality(osOpen') > peak THEN Cardinality(osOpen') ELSE peak

(* handleOpen leaves resp.FD alone: the client keeps descriptor 0. *)
Open(h) ==
  /\ h \notin created
  /\ files' = IF OpenSlot > Len(files) THEN Append(files, h)
                                       ELSE [files EXCEPT ![OpenSlot] = h]
  /\ osOpen' = osOpen \cup {h}
  /\ fd' = [fd EXCEPT ![h] = 0]
  /\ created' = created \cup {h}
  /\ peak' = IF Cardinality(osOpen') > peak THEN Cardinality(osOpen') ELSE peak

(* A faulty variant: the slot keeps the file that was closed. *)
CloseKeepsSlot(d) ==
  /\ FileAt(d) # Nil
  /\ osOpen' = osOpen \ {FileAt(d)}
  /\ UNCHANGED <<files, fd, created, peak>>

(* The slot is cleared, whatever the close of the file returns. *)
Close(d) ==
  /\ FileAt(d) # Nil
  /\ osOpen' = osOpen \ {FileAt(d)}
  /\ files' = [files EXCEPT ![d + 1] = Nil]
  /\ UNCHANGED <<fd, created, peak>>

Descriptors == -1 .. Cardinality(Handles)

Next == \/ \E h \in Handles : Open(h)
        \/ \E d \in Descriptors : Close(d)

Spec == Init /\ [][Next]_vars

-----------------------------------------------------------------------------
(* The table is exactly the files held open, each in one slot: none is     *)
(* forgotten while open, none can be used after it was closed, whatever    *)
(* descriptors the requests carry.                                         *)
TableIsOpenFiles ==
  /\ {files[i] : i \in Slots} \ {Nil} = osOpen
  /\ \A i, j \in Slots : files[i] = files[j] /\ files[i] # Nil => i = j

(* Slots are reused: the table is no longer than the number of files that  *)
(* have been open at the same time.                                        *)
TableAsLongAsPeak == Len(files) = peak
=============================================================================
