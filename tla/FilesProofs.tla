----------------------------- MODULE FilesProofs -----------------------------
(***************************************************************************)
(* Proofs about the server's table of open files, for any number of files  *)
(* and any descriptors in the requests.                                    *)
(*                                                                         *)
(* That the table is as long as the most files ever open at a time is no   *)
(* invariant by itself: the next Open finds a free slot or extends the     *)
(* table according to its contents, while the history counts the open      *)
(* files.  The two agree because the used slots and the open files are as  *)
(* many, which is what TableIsOpenFiles says of their sets.                *)
(***************************************************************************)
EXTENDS Files, TLAPS, FiniteSetTheorems, WellFoundedInduction

(* A file in the table was opened for a client; the history is an upper    *)
(* bound of the present.                                                   *)
FilesInv ==
  /\ TypeOK
  /\ TableIsOpenFiles
  /\ osOpen \subseteq created
  /\ TableAsLongAsPeak
  /\ Cardinality(osOpen) <= peak

(* There are as many open files as used slots: all slots, if none is free. *)
LEMMA OpenFilesCount ==
  ASSUME HandlesAssumption, TypeOK, TableIsOpenFiles
  PROVE  /\ IsFiniteSet(osOpen) /\ Cardinality(osOpen) \in Nat
         /\ Cardinality(osOpen) <= Len(files)
         /\ Cardinality(osOpen) = Len(files) <=> Free = {}
<1> DEFINE used == Slots \ Free
           file == [i \in used |-> files[i]]
<1>1. Len(files) \in Nat /\ Slots = 1..Len(files)
  BY DEF TypeOK, Slots
<1>2. IsFiniteSet(Slots) /\ Cardinality(Slots) = Len(files)
  <2>1. /\ IsFiniteSet(1..Len(files))
        /\ Cardinality(1..Len(files)) = IF 1 > Len(files) THEN 0 ELSE Len(files) - 1 + 1
    BY <1>1, FS_Interval
  <2>2. QED
    BY <1>1, <2>1
<1>3. used \in SUBSET Slots /\ (used = Slots <=> Free = {})
  BY DEF Free
<1>4. /\ IsFiniteSet(used) /\ Cardinality(used) <= Len(files)
      /\ Cardinality(Slots) = Cardinality(used) => Slots = used
  BY <1>2, <1>3, FS_Subset
<1>5. file \in Bijection(used, osOpen)
  <2>1. \A i \in used : files[i] \in osOpen
    BY DEF TableIsOpenFiles, Free
  <2>2. \A h \in osOpen : \E i \in used : files[i] = h
    BY DEF TableIsOpenFiles, Free
  <2>3. \A i, j \in used : files[i] = files[j] => i = j
    BY DEF TableIsOpenFiles, Free
  <2>4. QED
    BY <2>1, <2>2, <2>3 DEF Bijection, Injection, Surjection, IsInjective
<1>6. IsFiniteSet(osOpen) /\ Cardinality(osOpen) = Cardinality(used)
  BY <1>4, <1>5, FS_Bijection DEF ExistsBijection
<1>7. Cardinality(osOpen) \in Nat
  BY <1>6, FS_CardinalityType
<1>8. QED
  BY <1>2, <1>3, <1>4, <1>6, <1>7

(* A set of natural numbers has a first element, unless it is empty. *)
LEMMA FirstNat ==
  ASSUME NEW T, T \subseteq Nat, T # {}
  PROVE  \E i \in T : \A j \in T : i <= j
<1> DEFINE less == OpToRel(<, Nat)
<1>1. IsWellFoundedOn(less, Nat)
  BY NatLessThanWellFounded
<1>2. \A i, j \in T : i < j => <<i, j>> \in less
  BY DEF OpToRel
<1> HIDE DEF less
<1>3. PICK i \in T : \A j \in T : ~(<<j, i>> \in less)
  BY <1>1, WFMin
<1>4. \A j \in T : ~(j < i)
  BY <1>2, <1>3, Zenon
<1>5. QED
  BY <1>4

(* Open takes a slot that is free, or the one after the last. *)
LEMMA OpenSlotIsFree ==
  ASSUME TypeOK
  PROVE  IF Free = {} THEN OpenSlot = Len(files) + 1
                      ELSE OpenSlot \in Free /\ OpenSlot <= Len(files)
<1>1. Len(files) \in Nat /\ Slots = 1..Len(files)
  BY DEF TypeOK, Slots
<1>2. CASE Free # {}
  <2>1. Free \subseteq Nat /\ \A i \in Free : i <= Len(files)
    BY <1>1 DEF Free
  <2>2. PICK i \in Free : \A j \in Free : i <= j
    BY <1>2, <2>1, FirstNat
  <2>3. OpenSlot \in Free
    BY <1>2, <2>2, Zenon DEF OpenSlot
  <2>4. QED
    BY <1>2, <2>1, <2>3
<1>3. QED
  BY <1>2 DEF OpenSlot

-----------------------------------------------------------------------------
(* handleOpen keeps the invariant. *)
LEMMA OpenKeepsInv ==
  ASSUME HandlesAssumption, FilesInv, NEW h \in Handles, Open(h)
  PROVE  FilesInv'
<1> USE DEF FilesInv
<1>1. Len(files) \in Nat /\ Slots = 1..Len(files) /\ files \in Seq(Handles \cup {Nil})
  BY DEF TypeOK, Slots
<1>2. h # Nil /\ h \notin osOpen /\ \A i \in Slots : files[i] # h
  BY DEF Open, TableIsOpenFiles, HandlesAssumption
<1>3. /\ IsFiniteSet(osOpen) /\ Cardinality(osOpen) \in Nat
      /\ Cardinality(osOpen) <= Len(files)
      /\ Cardinality(osOpen) = Len(files) <=> Free = {}
  BY OpenFilesCount
<1>4. osOpen' = osOpen \cup {h} /\ Cardinality(osOpen') = Cardinality(osOpen) + 1
  BY <1>2, <1>3, FS_AddElement DEF Open
<1>5. CASE Free = {}
  <2>1. files' = Append(files, h)
    BY <1>1, <1>5, OpenSlotIsFree DEF Open
  <2>2. /\ files' \in Seq(Handles \cup {Nil}) /\ Len(files') = Len(files) + 1
        /\ Slots' = Slots \cup {Len(files) + 1}
        /\ \A i \in Slots : files'[i] = files[i]
        /\ files'[Len(files) + 1] = h
    BY <1>1, <2>1 DEF Slots
  <2>3. TableIsOpenFiles'
    BY <1>1, <1>2, <1>4, <2>2 DEF TableIsOpenFiles
  <2>4. peak' = Len(files) + 1
    BY <1>1, <1>3, <1>4, <1>5 DEF Open, TableAsLongAsPeak
  <2>5. QED
    BY <1>1, <1>3, <1>4, <1>5, <2>2, <2>3, <2>4 DEF Open, TypeOK, TableAsLongAsPeak
<1>6. CASE Free # {}
  <2>1. OpenSlot \in Slots /\ files[OpenSlot] = Nil /\ files' = [files EXCEPT ![OpenSlot] = h]
    BY <1>1, <1>6, OpenSlotIsFree DEF Open, Free
  <2>2. /\ files' \in Seq(Handles \cup {Nil}) /\ Len(files') = Len(files) /\ Slots' = Slots
        /\ \A i \in Slots : files'[i] = IF i = OpenSlot THEN h ELSE files[i]
    BY <1>1, <2>1 DEF Slots
  <2>3. TableIsOpenFiles'
    BY <1>1, <1>2, <1>4, <2>1, <2>2 DEF TableIsOpenFiles
  <2>4. Cardinality(osOpen') <= peak /\ peak' = peak
    BY <1>1, <1>3, <1>4, <1>6 DEF Open, TableAsLongAsPeak
  <2>5. QED
    BY <1>1, <1>4, <2>2, <2>3, <2>4 DEF Open, TypeOK, TableAsLongAsPeak
<1>7. QED
  BY <1>5, <1>6

(* handleClose keeps the invariant, whatever descriptor it is given. *)
LEMMA CloseKeepsInv ==
  ASSUME HandlesAssumption, FilesInv, NEW d \in Int, Close(d)
  PROVE  FilesInv'
<1> USE DEF FilesInv
<1>1. Len(files) \in Nat /\ Slots = 1..Len(files) /\ files \in Seq(Handles \cup {Nil})
  BY DEF TypeOK, Slots
<1>2. d + 1 \in Slots /\ files[d + 1] # Nil /\ FileAt(d) = files[d + 1]
  BY <1>1 DEF Close, FileAt
<1>3. /\ files' \in Seq(Handles \cup {Nil}) /\ Len(files') = Len(files) /\ Slots' = Slots
      /\ \A i \in Slots : files'[i] = IF i = d + 1 THEN Nil ELSE files[i]
  BY <1>1, <1>2 DEF Close, Slots
<1>4. osOpen' = osOpen \ {files[d + 1]} /\ UNCHANGED <<fd, created, peak>>
  BY <1>2 DEF Close
<1>5. TableIsOpenFiles'
  BY <1>2, <1>3, <1>4 DEF TableIsOpenFiles
<1>6. IsFiniteSet(osOpen) /\ Cardinality(osOpen') <= Cardinality(osOpen)
  <2>1. IsFiniteSet(osOpen) /\ osOpen' \in SUBSET osOpen
    BY <1>4, OpenFilesCount
  <2>2. QED
    BY <2>1, FS_Subset
<1>7. Cardinality(osOpen') \in Nat /\ Cardinality(osOpen) \in Nat /\ peak \in Nat
  <2>1. IsFiniteSet(osOpen')
    BY <1>4, <1>6, FS_RemoveElement
  <2>2. QED
    BY <1>6, <2>1, FS_CardinalityType DEF TypeOK
<1>8. QED
  BY <1>3, <1>4, <1>5, <1>6, <1>7 DEF TypeOK, TableAsLongAsPeak

THEOREM FilesInvariance == Spec => []FilesInv
<1>1. Init => FilesInv
  BY FS_EmptySet DEF Init, FilesInv, TypeOK, TableIsOpenFiles, TableAsLongAsPeak, Slots
<1>2. FilesInv /\ [Next]_vars => FilesInv'
  <2> SUFFICES ASSUME FilesInv, [Next]_vars
               PROVE  FilesInv'
    OBVIOUS
  <2>1. ASSUME NEW h \in Handles, Open(h)
        PROVE  FilesInv'
    BY <2>1, HandlesAssumption, OpenKeepsInv
  <2>2. ASSUME NEW d \in Descriptors, Close(d)
        PROVE  FilesInv'
    <3>1. Cardinality(Handles) \in Nat
      BY HandlesAssumption, FS_CardinalityType DEF HandlesAssumption
    <3>2. d \in Int
      BY <3>1 DEF Descriptors
    <3>3. QED
      BY <2>2, <3>2, HandlesAssumption, CloseKeepsInv
  <2>3. CASE UNCHANGED vars
    BY <2>3 DEF vars, FilesInv, TypeOK, TableIsOpenFiles, TableAsLongAsPeak, Slots
  <2>4. QED
    BY <2>1, <2>2, <2>3 DEF Next
<1>3. QED
  BY <1>1, <1>2, PTL DEF Spec

(* Whatever descriptors clients send, the server's table holds exactly the *)
(* files that it has open, each once: handleClose never leaves a closed    *)
(* file behind, and handleOpen never overwrites an open one.               *)
THEOREM TableHoldsOpenFiles == Spec => []TableIsOpenFiles
<1>1. FilesInv => TableIsOpenFiles
  BY DEF FilesInv
<1>2. QED
  BY <1>1, FilesInvariance, PTL

(* handleOpen's search for a free slot keeps the table as short as it can  *)
(* be: it grows only when more files are open than ever before.            *)
THEOREM TableIsShort == Spec => []TableAsLongAsPeak
<1>1. FilesInv => TableAsLongAsPeak
  BY DEF FilesInv
<1>2. QED
  BY <1>1, FilesInvariance, PTL
=============================================================================
