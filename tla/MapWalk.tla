------------------------------ MODULE MapWalk ------------------------------
(***************************************************************************)
(* How the server reads a Go map of the debugged program                   *)
(* (server/peek.go, server/server.go), and the runtime's operations on     *)
(* that map, which may have stopped anywhere in the course of growing it.  *)
(*                                                                         *)
(* A map header is the depth B of its table of 2^B buckets, the table, the *)
(* old table while the map grows, and the number of elements.  A table is  *)
(* a sequence of chains, a chain the sequence of a bucket and its overflow *)
(* buckets, a bucket a sequence of slots.                                  *)
(***************************************************************************)
EXTENDS Integers, Sequences, SequencesExt, FiniteSets

CONSTANTS BucketCnt,     \* slots of a bucket
          LoadFactor     \* elements per bucket that make a map grow

(* Top hashes of slots without an element, and the first of a full slot. *)
Empty == 0
EvacuatedEmpty == 1
EvacuatedX == 2
EvacuatedY == 3
minTopHash == 4

(* 1 << b and 1 << (b - 1): a shift by more than the width gives 0. *)
Buckets(h) == 2^h.B
OldBuckets(h) == IF h.B = 0 THEN 0 ELSE 2^(h.B - 1)

(* A faulty variant: evacuated slots of the old table are taken for full. *)
FullSlotEvacuated(slot) == slot.top >= EvacuatedX

FullSlot(slot) == slot.top >= minTopHash

(* peekMapValues: the slots fn is called with, in order. *)
peekMapValues(h) ==
  LET Table(chains, size) == FlattenSeq([i \in 1..size |-> FlattenSeq(chains[i])])
      old == IF h.oldbuckets = << >> THEN << >> ELSE Table(h.oldbuckets, OldBuckets(h))
  IN SelectSeq(Table(h.buckets, Buckets(h)) \o old, FullSlot)

peekMapLength(h) == h.count

(* handleMapElement: the slot with the given index, or none. *)
handleMapElement(h, index) ==
  LET slots == peekMapValues(h)
  IN IF Len(slots) <= index THEN {} ELSE {slots[index + 1]}

-----------------------------------------------------------------------------
(* The runtime, external to the repository.  A key's hash is the key.      *)

EmptyBucket == [j \in 1..BucketCnt |-> [top |-> Empty, key |-> 0]]

NewMap == [B |-> 0, buckets |-> << <<EmptyBucket>> >>, oldbuckets |-> << >>, count |-> 0]

(* Puts a slot in the first empty place of a chain, or in a new overflow bucket. *)
PutSlot(chain, slot) ==
  LET places == {p \in (1..Len(chain)) \X (1..BucketCnt) : chain[p[1]][p[2]].top = Empty}
      p == CHOOSE p \in places :
             \A q \in places : p[1] < q[1] \/ (p[1] = q[1] /\ p[2] <= q[2])
  IN IF places = {} THEN Append(chain, [EmptyBucket EXCEPT ![1] = slot])
     ELSE [chain EXCEPT ![p[1]][p[2]] = slot]

TableIndex(key, size) == (key % size) + 1

(* evacuate: moves the elements of one old chain to the new table. *)
Evacuate(h, i) ==
  LET slots == SelectSeq(FlattenSeq(h.oldbuckets[i]), FullSlot)
      place(table, slot) ==
        [table EXCEPT ![TableIndex(slot.key, Buckets(h))] = PutSlot(@, slot)]
      mark(slot) ==
        [slot EXCEPT !.top =
          IF ~FullSlot(slot) THEN EvacuatedEmpty
          ELSE IF TableIndex(slot.key, Buckets(h)) = i THEN EvacuatedX ELSE EvacuatedY]
  IN [h EXCEPT !.buckets = FoldLeft(place, @, slots),
               !.oldbuckets[i] = [n \in DOMAIN @ |-> [j \in DOMAIN @[n] |-> mark(@[n][j])]]]

Evacuated(h, i) == h.oldbuckets[i][1][1].top \in EvacuatedEmpty..EvacuatedY

(* hashGrow: the table becomes the old one, and a new one is twice as long. *)
HashGrow(h) ==
  [h EXCEPT !.B = @ + 1, !.oldbuckets = h.buckets,
            !.buckets = [i \in 1..(2 * Buckets(h)) |-> <<EmptyBucket>>]]

(* growWork: the chain that an operation is about to use is evacuated. *)
GrowWork(h, key) ==
  LET i == TableIndex(key, OldBuckets(h))
  IN IF h.oldbuckets = << >> \/ Evacuated(h, i) THEN h ELSE Evacuate(h, i)

(* The old table is dropped when every chain has been evacuated. *)
DropOld(h) ==
  IF h.oldbuckets # << >> /\ \A i \in DOMAIN h.oldbuckets : Evacuated(h, i)
  THEN [h EXCEPT !.oldbuckets = << >>] ELSE h

(* mapassign of a new key. *)
MapAssign(h, key, top) ==
  LET grown == IF h.oldbuckets = << >> /\ h.count >= LoadFactor * Buckets(h)
               THEN HashGrow(h) ELSE h
      ready == GrowWork(grown, key)
  IN DropOld([ready EXCEPT
       !.buckets[TableIndex(key, Buckets(ready))] = PutSlot(@, [top |-> top, key |-> key]),
       !.count = @ + 1])

(* mapdelete of a key of the map. *)
MapDelete(h, key) ==
  LET ready == GrowWork(h, key)
      clear(slot) == IF FullSlot(slot) /\ slot.key = key THEN [slot EXCEPT !.top = Empty]
                     ELSE slot
  IN DropOld([ready EXCEPT
       !.buckets[TableIndex(key, Buckets(ready))] =
          [n \in DOMAIN @ |-> [j \in DOMAIN @[n] |-> clear(@[n][j])]],
       !.count = @ - 1])
=============================================================================
