------------------------------- MODULE Channel -------------------------------
(***************************************************************************)
(* The elements of a channel of the debugged program: Channel.Element of   *)
(* program.go computes where in the channel's buffer an element of the     *)
(* queue is, from the fields of the runtime's hchan.  The runtime sends    *)
(* at sendx, which the debugger does not read, and receives at recvx.      *)
(***************************************************************************)
EXTENDS Integers, Sequences, Input

CONSTANTS Buffer, Stride,     \* where the buffer is, and its elements' distance
          MaxCapacity,
          MaxQueueOps         \* sends and receives

ASSUME ChannelAssumption ==
  Buffer \in Nat \ {0} /\ Stride \in Nat \ {0} /\ MaxCapacity \in Nat /\ MaxQueueOps \in Nat

(* A faulty variant: the queue is not taken to wrap around. *)
ChannelElementStraight(c, index) ==
  IF index >= c.len THEN 0 ELSE c.buf + (c.start + index) * c.stride

(* Channel.Element: in the part of the queue before the end of the buffer, *)
(* or in the part that has wrapped around.                                 *)
ChannelElement(c, index) ==
  IF index >= c.len THEN 0
  ELSE IF index < c.cap - c.start THEN c.buf + (c.start + index) * c.stride
  ELSE c.buf + (c.start + index - c.cap) * c.stride

-----------------------------------------------------------------------------
(* The runtime, external to the repository.  queue is a history: what has  *)
(* been sent and not received.                                             *)
QueueInit == \E cap \in 0..MaxCapacity :
  input = [kind |-> "queue", cap |-> cap, sendx |-> 0, recvx |-> 0, queue |-> << >>,
           slots |-> [i \in 0..(cap - 1) |-> 0], ops |-> 0]

(* The place in the buffer that follows place x. *)
Following(x) == IF x + 1 = input.cap THEN 0 ELSE x + 1

ChannelSend ==
  /\ Len(input.queue) < input.cap
  /\ input' = [input EXCEPT !.slots[input.sendx] = input.ops + 1,
                            !.sendx = Following(@),
                            !.queue = Append(@, input.ops + 1),
                            !.ops = @ + 1]

ChannelReceive ==
  /\ input.queue # << >>
  /\ input' = [input EXCEPT !.recvx = Following(@), !.queue = Tail(@), !.ops = @ + 1]

QueueNext ==
  /\ input.kind = "queue" /\ input.ops < MaxQueueOps
  /\ ChannelSend \/ ChannelReceive

QueueSpec == QueueInit /\ [][QueueNext]_input

-----------------------------------------------------------------------------
(* What the debugger reads of it. *)
ChannelRead == [len |-> Len(input.queue), cap |-> input.cap, start |-> input.recvx,
                buf |-> Buffer, stride |-> Stride]

(* Channel.Element gives the elements of the queue in the order in which   *)
(* they will be received, wherever it starts in the buffer, and no others. *)
ChannelElementsInOrder ==
  input.kind = "queue" =>
    \A i \in 0..input.cap :
      IF i < Len(input.queue)
      THEN \E j \in DOMAIN input.slots : /\ ChannelElement(ChannelRead, i) = Buffer + j * Stride
                                         /\ input.slots[j] = input.queue[i + 1]
      ELSE ChannelElement(ChannelRead, i) = 0
=============================================================================
