---------------------------- MODULE OutgoingQueue ----------------------------
(***************************************************************************)
(* outgoingPacketBuffer of ReliabilityLayer: the order in which messages   *)
(* of different priorities leave the send queue.  It is a binary heap      *)
(* (Source/include/mafianet/ds_heap.h) over the weights GetNextWeight      *)
(* hands out.  Array index i of the heap is i + 1 here.                    *)
(***************************************************************************)
EXTENDS Naturals, Sequences

CONSTANTS
  Levels,        \* NUMBER_OF_PRIORITIES, 4: 0 is Immediate, 1 is High
  MaxFragments,  \* bound: fragments of one split message
  MaxMessages    \* bound: messages pushed

ASSUME QueueAssumption == Levels \in Nat \ {0} /\ MaxFragments \in Nat /\ MaxMessages \in Nat

VARIABLES
  buffer,        \* the heap's array: [weight, priority, serial]
  nextWeights,   \* outgoingPacketBufferNextWeights
  pushed,        \* messages pushed so far
  overtaken      \* ghost, per message: how many of the next more urgent
                 \* priority were pushed after it and left before it

vars == <<buffer, nextWeights, pushed, overtaken>>
Priorities == 0 .. Levels - 1

-----------------------------------------------------------------------------
(* Heap<weight, data, false>.                                              *)
Parent(i) == i \div 2
Swap(h, i, j) == [h EXCEPT ![i] = h[j], ![j] = h[i]]

RECURSIVE SiftUp(_, _), SiftDown(_, _)
SiftUp(h, i) ==
  IF i > 1 /\ h[Parent(i)].weight > h[i].weight THEN SiftUp(Swap(h, i, Parent(i)), Parent(i)) ELSE h
SiftDown(h, i) ==
  LET children == {c \in {2 * i, 2 * i + 1} : c <= Len(h)}
      lesser == IF 2 * i + 1 \in children /\ h[2 * i].weight >= h[2 * i + 1].weight
                THEN 2 * i + 1 ELSE 2 * i
  IN IF \E c \in children : h[c].weight < h[i].weight
     THEN SiftDown(Swap(h, i, lesser), lesser) ELSE h

Push(h, e) == SiftUp(Append(h, e), Len(h) + 1)
Pop(h) == SiftDown(SubSeq(<<h[Len(h)]>> \o Tail(h), 1, Len(h) - 1), 1)

(* PushSeries appends without sifting once an element was no less than the *)
(* whole row of its parent and its elder siblings.                         *)
AlwaysInOrder(h, e) == TRUE
SeriesInOrder(h, e) == \A i \in 1 .. Len(h) : i >= Parent(Len(h) + 1) => e.weight >= h[i].weight

-----------------------------------------------------------------------------
Interval(p) == 2 ^ p * p + p
InitHeapWeights == [p \in Priorities |-> Interval(p)]

GetNextWeight(h, weights, p) ==
  IF h = <<>> THEN [weight |-> weights[p], weights |-> InitHeapWeights]
  ELSE LET lowest == h[1].weight - 2 ^ h[1].priority * h[1].priority + h[1].priority
           next == IF weights[p] < lowest THEN lowest + Interval(p) ELSE weights[p]
       IN [weight |-> next,
           weights |-> [weights EXCEPT ![p] = next + 2 ^ p * (p + 1) + p]]

(* SplitPacket pushes its fragments one after the other as a series; an    *)
(* unsplit message is pushed alone.                                        *)
RECURSIVE PushFragments(_, _, _, _, _, _)
PushFragments(h, weights, p, serial, last, inSeries) ==
  IF serial > last THEN [buffer |-> h, weights |-> weights]
  ELSE LET g == GetNextWeight(h, weights, p)
           e == [weight |-> g.weight, priority |-> p, serial |-> serial]
           append == inSeries \/ SeriesInOrder(h, e)
       IN PushFragments(IF append THEN Append(h, e) ELSE Push(h, e), g.weights, p, serial + 1, last, append)

-----------------------------------------------------------------------------
Init ==
  /\ buffer = <<>> /\ nextWeights = InitHeapWeights /\ pushed = 0
  /\ overtaken = <<>>

Queue(h, weights, n) ==
  /\ buffer' = h /\ nextWeights' = weights
  /\ pushed' = pushed + n
  /\ overtaken' = overtaken \o [i \in 1 .. n |-> 0]

Send(p) ==
  /\ pushed < MaxMessages
  /\ LET g == GetNextWeight(buffer, nextWeights, p)
     IN Queue(Push(buffer, [weight |-> g.weight, priority |-> p, serial |-> pushed + 1]), g.weights, 1)

SendSplit(p, n) ==
  /\ pushed + n <= MaxMessages
  /\ LET r == PushFragments(buffer, nextWeights, p, pushed + 1, pushed + n, FALSE)
     IN Queue(r.buffer, r.weights, n)

Passes(e, w) == e.priority + 1 = w.priority /\ e.serial > w.serial
Transmit ==
  /\ buffer # <<>>
  /\ buffer' = Pop(buffer)
  /\ overtaken' = [s \in 1 .. pushed |->
                     IF \E i \in DOMAIN buffer : buffer[i].serial = s /\ Passes(buffer[1], buffer[i])
                     THEN overtaken[s] + 1 ELSE overtaken[s]]
  /\ UNCHANGED <<nextWeights, pushed>>

Next ==
  \/ \E p \in Priorities : Send(p) \/ \E n \in 2 .. MaxFragments : SendSplit(p, n)
  \/ Transmit
Spec == Init /\ [][Next]_vars

-----------------------------------------------------------------------------
(* The heap invariant, on which Peek and Pop rely: it survives the         *)
(* unsifted appends of PushSeries and the reset of the weights by          *)
(* InitHeapWeights.                                                        *)
HeapOrdered ==
  \A i \in DOMAIN buffer : i > 1 => buffer[Parent(i)].weight <= buffer[i].weight

(* "For every 2 Immediate messages, 1 High will be sent", and so on down  *)
(* the priorities (packet_priority.h): a waiting message lets at most two  *)
(* that were sent after it, at the next more urgent priority, go first.    *)
TwoToOne == \A i \in DOMAIN buffer : overtaken[buffer[i].serial] <= 2
=============================================================================
