--------------------------- MODULE OrderingChannel ---------------------------
(***************************************************************************)
(* One ordering channel of ReliabilityLayer: the indices Send gives to     *)
(* ordered and sequenced messages, and what the receiver does with them    *)
(* after duplicate removal (Source/src/reliability_layer.cpp).  The 32     *)
(* channels share no state.                                                *)
(*                                                                         *)
(* ordering and sequencing indices are uint24_t in the program.  The state *)
(* keeps them unwrapped; every comparison goes through Wire.               *)
(***************************************************************************)
EXTENDS Integers, Sequences, FiniteSets

CONSTANTS
  IndexSpan,       \* 2^24, the range of OrderingIndexType
  HeapSpan,        \* 1048576, the heap weights between two ordering indices
  Start,           \* ordered messages sent before the modelled stretch
  MaxMessages,     \* bound: messages sent
  MaxSequenced,    \* bound: sequenced messages between two ordered ones
  MaxDuplicates    \* bound: extra copies of unreliable messages

ASSUME OrderingAssumption ==
  /\ IndexSpan \in Nat /\ HeapSpan \in Nat \ {0} /\ Start \in Nat
  /\ MaxMessages \in Nat /\ MaxSequenced \in Nat /\ MaxDuplicates \in Nat
(* No more messages are under way than half the index range, and the       *)
(* sequencing indices of buffered messages stay below the weight of the    *)
(* ordered message they precede.                                           *)
ASSUME OrderingSpanAssumption ==
  /\ 2 * MaxMessages + 2 <= IndexSpan
  /\ MaxSequenced < HeapSpan

VARIABLES
  sent,                       \* every message sent, in send order
  orderedWriteIndex, sequencedWriteIndex,
  network,                    \* positions in sent of the messages under way
  duplicates,                 \* extra copies delivered so far
  orderedReadIndex, highestSequencedReadIndex,
  orderingHeap, heapIndexOffset,
  output                      \* positions in sent, in the order of outputQueue

senderVars == <<sent, orderedWriteIndex, sequencedWriteIndex>>
receiverVars == <<orderedReadIndex, highestSequencedReadIndex, orderingHeap, heapIndexOffset, output>>
vars == <<senderVars, network, duplicates, receiverVars>>

Reliabilities == {"UnreliableSequenced", "ReliableOrdered", "ReliableSequenced"}
MessageTypes == [reliability : Reliabilities, orderingIndex : Nat, sequencingIndex : Nat]

Wire(n) == n % IndexSpan
HalfRange == (IndexSpan - 1) \div 2

(* Both arguments are on the wire.                                         *)
NeverOlder(new, waiting) == FALSE
IsOlderOrderedPacket(new, waiting) ==
  IF waiting > HalfRange
  THEN new >= waiting - HalfRange + 1 /\ new < waiting
  ELSE new >= Wire(waiting - (HalfRange + 1)) \/ new < waiting

Init ==
  /\ sent = <<>> /\ orderedWriteIndex = Start /\ sequencedWriteIndex = 0
  /\ network = {} /\ duplicates = 0
  /\ orderedReadIndex = Start /\ highestSequencedReadIndex = 0
  /\ orderingHeap = <<>> /\ heapIndexOffset = 0 /\ output = <<>>

-----------------------------------------------------------------------------
(* The part of Send that numbers the message.  From here it may overtake   *)
(* others in the outgoing heap, on the path and by retransmission.         *)
Send(reliability) ==
  /\ Len(sent) < MaxMessages
  /\ reliability # "ReliableOrdered" => sequencedWriteIndex < MaxSequenced
  /\ sent' = Append(sent, [reliability |-> reliability,
                           orderingIndex |-> orderedWriteIndex,
                           sequencingIndex |-> IF reliability = "ReliableOrdered"
                                               THEN 0 ELSE sequencedWriteIndex])
  /\ IF reliability = "ReliableOrdered"
     THEN orderedWriteIndex' = orderedWriteIndex + 1 /\ sequencedWriteIndex' = 0
     ELSE sequencedWriteIndex' = sequencedWriteIndex + 1 /\ UNCHANGED orderedWriteIndex
  /\ network' = network \cup {Len(sent) + 1}
  /\ UNCHANGED <<duplicates, receiverVars>>

Sequenced(p) == sent[p].reliability # "ReliableOrdered"
Order(p) == sent[p].orderingIndex

(* A reliable message leaves the network once (duplicate removal is        *)
(* ReliabilityLayer's), an unreliable one may come again.                  *)
Arrive(p) ==
  \/ network' = network \ {p} /\ UNCHANGED duplicates
  \/ /\ sent[p].reliability = "UnreliableSequenced" /\ duplicates < MaxDuplicates
     /\ duplicates' = duplicates + 1 /\ UNCHANGED network

Lose(p) ==
  /\ sent[p].reliability = "UnreliableSequenced"
  /\ network' = network \ {p}
  /\ UNCHANGED <<senderVars, duplicates, receiverVars>>

-----------------------------------------------------------------------------
(* A sequenced message of the current ordering index.                      *)
ReceiveSequenced(p) ==
  /\ Wire(Order(p)) = Wire(orderedReadIndex) /\ Sequenced(p)
  /\ IF IsOlderOrderedPacket(Wire(sent[p].sequencingIndex), Wire(highestSequencedReadIndex))
     THEN UNCHANGED receiverVars
     ELSE /\ highestSequencedReadIndex' = sent[p].sequencingIndex + 1
          /\ output' = Append(output, p)
          /\ UNCHANGED <<orderedReadIndex, orderingHeap, heapIndexOffset>>

(* What the heap returns "until order lost": its first k entries, each     *)
(* with the ordering index reached by then.                                *)
EntriesAmong(k) == k
OrderedAmong(k) == Cardinality({i \in 1 .. k : ~Sequenced(orderingHeap[i].packet)})
InOrder(i) == Wire(Order(orderingHeap[i].packet)) = Wire(orderedReadIndex + 1 + OrderedAmong(i - 1))
NothingReturned(k) == k = 0
Returned(k) ==
  /\ \A i \in 1 .. k : InOrder(i)
  /\ k < Len(orderingHeap) => ~InOrder(k + 1)

(* The ordered message the channel waits for, and what it releases.        *)
ReceiveOrdered(p) ==
  /\ Wire(Order(p)) = Wire(orderedReadIndex) /\ ~Sequenced(p)
  /\ \E k \in 0 .. Len(orderingHeap) :
       /\ Returned(k)
       /\ output' = output \o <<p>> \o [i \in 1 .. k |-> orderingHeap[i].packet]
       /\ orderingHeap' = SubSeq(orderingHeap, k + 1, Len(orderingHeap))
       /\ orderedReadIndex' = orderedReadIndex + 1 + OrderedAmong(k)
       /\ highestSequencedReadIndex' =
            LET sequenced == {i \in 1 .. k : Sequenced(orderingHeap[i].packet)}
            IN IF sequenced = {} THEN 0
               ELSE LET last == CHOOSE i \in sequenced : \A j \in sequenced : j <= i
                    IN sent[orderingHeap[last].packet].sequencingIndex
  /\ UNCHANGED heapIndexOffset

WeightSwapped(p, offset) ==
  (offset - Order(p)) * HeapSpan
  + IF Sequenced(p) THEN Wire(sent[p].sequencingIndex) ELSE HeapSpan - 1
Weight(p, offset) ==
  Wire(Order(p) - offset) * HeapSpan
  + IF Sequenced(p) THEN Wire(sent[p].sequencingIndex) ELSE HeapSpan - 1

InsertAt(s, i, e) == SubSeq(s, 1, i - 1) \o <<e>> \o SubSeq(s, i, Len(s))

(* A message ahead of the channel is buffered in the heap, which the model *)
(* keeps sorted by weight.                                                 *)
Buffer(p) ==
  /\ Wire(Order(p)) # Wire(orderedReadIndex)
  /\ ~IsOlderOrderedPacket(Wire(Order(p)), Wire(orderedReadIndex))
  /\ heapIndexOffset' = IF orderingHeap = <<>> THEN orderedReadIndex ELSE heapIndexOffset
  /\ LET e == [weight |-> Weight(p, heapIndexOffset'), packet |-> p]
     IN \E i \in 1 .. Len(orderingHeap) + 1 :
          /\ \A j \in 1 .. i - 1 : orderingHeap[j].weight <= e.weight
          /\ \A j \in i .. Len(orderingHeap) : e.weight <= orderingHeap[j].weight
          /\ orderingHeap' = InsertAt(orderingHeap, i, e)
  /\ UNCHANGED <<orderedReadIndex, highestSequencedReadIndex, output>>

RejectOlder(p) ==
  /\ Wire(Order(p)) # Wire(orderedReadIndex)
  /\ IsOlderOrderedPacket(Wire(Order(p)), Wire(orderedReadIndex))
  /\ UNCHANGED receiverVars

Receive(p) ==
  /\ Arrive(p)
  /\ ReceiveSequenced(p) \/ ReceiveOrdered(p) \/ Buffer(p) \/ RejectOlder(p)
  /\ UNCHANGED senderVars

-----------------------------------------------------------------------------
Next ==
  \/ \E r \in Reliabilities : Send(r)
  \/ \E p \in network : Receive(p) \/ Lose(p)

Spec == Init /\ [][Next]_vars
(* A reliable message arrives in the end: ReliabilityLayer resends it      *)
(* until it is acknowledged.                                               *)
FairSpec ==
  Spec /\ \A p \in 1 .. MaxMessages :
            WF_vars(p \in network /\ sent[p].reliability # "UnreliableSequenced" /\ Receive(p))

-----------------------------------------------------------------------------
(* The type of every variable, after any number of wraps.                  *)
TypeOK ==
  /\ sent \in Seq(MessageTypes) /\ orderedWriteIndex \in Nat /\ sequencedWriteIndex \in Nat
  /\ network \subseteq 1 .. Len(sent) /\ duplicates \in 0 .. MaxDuplicates
  /\ orderedReadIndex \in Nat /\ highestSequencedReadIndex \in Nat
  /\ orderingHeap \in Seq([weight : Nat, packet : 1 .. Len(sent)])
  /\ heapIndexOffset \in Nat /\ output \in Seq(1 .. Len(sent))

(* "Sequenced and ordered messages sent on the same channel will arrive in *)
(* the order sent": the output queue never goes back, whatever was resent, *)
(* overtaken, buffered or duplicated.                                      *)
OutputInSendOrder ==
  \A i, j \in DOMAIN output : i < j => output[i] <= output[j]

(* Ordered messages come out without a gap and once each: the ones in the  *)
(* output are those below orderedReadIndex.                                *)
OrderedWithoutGap ==
  /\ \A p \in DOMAIN sent :
       ~Sequenced(p) => (Order(p) < orderedReadIndex <=> \E i \in DOMAIN output : output[i] = p)
  /\ \A i, j \in DOMAIN output : output[i] = output[j] /\ i # j => Sequenced(output[i])

(* The channel never stalls: every ordered message is delivered.           *)
OrderedDelivered ==
  \A p \in 1 .. MaxMessages :
    (p \in DOMAIN sent /\ ~Sequenced(p)) ~> \E i \in DOMAIN output : output[i] = p
=============================================================================
