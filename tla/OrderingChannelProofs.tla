------------------------ MODULE OrderingChannelProofs ------------------------
(***************************************************************************)
(* One ordering channel delivers in send order and without a gap, whatever *)
(* the network does and wherever the 24-bit indices wrap, for every number *)
(* of messages below half the index range.                                 *)
(***************************************************************************)
EXTENDS OrderingChannel, WireArithmetic, FiniteSetTheorems

-----------------------------------------------------------------------------
(* Comparisons on the wire.                                                *)

(* Half of the index range holds every message under way.                  *)
LEMMA HalfRangeBound ==
  /\ IndexSpan \in Nat \ {0} /\ HalfRange \in Nat /\ MaxMessages \in Nat
  /\ MaxMessages <= HalfRange /\ 2 * MaxMessages + 2 <= IndexSpan
  /\ 2 * HalfRange + 1 <= IndexSpan /\ IndexSpan <= 2 * HalfRange + 2
  <1>1. IndexSpan \in Nat \ {0} /\ MaxMessages \in Nat /\ 2 * MaxMessages + 2 <= IndexSpan
    BY OrderingAssumption, OrderingSpanAssumption
  <1>2. IndexSpan - 1 = ((IndexSpan - 1) \div 2) * 2 + ((IndexSpan - 1) % 2)
        /\ (IndexSpan - 1) \div 2 \in Int /\ (IndexSpan - 1) % 2 \in 0 .. 1
    BY <1>1
  <1> QED BY <1>1, <1>2 DEF HalfRange

(* A number on the wire is below IndexSpan.                                *)
LEMMA WireRange ==
  ASSUME NEW a \in Int PROVE Wire(a) \in Int /\ Wire(a) \in 0 .. IndexSpan - 1
  BY HalfRangeBound, ModRange DEF Wire

(* Two wrapped numbers, the first of them d ahead.                         *)
LEMMA WireAhead ==
  ASSUME NEW a \in Int, NEW b \in Int, a - b \in 0 .. IndexSpan - 1
  PROVE  \/ Wire(a) = Wire(b) + (a - b)
         \/ Wire(a) = Wire(b) + (a - b) - IndexSpan
  <1> DEFINE x == a % IndexSpan
             y == b % IndexSpan
  <1>1. IndexSpan \in Nat \ {0} BY HalfRangeBound
  <1>2. x \in 0 .. IndexSpan - 1 /\ y \in 0 .. IndexSpan - 1 BY <1>1, ModRange
  <1>3. (x - y) % IndexSpan = a - b BY <1>1, ModAhead
  <1>4. Wire(a) = x /\ Wire(b) = y BY DEF Wire
  <1> HIDE DEF x, y
  <1>5. CASE x >= y
    <2>1. x - y \in Int /\ x - y \in 0 .. IndexSpan - 1 BY <1>1, <1>2, <1>5
    <2>2. x - y = 0 * IndexSpan + (x - y) BY <1>1, <2>1
    <2>3. (x - y) % IndexSpan = x - y BY <1>1, <2>1, <2>2, ModUnique
    <2> QED BY <1>2, <1>3, <1>4, <2>3
  <1>6. CASE x < y
    <2>1. x - y \in Int /\ x - y + IndexSpan \in 0 .. IndexSpan - 1 BY <1>1, <1>2, <1>6
    <2>2. x - y = (-1) * IndexSpan + (x - y + IndexSpan) BY <1>1, <2>1
    <2>3. (x - y) % IndexSpan = x - y + IndexSpan BY <1>1, <2>1, <2>2, ModUnique
    <2> QED BY <1>1, <1>2, <1>3, <1>4, <2>3
  <1> QED BY <1>2, <1>5, <1>6

(* The index half a range before a waiting index below the half wraps.     *)
LEMMA WireHalfBefore ==
  ASSUME NEW w \in 0 .. HalfRange
  PROVE  Wire(w - (HalfRange + 1)) = w - (HalfRange + 1) + IndexSpan
  <1>1. IndexSpan \in Nat \ {0} /\ HalfRange \in Nat /\ 2 * HalfRange + 1 <= IndexSpan BY HalfRangeBound
  <1> DEFINE v == w - (HalfRange + 1)
  <1>2. v \in Int /\ v + IndexSpan \in 0 .. IndexSpan - 1 BY <1>1
  <1>3. v = (-1) * IndexSpan + (v + IndexSpan) BY <1>1, <1>2
  <1> HIDE DEF v
  <1>4. v % IndexSpan = v + IndexSpan BY <1>1, <1>2, <1>3, ModUnique
  <1> QED BY <1>4 DEF v, Wire

(* What IsOlderOrderedPacket compares, without the wrap.                   *)
LEMMA OlderMeaning ==
  ASSUME NEW x \in 0 .. IndexSpan - 1, NEW y \in 0 .. IndexSpan - 1
  PROVE  IsOlderOrderedPacket(x, y) <=>
           IF y > HalfRange THEN x >= y - HalfRange + 1 /\ x < y
           ELSE x >= y - (HalfRange + 1) + IndexSpan \/ x < y
  <1>1. CASE y > HalfRange BY <1>1 DEF IsOlderOrderedPacket
  <1>2. CASE ~(y > HalfRange)
    <2>1. y \in 0 .. HalfRange BY <1>2, HalfRangeBound
    <2>2. Wire(y - (HalfRange + 1)) = y - (HalfRange + 1) + IndexSpan BY <2>1, WireHalfBefore
    <2> QED BY <1>2, <2>2 DEF IsOlderOrderedPacket
  <1> QED BY <1>1, <1>2

(* An index that is ahead of the one waited for, or equal to it, is not    *)
(* taken for an older one ...                                              *)
LEMMA AheadNotOlder ==
  ASSUME NEW a \in Int, NEW b \in Int, a - b \in 0 .. MaxMessages
  PROVE  ~IsOlderOrderedPacket(Wire(a), Wire(b))
  <1>1. /\ IndexSpan \in Nat \ {0} /\ HalfRange \in Nat /\ MaxMessages \in Nat
        /\ MaxMessages <= HalfRange /\ 2 * MaxMessages + 2 <= IndexSpan
        /\ 2 * HalfRange + 1 <= IndexSpan /\ IndexSpan <= 2 * HalfRange + 2 BY HalfRangeBound
  <1>2. Wire(a) \in 0 .. IndexSpan - 1 /\ Wire(b) \in 0 .. IndexSpan - 1 BY WireRange
  <1>3. Wire(a) = Wire(b) + (a - b) \/ Wire(a) = Wire(b) + (a - b) - IndexSpan
    <2>1. a - b \in 0 .. IndexSpan - 1 BY <1>1
    <2> QED BY <2>1, WireAhead
  <1> DEFINE x == Wire(a)
             y == Wire(b)
  <1>4. IsOlderOrderedPacket(x, y) <=>
          IF y > HalfRange THEN x >= y - HalfRange + 1 /\ x < y
          ELSE x >= y - (HalfRange + 1) + IndexSpan \/ x < y
    BY <1>2, OlderMeaning
  <1> HIDE DEF x, y
  <1> QED BY <1>1, <1>2, <1>3, <1>4 DEF x, y

(* ... and one that is behind it is.                                       *)
LEMMA BehindIsOlder ==
  ASSUME NEW a \in Int, NEW b \in Int, b - a \in 1 .. MaxMessages - 1
  PROVE  IsOlderOrderedPacket(Wire(a), Wire(b))
  <1>1. /\ IndexSpan \in Nat \ {0} /\ HalfRange \in Nat /\ MaxMessages \in Nat
        /\ MaxMessages <= HalfRange /\ 2 * MaxMessages + 2 <= IndexSpan
        /\ 2 * HalfRange + 1 <= IndexSpan /\ IndexSpan <= 2 * HalfRange + 2 BY HalfRangeBound
  <1>2. Wire(a) \in 0 .. IndexSpan - 1 /\ Wire(b) \in 0 .. IndexSpan - 1 BY WireRange
  <1>3. Wire(b) = Wire(a) + (b - a) \/ Wire(b) = Wire(a) + (b - a) - IndexSpan
    <2>1. b - a \in 0 .. IndexSpan - 1 BY <1>1
    <2> QED BY <2>1, WireAhead
  <1> DEFINE x == Wire(a)
             y == Wire(b)
  <1>4. IsOlderOrderedPacket(x, y) <=>
          IF y > HalfRange THEN x >= y - HalfRange + 1 /\ x < y
          ELSE x >= y - (HalfRange + 1) + IndexSpan \/ x < y
    BY <1>2, OlderMeaning
  <1> HIDE DEF x, y
  <1> QED BY <1>1, <1>2, <1>3, <1>4 DEF x, y

(* Numbers below half the range are on the wire as they are.               *)
LEMMA WireSmall ==
  ASSUME NEW a \in 0 .. MaxMessages PROVE Wire(a) = a
  <1>1. IndexSpan \in Nat \ {0} /\ a \in Int /\ a \in 0 .. IndexSpan - 1 BY HalfRangeBound
  <1>2. a = 0 * IndexSpan + a BY <1>1
  <1> QED BY <1>1, <1>2, ModUnique DEF Wire

(* Sequencing indices start over with every ordered message and do not     *)
(* wrap: for them older is smaller.                                        *)
LEMMA OlderIsSmaller ==
  ASSUME NEW a \in 0 .. MaxMessages - 1, NEW b \in 0 .. MaxMessages
  PROVE  IsOlderOrderedPacket(Wire(a), Wire(b)) <=> a < b
  <1>1. /\ IndexSpan \in Nat \ {0} /\ HalfRange \in Nat /\ MaxMessages \in Nat
        /\ MaxMessages <= HalfRange /\ 2 * MaxMessages + 2 <= IndexSpan
        /\ 2 * HalfRange + 1 <= IndexSpan /\ IndexSpan <= 2 * HalfRange + 2 BY HalfRangeBound
  <1>2. Wire(a) = a /\ Wire(b) = b BY <1>1, WireSmall
  <1>3. b <= HalfRange /\ Wire(b - (HalfRange + 1)) = b - (HalfRange + 1) + IndexSpan
    BY <1>1, WireHalfBefore
  <1> QED BY <1>1, <1>2, <1>3 DEF IsOlderOrderedPacket

(* Two indices that are equal on the wire are equal.                       *)
LEMMA SameOnWire ==
  ASSUME NEW a \in Int, NEW b \in Int, a - b \in -(MaxMessages + 1) .. MaxMessages + 1, Wire(a) = Wire(b)
  PROVE  a = b
  <1>1. IndexSpan \in Nat \ {0} /\ MaxMessages \in Nat /\ 2 * MaxMessages + 2 <= IndexSpan
    BY OrderingAssumption, OrderingSpanAssumption
  <1>2. CASE MaxMessages = 0
    <2>1. a = b \/ a = b + 1 \/ a = b - 1 BY <1>2
    <2>2. a - b \in 1 - IndexSpan .. IndexSpan - 1 BY <1>1, <1>2
    <2> QED BY <1>1, <2>2, ModEqual DEF Wire
  <1>3. CASE MaxMessages # 0
    <2>1. a - b \in 1 - IndexSpan .. IndexSpan - 1 BY <1>1, <1>3
    <2> QED BY <1>1, <2>1, ModEqual DEF Wire
  <1> QED BY <1>2, <1>3

-----------------------------------------------------------------------------
(* The inductive invariant.                                                *)
Packet(i) == orderingHeap[i].packet
SeqIndex(p) == sent[p].sequencingIndex

(* The indices of the messages grow with their place in sent: sequenced    *)
(* messages, then the ordered one that closes their ordering index.        *)
SentSound ==
  /\ Len(sent) <= MaxMessages
  /\ orderedWriteIndex \in Start .. Start + Len(sent)
  /\ sequencedWriteIndex <= MaxSequenced /\ sequencedWriteIndex <= Len(sent)
  /\ \A p \in 1 .. Len(sent) :
       /\ Order(p) \in Start .. orderedWriteIndex
       /\ ~Sequenced(p) => Order(p) < orderedWriteIndex
       /\ Sequenced(p) => /\ orderedWriteIndex < Start + Len(sent)
                          /\ SeqIndex(p) < MaxSequenced /\ SeqIndex(p) < Len(sent)
                          /\ Order(p) = orderedWriteIndex => SeqIndex(p) < sequencedWriteIndex
  /\ \A p, q \in 1 .. Len(sent) :
       p < q => /\ Order(p) <= Order(q)
                /\ Order(p) = Order(q) => /\ Sequenced(p)
                                          /\ Sequenced(q) => SeqIndex(p) < SeqIndex(q)

(* The reader is not ahead of the writer.                                  *)
ReadSound ==
  /\ orderedReadIndex \in Start .. orderedWriteIndex
  /\ highestSequencedReadIndex <= Len(sent)

(* The heap holds what is ahead of the reader, in send order: the weights, *)
(* computed from the wire, agree with the places in sent.                  *)
HeapSound ==
  /\ orderingHeap # <<>> => heapIndexOffset \in Start .. orderedReadIndex
  /\ \A i \in 1 .. Len(orderingHeap) :
       /\ Order(Packet(i)) > orderedReadIndex
       /\ orderingHeap[i].weight = Weight(Packet(i), heapIndexOffset)
  /\ \A i, j \in 1 .. Len(orderingHeap) :
       i < j => /\ Packet(i) <= Packet(j)
                /\ Packet(i) = Packet(j) => Sequenced(Packet(i))

(* An ordered message under way was not read, nor buffered.                *)
NetworkSound ==
  \A p \in network : ~Sequenced(p) =>
    /\ Order(p) >= orderedReadIndex
    /\ \A i \in 1 .. Len(orderingHeap) : Packet(i) # p

(* The output is behind the reader.  highestSequencedReadIndex may be that *)
(* of an earlier ordering index, but never below what was given out for    *)
(* the current one.                                                        *)
OutputSound ==
  \A i \in 1 .. Len(output) :
    /\ Order(output[i]) <= orderedReadIndex
    /\ Order(output[i]) = orderedReadIndex =>
         Sequenced(output[i]) /\ SeqIndex(output[i]) <= highestSequencedReadIndex

(* No ordered message is dropped: it is under way, buffered or given out.  *)
NothingLost ==
  \A p \in 1 .. Len(sent) : ~Sequenced(p) =>
    \/ p \in network
    \/ \E i \in 1 .. Len(orderingHeap) : Packet(i) = p
    \/ \E i \in 1 .. Len(output) : output[i] = p

Sound ==
  /\ TypeOK /\ SentSound /\ ReadSound /\ HeapSound /\ NetworkSound /\ OutputSound /\ NothingLost
  /\ OutputInSendOrder /\ OrderedWithoutGap

-----------------------------------------------------------------------------
(* What the invariant says of one position.                                *)
LEMMA PositionFacts ==
  ASSUME TypeOK, NEW p \in 1 .. Len(sent)
  PROVE  Order(p) \in Nat /\ SeqIndex(p) \in Nat /\ sent[p] \in MessageTypes /\ Len(sent) \in Nat
  <1>1. sent[p] \in MessageTypes /\ Len(sent) \in Nat BY DEF TypeOK
  <1>2. sent[p].orderingIndex \in Nat /\ sent[p].sequencingIndex \in Nat BY <1>1 DEF MessageTypes
  <1> QED BY <1>1, <1>2 DEF Order, SeqIndex

(* Every packet of the heap is a message that was sent.                    *)
LEMMA PacketFacts ==
  ASSUME TypeOK, NEW i \in 1 .. Len(orderingHeap)
  PROVE  Packet(i) \in 1 .. Len(sent) /\ Len(orderingHeap) \in Nat
  <1> DEFINE Entry == [weight : Nat, packet : 1 .. Len(sent)]
  <1>1. orderingHeap \in Seq(Entry) BY DEF TypeOK
  <1> HIDE DEF Entry
  <1>2. orderingHeap[i] \in Entry /\ Len(orderingHeap) \in Nat BY <1>1
  <1>3. orderingHeap[i].packet \in 1 .. Len(sent) BY <1>2 DEF Entry
  <1> QED BY <1>2, <1>3 DEF Packet

(* The weight of a message at or after the heap's first ordering index.    *)
LEMMA WeightValue ==
  ASSUME TypeOK, SentSound, NEW p \in 1 .. Len(sent), NEW o \in Start .. Order(p)
  PROVE  \E s \in 0 .. HeapSpan - 1 :
           /\ Weight(p, o) = (Order(p) - o) * HeapSpan + s
           /\ s = IF Sequenced(p) THEN SeqIndex(p) ELSE HeapSpan - 1
           /\ Sequenced(p) => s < HeapSpan - 1
  <1>1. Order(p) \in Nat /\ SeqIndex(p) \in Nat /\ Len(sent) \in Nat BY PositionFacts
  <1>2. /\ Len(sent) <= MaxMessages /\ Order(p) <= Start + Len(sent)
        /\ Sequenced(p) => SeqIndex(p) < MaxSequenced /\ SeqIndex(p) < Len(sent)
    <2>1. Order(p) \in Start .. orderedWriteIndex /\ orderedWriteIndex \in Start .. Start + Len(sent)
      BY DEF SentSound
    <2>2. Start \in Nat BY OrderingAssumption
    <2>3. Order(p) <= Start + Len(sent) BY <1>1, <2>1, <2>2
    <2> QED BY <2>3 DEF SentSound
  <1>3. /\ MaxMessages \in Nat /\ Start \in Nat /\ HeapSpan \in Nat \ {0}
        /\ MaxSequenced \in Nat /\ MaxSequenced < HeapSpan
    BY OrderingAssumption, OrderingSpanAssumption
  <1>4. Wire(Order(p) - o) = Order(p) - o
    <2>1. Order(p) - o \in 0 .. MaxMessages BY <1>1, <1>2, <1>3
    <2> QED BY <2>1, WireSmall
  <1>5. CASE Sequenced(p)
    <2>1. SeqIndex(p) \in 0 .. MaxMessages /\ SeqIndex(p) \in 0 .. HeapSpan - 1
          /\ SeqIndex(p) < HeapSpan - 1 BY <1>1, <1>2, <1>3, <1>5
    <2>2. Wire(SeqIndex(p)) = SeqIndex(p) BY <2>1, WireSmall
    <2>3. Weight(p, o) = (Order(p) - o) * HeapSpan + SeqIndex(p)
      BY <1>4, <1>5, <2>2 DEF Weight, SeqIndex
    <2> QED BY <1>5, <2>1, <2>3
  <1>6. CASE ~Sequenced(p)
    <2>1. HeapSpan - 1 \in 0 .. HeapSpan - 1 BY <1>3
    <2>2. Weight(p, o) = (Order(p) - o) * HeapSpan + (HeapSpan - 1) BY <1>4, <1>6 DEF Weight
    <2> QED BY <1>6, <2>1, <2>2
  <1> QED BY <1>5, <1>6

(* A heap weight is a natural number.                                      *)
LEMMA WeightNat ==
  ASSUME TypeOK, SentSound, NEW p \in 1 .. Len(sent), NEW o \in Start .. Order(p)
  PROVE  Weight(p, o) \in Nat
  <1>1. PICK s \in 0 .. HeapSpan - 1 : Weight(p, o) = (Order(p) - o) * HeapSpan + s BY WeightValue
  <1>2. Start \in Nat /\ HeapSpan \in Nat BY OrderingAssumption
  <1>3. Order(p) \in Nat BY PositionFacts
  <1>4. Order(p) - o \in Nat BY <1>2, <1>3
  <1>5. (Order(p) - o) * HeapSpan \in Nat BY <1>2, <1>4
  <1> QED BY <1>1, <1>2, <1>5

(* Later messages weigh more: the heap is a queue in send order.           *)
LEMMA WeightOrder ==
  ASSUME TypeOK, SentSound, NEW p \in 1 .. Len(sent), NEW q \in 1 .. Len(sent), p < q,
         NEW o \in Start .. Order(p)
  PROVE  o \in Start .. Order(q) /\ Weight(p, o) < Weight(q, o)
  <1>1. /\ Order(p) \in Nat /\ Order(q) \in Nat /\ SeqIndex(p) \in Nat /\ SeqIndex(q) \in Nat
    BY PositionFacts
  <1>2. /\ Order(p) <= Order(q)
        /\ Order(p) = Order(q) => Sequenced(p) /\ (Sequenced(q) => SeqIndex(p) < SeqIndex(q))
    BY DEF SentSound
  <1>3. Start \in Nat /\ HeapSpan \in Nat \ {0} BY OrderingAssumption
  <1>4. o \in Start .. Order(q) BY <1>1, <1>2, <1>3
  <1>5. PICK s \in 0 .. HeapSpan - 1 :
          /\ Weight(p, o) = (Order(p) - o) * HeapSpan + s
          /\ s = IF Sequenced(p) THEN SeqIndex(p) ELSE HeapSpan - 1
          /\ Sequenced(p) => s < HeapSpan - 1
    BY WeightValue
  <1>6. PICK t \in 0 .. HeapSpan - 1 :
          /\ Weight(q, o) = (Order(q) - o) * HeapSpan + t
          /\ t = IF Sequenced(q) THEN SeqIndex(q) ELSE HeapSpan - 1
    BY <1>4, WeightValue
  <1>7. CASE Order(p) = Order(q)
    <2>1. s < t BY <1>1, <1>2, <1>3, <1>5, <1>6, <1>7
    <2>2. (Order(p) - o) * HeapSpan \in Int BY <1>1, <1>3
    <2> QED BY <1>3, <1>4, <1>5, <1>6, <1>7, <2>1, <2>2
  <1>8. CASE Order(p) < Order(q)
    <2> DEFINE a == Order(p) - o
               b == Order(q) - o
    <2>1. a \in Nat /\ b \in Nat /\ a + 1 <= b BY <1>1, <1>3, <1>4, <1>8
    <2>2. Weight(p, o) = a * HeapSpan + s /\ Weight(q, o) = b * HeapSpan + t BY <1>5, <1>6
    <2> HIDE DEF a, b
    <2>3. (a + 1) * HeapSpan <= b * HeapSpan
      <3>1. PICK d \in Nat : b = (a + 1) + d
        <4>1. b - (a + 1) \in Nat /\ b = (a + 1) + (b - (a + 1)) BY <2>1
        <4> QED BY <4>1
      <3>2. b * HeapSpan = (a + 1) * HeapSpan + d * HeapSpan BY <1>3, <2>1, <3>1
      <3>3. d * HeapSpan \in Nat /\ (a + 1) * HeapSpan \in Nat BY <1>3, <2>1
      <3> QED BY <3>2, <3>3
    <2>4. (a + 1) * HeapSpan = a * HeapSpan + HeapSpan /\ a * HeapSpan \in Nat /\ b * HeapSpan \in Nat
      BY <1>3, <2>1
    <2> QED BY <1>3, <1>4, <2>2, <2>3, <2>4
  <1> QED BY <1>1, <1>2, <1>7, <1>8

-----------------------------------------------------------------------------
(* The ordered messages among the first entries of the heap, one by one.   *)
LEMMA OrderedAmongStep ==
  ASSUME NEW k \in Nat
  PROVE  /\ OrderedAmong(0) = 0
         /\ OrderedAmong(k) \in Nat
         /\ OrderedAmong(k + 1) =
              IF Sequenced(Packet(k + 1)) THEN OrderedAmong(k) ELSE OrderedAmong(k) + 1
  <1> DEFINE T(n) == {i \in 1 .. n : ~Sequenced(Packet(i))}
  <1>1. \A n : OrderedAmong(n) = Cardinality(T(n)) BY DEF OrderedAmong, Packet
  <1>2. T(0) = {} OBVIOUS
  <1>3. IsFiniteSet(T(k))
    <2>1. IsFiniteSet(1 .. k) BY FS_Interval
    <2>2. T(k) \in SUBSET (1 .. k) OBVIOUS
    <2> QED BY <2>1, <2>2, FS_Subset
  <1>4. Cardinality(T(k)) \in Nat BY <1>3, FS_CardinalityType
  <1>5. T(k + 1) = IF Sequenced(Packet(k + 1)) THEN T(k) ELSE T(k) \cup {k + 1} OBVIOUS
  <1>6. k + 1 \notin T(k) OBVIOUS
  <1>7. Cardinality(T(k) \cup {k + 1}) = Cardinality(T(k)) + 1 
    <2> HIDE DEF T
    <2> QED BY <1>3, <1>6, FS_AddElement
  <1>8. Cardinality(T(0)) = 0 BY <1>2, FS_EmptySet
  <1> HIDE DEF T
  <1> QED BY <1>1, <1>4, <1>5, <1>7, <1>8

(* What the heap has returned after its first k entries came "in order":   *)
(* the ordering index reached is at most that of any entry still there,    *)
(* and every index below it was closed by an ordered message returned.     *)
Released(k) ==
  /\ OrderedAmong(k) \in Nat
  /\ orderedReadIndex < orderedWriteIndex => orderedReadIndex + 1 + OrderedAmong(k) <= orderedWriteIndex
  /\ \A j \in k + 1 .. Len(orderingHeap) : Order(Packet(j)) >= orderedReadIndex + 1 + OrderedAmong(k)
  /\ \A i \in 1 .. k : /\ Order(Packet(i)) <= orderedReadIndex + 1 + OrderedAmong(k)
                       /\ ~Sequenced(Packet(i)) => Order(Packet(i)) < orderedReadIndex + 1 + OrderedAmong(k)
  /\ \A o \in orderedReadIndex + 1 .. orderedReadIndex + OrderedAmong(k) :
       \E i \in 1 .. k : ~Sequenced(Packet(i)) /\ Order(Packet(i)) = o

(* The first steps of reading the heap.                                    *)
LEMMA ReleasedZero ==
  ASSUME Sound PROVE Released(0)
  <1>1. OrderedAmong(0) = 0 BY OrderedAmongStep
  <1>2. orderedReadIndex \in Nat /\ orderedWriteIndex \in Nat BY DEF Sound, TypeOK
  <1>3. ASSUME NEW j \in 1 .. Len(orderingHeap) PROVE Order(Packet(j)) >= orderedReadIndex + 1
    <2>1. Packet(j) \in 1 .. Len(sent) /\ Order(Packet(j)) \in Nat BY PacketFacts, PositionFacts DEF Sound
    <2>2. Order(Packet(j)) > orderedReadIndex BY DEF Sound, HeapSound
    <2> QED BY <1>2, <2>1, <2>2
  <1> QED BY <1>1, <1>2, <1>3 DEF Released

(* One more entry in order.                                                *)
LEMMA ReleasedStep ==
  ASSUME Sound, NEW k \in Nat, k + 1 <= Len(orderingHeap), Released(k), InOrder(k + 1)
  PROVE  Released(k + 1)
  <1> DEFINE m == OrderedAmong(k)
             r == orderedReadIndex
             n == Len(orderingHeap)
             next == Packet(k + 1)
  <1>1. /\ r \in Nat /\ orderedWriteIndex \in Nat /\ n \in Nat /\ Len(sent) \in Nat
        /\ Start \in Nat /\ MaxMessages \in Nat
    BY OrderingAssumption DEF Sound, TypeOK
  <1>2. \A i \in 1 .. n : Packet(i) \in 1 .. Len(sent) /\ Order(Packet(i)) \in Nat
    BY PacketFacts, PositionFacts DEF Sound
  <1>3. k + 1 \in 1 .. n /\ (k + 1) - 1 = k /\ k \in Nat BY <1>1
  <1>4. m \in Nat BY DEF Released
  <1>5. \A p \in 1 .. Len(sent) : /\ Order(p) \in Start .. orderedWriteIndex
                                  /\ ~Sequenced(p) => Order(p) < orderedWriteIndex
    BY DEF Sound, SentSound
  <1>6. Order(next) = r + 1 + m
    <2>1. Wire(Order(next)) = Wire(r + 1 + m) BY <1>3 DEF InOrder, Packet
    <2>2. Order(next) > r BY <1>3 DEF Sound, HeapSound
    <2>3. r < orderedWriteIndex /\ Order(next) <= orderedWriteIndex /\ Order(next) \in Nat
      BY <1>1, <1>2, <1>3, <1>5, <2>2
    <2>4. r + 1 + m <= orderedWriteIndex BY <2>3 DEF Released
    <2>5. orderedWriteIndex <= Start + MaxMessages /\ r >= Start
      BY <1>1 DEF Sound, SentSound, ReadSound
    <2>6. Order(next) - (r + 1 + m) \in -(MaxMessages + 1) .. MaxMessages + 1
      BY <1>1, <1>4, <2>2, <2>3, <2>4, <2>5
    <2>7. Order(next) \in Int /\ r + 1 + m \in Int BY <1>1, <1>4, <2>3
    <2> HIDE DEF m, r, next
    <2> QED BY <2>1, <2>6, <2>7, SameOnWire
  <1>7. OrderedAmong(k + 1) = IF Sequenced(next) THEN m ELSE m + 1 BY OrderedAmongStep
  <1>8. ASSUME NEW j \in k + 2 .. n
        PROVE  /\ Order(Packet(j)) >= Order(next)
               /\ ~Sequenced(next) => Order(Packet(j)) > Order(next)
    <2>1. j \in 1 .. n /\ k + 1 < j /\ k + 1 \in 1 .. n BY <1>1, <1>3
    <2>2. next <= Packet(j) /\ (next = Packet(j) => Sequenced(next)) BY <2>1 DEF Sound, HeapSound
    <2>3. next \in 1 .. Len(sent) /\ Packet(j) \in 1 .. Len(sent)
          /\ Order(next) \in Nat /\ Order(Packet(j)) \in Nat BY <1>2, <2>1
    <2>4. CASE next = Packet(j) BY <2>2, <2>3, <2>4
    <2>5. CASE next < Packet(j)
      <3>1. Order(next) <= Order(Packet(j)) /\ (Order(next) = Order(Packet(j)) => Sequenced(next))
        BY <2>3, <2>5 DEF Sound, SentSound
      <3> QED BY <2>3, <3>1
    <2> QED BY <2>2, <2>3, <2>4, <2>5
  <1>9. /\ r < orderedWriteIndex => r + 1 + m <= orderedWriteIndex
        /\ \A i \in 1 .. k : /\ Order(Packet(i)) <= r + 1 + m
                             /\ ~Sequenced(Packet(i)) => Order(Packet(i)) < r + 1 + m
        /\ \A o \in r + 1 .. r + m : \E i \in 1 .. k : ~Sequenced(Packet(i)) /\ Order(Packet(i)) = o
    BY DEF Released
  <1>10. next \in 1 .. Len(sent) /\ (~Sequenced(next) => Order(next) < orderedWriteIndex)
    BY <1>2, <1>3, <1>5
  <1>11. \A i \in 1 .. k : Order(Packet(i)) \in Nat BY <1>1, <1>2
  <1>12. \A j \in k + 2 .. n : Order(Packet(j)) \in Nat BY <1>1, <1>2
  <1>13. CASE Sequenced(next)
    <2>1. OrderedAmong(k + 1) = m BY <1>7, <1>13
    <2>2. \A j \in k + 2 .. n : Order(Packet(j)) >= r + 1 + m BY <1>6, <1>8
    <2>3. \A i \in 1 .. k + 1 : /\ Order(Packet(i)) <= r + 1 + m
                                /\ ~Sequenced(Packet(i)) => Order(Packet(i)) < r + 1 + m
      <3> TAKE i \in 1 .. k + 1
      <3>1. CASE i = k + 1 BY <3>1, <1>1, <1>4, <1>6, <1>13
      <3>2. CASE i # k + 1
        <4>1. i \in 1 .. k BY <3>2
        <4> QED BY <4>1, <1>9
      <3> QED BY <3>1, <3>2
    <2>4. \A o \in r + 1 .. r + m : \E i \in 1 .. k + 1 : ~Sequenced(Packet(i)) /\ Order(Packet(i)) = o
      <3>1. 1 .. k \subseteq 1 .. k + 1 OBVIOUS
      <3> QED BY <1>9, <3>1
    <2>5. (k + 1) + 1 = k + 2 OBVIOUS
    <2> QED BY <1>4, <1>9, <2>1, <2>2, <2>3, <2>4, <2>5 DEF Released
  <1>14. CASE ~Sequenced(next)
    <2>1. OrderedAmong(k + 1) = m + 1 /\ m + 1 \in Nat BY <1>4, <1>7, <1>14
    <2>2. \A j \in k + 2 .. n : Order(Packet(j)) >= r + 1 + (m + 1)
      BY <1>1, <1>4, <1>6, <1>8, <1>12, <1>14
    <2>3. \A i \in 1 .. k + 1 : /\ Order(Packet(i)) <= r + 1 + (m + 1)
                                /\ ~Sequenced(Packet(i)) => Order(Packet(i)) < r + 1 + (m + 1)
      <3> TAKE i \in 1 .. k + 1
      <3>1. CASE i = k + 1 BY <3>1, <1>1, <1>4, <1>6
      <3>2. CASE i # k + 1
        <4>1. i \in 1 .. k BY <3>2
        <4>2. Order(Packet(i)) <= r + 1 + m /\ Order(Packet(i)) \in Nat BY <4>1, <1>9, <1>11
        <4> QED BY <1>1, <1>4, <4>2
      <3> QED BY <3>1, <3>2
    <2>4. \A o \in r + 1 .. r + (m + 1) : \E i \in 1 .. k + 1 : ~Sequenced(Packet(i)) /\ Order(Packet(i)) = o
      <3> TAKE o \in r + 1 .. r + (m + 1)
      <3>1. CASE o = r + 1 + m
        <4>1. k + 1 \in 1 .. k + 1 BY <1>3
        <4> QED BY <4>1, <3>1, <1>6, <1>14
      <3>2. CASE o # r + 1 + m
        <4>1. o \in r + 1 .. r + m BY <1>1, <1>4, <3>2
        <4>2. PICK i \in 1 .. k : ~Sequenced(Packet(i)) /\ Order(Packet(i)) = o BY <4>1, <1>9
        <4>3. i \in 1 .. k + 1 OBVIOUS
        <4> QED BY <4>2, <4>3
      <3> QED BY <3>1, <3>2
    <2>5. r + 1 + (m + 1) <= orderedWriteIndex
      BY <1>1, <1>4, <1>6, <1>10, <1>14
    <2>6. (k + 1) + 1 = k + 2 OBVIOUS
    <2> HIDE DEF m, r, n, next
    <2> QED BY <2>1, <2>2, <2>3, <2>4, <2>5, <2>6 DEF Released, r, n
  <1> QED BY <1>13, <1>14

(* Whatever number of entries the heap returns.                            *)
LEMMA ReleasedPrefix ==
  ASSUME Sound, NEW k \in 0 .. Len(orderingHeap), \A i \in 1 .. k : InOrder(i)
  PROVE  Released(k)
  <1> DEFINE S == {j \in Nat : j <= k => Released(j)}
  <1>1. Len(orderingHeap) \in Nat /\ k \in Nat BY DEF Sound, TypeOK
  <1>2. 0 \in S BY ReleasedZero
  <1>3. ASSUME NEW j \in Nat, j \in S PROVE j + 1 \in S
    <2>1. SUFFICES ASSUME j + 1 <= k PROVE Released(j + 1) OBVIOUS
    <2>2. Released(j) /\ j + 1 \in 1 .. k /\ j + 1 <= Len(orderingHeap) BY <1>1, <1>3, <2>1
    <2>3. InOrder(j + 1) BY <2>2
    <2> QED BY <2>2, <2>3, ReleasedStep
  <1> HIDE DEF S
  <1>4. Nat \subseteq S BY <1>2, <1>3, Induction
  <1> QED BY <1>1, <1>4 DEF S

(* A non-empty set of numbers up to k has a greatest one.                  *)
LEMMA GreatestNumber ==
  ASSUME NEW k \in Nat, NEW T \in SUBSET (1 .. k), T # {}
  PROVE  \E i \in T : \A j \in T : j <= i
  <1> DEFINE U == {k - j : j \in T}
  <1>1. U \in SUBSET Nat /\ U # {}
    <2>1. \A j \in T : k - j \in Nat OBVIOUS
    <2>2. PICK j \in T : TRUE OBVIOUS
    <2>3. k - j \in U OBVIOUS
    <2> QED BY <2>1, <2>3
  <1>2. PICK n \in U : \A m \in U : n <= m
    <2> HIDE DEF U
    <2> QED BY <1>1, LeastNumber
  <1>3. PICK i \in T : n = k - i OBVIOUS
  <1>4. \A j \in T : k - i <= k - j BY <1>2, <1>3
  <1>5. ASSUME NEW j \in T PROVE j <= i
    <2>1. i \in Int /\ j \in Int /\ k - i <= k - j BY <1>4
    <2> HIDE DEF U
    <2> QED BY <2>1
  <1> QED BY <1>5

-----------------------------------------------------------------------------
(* Steps that leave the receiver as it is.                                 *)

(* The sender's indices stay sound while it sends nothing.                 *)
LEMMA SentKept ==
  ASSUME Sound, UNCHANGED senderVars
  PROVE  /\ SentSound' /\ sent' = sent /\ orderedWriteIndex' = orderedWriteIndex
         /\ sequencedWriteIndex' = sequencedWriteIndex
         /\ \A q : Order(q)' = Order(q) /\ SeqIndex(q)' = SeqIndex(q) /\ Sequenced(q)' = Sequenced(q)
         /\ \A q, o : Weight(q, o)' = Weight(q, o)
  <1>1. sent' = sent /\ orderedWriteIndex' = orderedWriteIndex
        /\ sequencedWriteIndex' = sequencedWriteIndex BY DEF senderVars
  <1>2. \A q : Order(q)' = Order(q) /\ SeqIndex(q)' = SeqIndex(q) /\ Sequenced(q)' = Sequenced(q)
    BY <1>1 DEF Order, SeqIndex, Sequenced
  <1>3. SentSound' BY <1>1 DEF Sound, SentSound, Order, SeqIndex, Sequenced
  <1>4. \A q, o : Weight(q, o)' = Weight(q, o) BY <1>1 DEF Weight, Wire, Order, SeqIndex, Sequenced
  <1> QED BY <1>1, <1>2, <1>3, <1>4

(* A copy lost, or dropped by the receiver, when it is not the one copy of *)
(* an ordered message.                                                     *)
LEMMA QuietStep ==
  ASSUME Sound, UNCHANGED <<senderVars, receiverVars>>, network' \subseteq network,
         duplicates' \in 0 .. MaxDuplicates,
         \A q \in network : ~Sequenced(q) => q \in network'
  PROVE  Sound'
  <1>1. UNCHANGED senderVars OBVIOUS
  <1>2. /\ SentSound' /\ sent' = sent /\ orderedWriteIndex' = orderedWriteIndex
        /\ sequencedWriteIndex' = sequencedWriteIndex
    BY <1>1, SentKept
  <1>3. /\ orderedReadIndex' = orderedReadIndex /\ orderingHeap' = orderingHeap
        /\ highestSequencedReadIndex' = highestSequencedReadIndex
        /\ heapIndexOffset' = heapIndexOffset /\ output' = output
    BY DEF receiverVars
  <1>4. TypeOK' BY <1>2, <1>3 DEF Sound, TypeOK
  <1>5. ReadSound' BY <1>2, <1>3 DEF Sound, ReadSound
  <1>6. HeapSound' BY <1>2, <1>3 DEF Sound, HeapSound, Order, Packet, Sequenced, Weight, Wire
  <1>7. NetworkSound' BY <1>2, <1>3 DEF Sound, NetworkSound, Order, Packet, Sequenced
  <1>8. OutputSound' BY <1>2, <1>3 DEF Sound, OutputSound, Order, Sequenced, SeqIndex
  <1>9. NothingLost' BY <1>2, <1>3 DEF Sound, NothingLost, Packet, Sequenced
  <1>10. OutputInSendOrder' BY <1>3 DEF Sound, OutputInSendOrder
  <1>11. OrderedWithoutGap' BY <1>2, <1>3 DEF Sound, OrderedWithoutGap, Order, Sequenced
  <1> QED BY <1>2, <1>4, <1>5, <1>6, <1>7, <1>8, <1>9, <1>10, <1>11 DEF Sound

(* How a message under way stands to the reader, on the wire and off it.   *)
LEMMA Standing ==
  ASSUME Sound, NEW p \in network
  PROVE  /\ p \in 1 .. Len(sent) /\ Order(p) \in Nat /\ orderedReadIndex \in Nat
         /\ Wire(Order(p)) = Wire(orderedReadIndex) <=> Order(p) = orderedReadIndex
         /\ Order(p) > orderedReadIndex => ~IsOlderOrderedPacket(Wire(Order(p)), Wire(orderedReadIndex))
         /\ Order(p) < orderedReadIndex =>
              Sequenced(p) /\ IsOlderOrderedPacket(Wire(Order(p)), Wire(orderedReadIndex))
  <1> DEFINE a == Order(p)
             r == orderedReadIndex
  <1>1. p \in 1 .. Len(sent) /\ r \in Nat /\ Len(sent) \in Nat BY DEF Sound, TypeOK
  <1>2. a \in Nat BY <1>1, PositionFacts DEF Sound
  <1>3. /\ a \in Start .. orderedWriteIndex /\ r \in Start .. orderedWriteIndex
        /\ Len(sent) <= MaxMessages /\ orderedWriteIndex \in Start .. Start + Len(sent)
        /\ Sequenced(p) => orderedWriteIndex < Start + Len(sent)
    BY <1>1 DEF Sound, SentSound, ReadSound
  <1>4. Start \in Nat /\ MaxMessages \in Nat BY OrderingAssumption
  <1>5. ~Sequenced(p) => a >= r BY DEF Sound, NetworkSound
  <1> HIDE DEF a, r
  <1>6. Wire(a) = Wire(r) => a = r
    <2>1. a - r \in -(MaxMessages + 1) .. MaxMessages + 1 /\ a \in Int /\ r \in Int
      BY <1>1, <1>2, <1>3, <1>4
    <2> QED BY <2>1, SameOnWire
  <1>7. a > r => ~IsOlderOrderedPacket(Wire(a), Wire(r))
    <2> SUFFICES ASSUME a > r PROVE ~IsOlderOrderedPacket(Wire(a), Wire(r)) OBVIOUS
    <2>1. a - r \in 0 .. MaxMessages /\ a \in Int /\ r \in Int BY <1>1, <1>2, <1>3, <1>4
    <2> QED BY <2>1, AheadNotOlder
  <1>8. a < r => Sequenced(p) /\ IsOlderOrderedPacket(Wire(a), Wire(r))
    <2> SUFFICES ASSUME a < r PROVE Sequenced(p) /\ IsOlderOrderedPacket(Wire(a), Wire(r)) OBVIOUS
    <2>1. Sequenced(p) BY <1>1, <1>2, <1>5
    <2>2. r - a \in 1 .. MaxMessages - 1 /\ a \in Int /\ r \in Int BY <1>1, <1>2, <1>3, <1>4, <2>1
    <2> QED BY <2>1, <2>2, BehindIsOlder
  <1> QED BY <1>1, <1>2, <1>6, <1>7, <1>8 DEF a, r

(* What an arrival takes from the network.                                 *)
LEMMA Arrived ==
  ASSUME Sound, NEW p \in network, Arrive(p)
  PROVE  /\ network' \subseteq network /\ network \ {p} \subseteq network'
         /\ ~Sequenced(p) => p \notin network'
         /\ duplicates' \in 0 .. MaxDuplicates
  <1>1. duplicates \in 0 .. MaxDuplicates BY DEF Sound, TypeOK
  <1>2. MaxDuplicates \in Nat BY OrderingAssumption
  <1> QED BY <1>1, <1>2 DEF Arrive, Sequenced

(* A message behind the reader is dropped: it is never an ordered one.     *)
LEMMA RejectStep ==
  ASSUME Sound, NEW p \in network, Arrive(p), RejectOlder(p), UNCHANGED senderVars
  PROVE  Sound'
  <1>1. Sequenced(p)
    <2>1. /\ Wire(Order(p)) # Wire(orderedReadIndex)
          /\ IsOlderOrderedPacket(Wire(Order(p)), Wire(orderedReadIndex)) BY DEF RejectOlder
    <2> QED BY <2>1, Standing
  <1>2. UNCHANGED receiverVars BY DEF RejectOlder
  <1> QED BY <1>1, <1>2, Arrived, QuietStep

(* An unreliable message is lost.                                          *)
LEMMA LoseStep ==
  ASSUME Sound, NEW p \in network, Lose(p)
  PROVE  Sound'
  <1>1. Sequenced(p) BY DEF Lose, Sequenced
  <1>2. network' = network \ {p} /\ duplicates' = duplicates BY DEF Lose
  <1>3. UNCHANGED senderVars /\ UNCHANGED receiverVars BY DEF Lose
  <1>4. duplicates' \in 0 .. MaxDuplicates BY <1>2 DEF Sound, TypeOK
  <1> QED BY <1>1, <1>2, <1>3, <1>4, QuietStep

-----------------------------------------------------------------------------
(* A sequenced message of the current ordering index comes out unless a    *)
(* later one did.                                                          *)
LEMMA SequencedStep ==
  ASSUME Sound, NEW p \in network, Arrive(p), ReceiveSequenced(p), UNCHANGED senderVars
  PROVE  Sound'
  <1>1. Sequenced(p) /\ Wire(Order(p)) = Wire(orderedReadIndex) BY DEF ReceiveSequenced
  <1>2. p \in 1 .. Len(sent) /\ Order(p) = orderedReadIndex BY <1>1, Standing
  <1>3. CASE UNCHANGED receiverVars BY <1>1, <1>3, Arrived, QuietStep
  <1>4. CASE ~UNCHANGED receiverVars
    <2> DEFINE h == highestSequencedReadIndex
               L == Len(output)
    <2>1. /\ ~IsOlderOrderedPacket(Wire(SeqIndex(p)), Wire(h))
          /\ highestSequencedReadIndex' = SeqIndex(p) + 1
          /\ output' = Append(output, p)
          /\ orderedReadIndex' = orderedReadIndex /\ orderingHeap' = orderingHeap
          /\ heapIndexOffset' = heapIndexOffset
      BY <1>4 DEF ReceiveSequenced, SeqIndex
    <2>2. /\ SentSound' /\ sent' = sent /\ orderedWriteIndex' = orderedWriteIndex
          /\ sequencedWriteIndex' = sequencedWriteIndex
      BY SentKept
    <2>3. network' \subseteq network /\ network \ {p} \subseteq network' /\ duplicates' \in 0 .. MaxDuplicates
      BY Arrived
    <2>4. /\ SeqIndex(p) \in Nat /\ Len(sent) \in Nat /\ h \in Nat /\ MaxMessages \in Nat
          /\ output \in Seq(1 .. Len(sent)) /\ L \in Nat
      BY <1>2, PositionFacts, OrderingAssumption DEF Sound, TypeOK
    <2>5. SeqIndex(p) < Len(sent) /\ Len(sent) <= MaxMessages /\ h <= Len(sent)
      BY <1>1, <1>2 DEF Sound, SentSound, ReadSound
    <2>6. h <= SeqIndex(p)
      <3>1. SeqIndex(p) \in 0 .. MaxMessages - 1 /\ h \in 0 .. MaxMessages BY <2>4, <2>5
      <3> QED BY <2>1, <2>4, <3>1, OlderIsSmaller
    <2>7. /\ output' \in Seq(1 .. Len(sent)) /\ Len(output') = L + 1 /\ output'[L + 1] = p
          /\ \A i \in 1 .. L : output'[i] = output[i]
      BY <1>2, <2>1, <2>4
    <2>8. \A i \in 1 .. L : output[i] \in 1 .. Len(sent) /\ output[i] \in Nat
      BY <2>4
    <2>9. ASSUME NEW i \in 1 .. L PROVE output[i] <= p
      <3>1. /\ Order(output[i]) <= orderedReadIndex
            /\ Order(output[i]) = orderedReadIndex =>
                 Sequenced(output[i]) /\ SeqIndex(output[i]) <= h
        BY DEF Sound, OutputSound
      <3>2. output[i] \in 1 .. Len(sent) /\ Order(output[i]) \in Nat /\ SeqIndex(output[i]) \in Nat
            /\ Order(p) \in Nat
        BY <1>2, <2>8, PositionFacts DEF Sound
      <3>3. SUFFICES ASSUME p < output[i] PROVE FALSE BY <1>2, <3>2
      <3>4. /\ Order(p) <= Order(output[i])
            /\ Order(p) = Order(output[i]) => (Sequenced(output[i]) => SeqIndex(p) < SeqIndex(output[i]))
        BY <1>2, <3>2, <3>3 DEF Sound, SentSound
      <3> QED BY <1>2, <2>4, <2>6, <3>1, <3>2, <3>4
    <2>10. TypeOK' BY <2>1, <2>2, <2>3, <2>4, <2>7 DEF Sound, TypeOK
    <2>11. ReadSound' BY <2>1, <2>2, <2>4, <2>5 DEF Sound, ReadSound
    <2>12. HeapSound' BY <2>1, <2>2 DEF Sound, HeapSound, Order, Packet, Sequenced, Weight, Wire
    <2>13. NetworkSound' BY <2>1, <2>2, <2>3 DEF Sound, NetworkSound, Order, Packet, Sequenced
    <2>14. OutputSound'
      <3>1. ASSUME NEW i \in 1 .. L
            PROVE  /\ Order(output[i]) <= orderedReadIndex
                   /\ Order(output[i]) = orderedReadIndex =>
                        Sequenced(output[i]) /\ SeqIndex(output[i]) <= SeqIndex(p) + 1
        <4>1. /\ Order(output[i]) <= orderedReadIndex
              /\ Order(output[i]) = orderedReadIndex =>
                   Sequenced(output[i]) /\ SeqIndex(output[i]) <= h
          BY DEF Sound, OutputSound
        <4>2. SeqIndex(output[i]) \in Nat BY <2>8, PositionFacts DEF Sound
        <4> QED BY <2>4, <2>6, <4>1, <4>2
      <3>2. Order(p) <= orderedReadIndex BY <1>2, Standing
      <3>3. SeqIndex(p) <= SeqIndex(p) + 1 BY <2>4
      <3>4. ASSUME NEW i \in 1 .. L + 1
            PROVE  /\ Order(output'[i]) <= orderedReadIndex
                   /\ Order(output'[i]) = orderedReadIndex =>
                        Sequenced(output'[i]) /\ SeqIndex(output'[i]) <= SeqIndex(p) + 1
        <4>1. CASE i = L + 1 BY <4>1, <1>1, <2>7, <3>2, <3>3
        <4>2. CASE i # L + 1
          <5>1. i \in 1 .. L BY <4>2, <2>4
          <5> QED BY <5>1, <2>7, <3>1
        <4> QED BY <4>1, <4>2
      <3> HIDE DEF L, h
      <3> QED BY <2>1, <2>2, <2>7, <3>4 DEF OutputSound, Order, Sequenced, SeqIndex
    <2>15. NothingLost'
      <3>1. \A i \in 1 .. L : i \in 1 .. L + 1 BY <2>4
      <3> QED BY <1>1, <2>1, <2>2, <2>3, <2>7, <3>1 DEF Sound, NothingLost, Packet, Sequenced
    <2>16. OutputInSendOrder'
      <3>1. DOMAIN output = 1 .. L /\ DOMAIN output' = 1 .. L + 1 BY <2>4, <2>7
      <3>2. SUFFICES ASSUME NEW i \in 1 .. L + 1, NEW j \in 1 .. L + 1, i < j
                     PROVE  output'[i] <= output'[j]
        BY <3>1 DEF OutputInSendOrder
      <3>3. i \in 1 .. L BY <2>4, <3>2
      <3>4. CASE j = L + 1 BY <2>7, <2>9, <3>3, <3>4
      <3>5. CASE j # L + 1
        <4>1. j \in 1 .. L BY <2>4, <3>5
        <4> QED BY <2>7, <3>1, <3>2, <3>3, <4>1 DEF Sound, OutputInSendOrder
      <3> QED BY <3>4, <3>5
    <2>17. OrderedWithoutGap'
      <3>1. DOMAIN output = 1 .. L /\ DOMAIN output' = 1 .. L + 1 BY <2>4, <2>7
      <3>2. \A q : ~Sequenced(q) =>
              ((\E i \in 1 .. L + 1 : output'[i] = q) <=> \E i \in 1 .. L : output[i] = q)
        <4> TAKE q
        <4>1. SUFFICES ASSUME ~Sequenced(q)
                       PROVE  (\E i \in 1 .. L + 1 : output'[i] = q) <=> \E i \in 1 .. L : output[i] = q
          OBVIOUS
        <4>2. q # p BY <1>1, <4>1
        <4>3. \A i \in 1 .. L + 1 : i \in 1 .. L \/ i = L + 1 BY <2>4
        <4>4. \A i \in 1 .. L : i \in 1 .. L + 1 BY <2>4
        <4> QED BY <2>7, <4>2, <4>3, <4>4
      <3>3. ASSUME NEW q \in DOMAIN sent, ~Sequenced(q)
            PROVE  Order(q) < orderedReadIndex <=> \E i \in 1 .. L + 1 : output'[i] = q
        BY <3>1, <3>2, <3>3 DEF Sound, OrderedWithoutGap
      <3>4. ASSUME NEW i \in 1 .. L + 1, NEW j \in 1 .. L + 1, output'[i] = output'[j], i # j
            PROVE  Sequenced(output'[i])
        <4>1. CASE i = L + 1 BY <1>1, <2>7, <4>1
        <4>2. CASE j = L + 1 BY <1>1, <2>7, <3>4, <4>2
        <4>3. CASE i # L + 1 /\ j # L + 1
          <5>1. i \in 1 .. L /\ j \in 1 .. L BY <2>4, <4>3
          <5> QED BY <2>7, <3>1, <3>4, <5>1 DEF Sound, OrderedWithoutGap
        <4> QED BY <4>1, <4>2, <4>3
      <3> HIDE DEF L
      <3> QED BY <2>1, <2>2, <3>1, <3>3, <3>4 DEF OrderedWithoutGap, Order, Sequenced
    <2> QED BY <2>2, <2>10, <2>11, <2>12, <2>13, <2>14, <2>15, <2>16, <2>17 DEF Sound
  <1> QED BY <1>3, <1>4

(* A message ahead of the reader takes its place in the heap.              *)
LEMMA BufferStep ==
  ASSUME Sound, NEW p \in network, Arrive(p), Buffer(p), UNCHANGED senderVars
  PROVE  Sound'
  <1> DEFINE o == heapIndexOffset'
             n == Len(orderingHeap)
             Entry == [weight : Nat, packet : 1 .. Len(sent)]
             e == [weight |-> Weight(p, o), packet |-> p]
             r == orderedReadIndex
  <1>1. /\ p \in 1 .. Len(sent) /\ Order(p) \in Nat /\ r \in Nat /\ Order(p) > r
    <2>1. /\ Wire(Order(p)) # Wire(r) /\ ~IsOlderOrderedPacket(Wire(Order(p)), Wire(r)) BY DEF Buffer
    <2> HIDE DEF r
    <2>2. Order(p) # r /\ ~(Order(p) < r) /\ p \in 1 .. Len(sent) /\ Order(p) \in Nat /\ r \in Nat
      BY <2>1, Standing DEF r
    <2> QED BY <2>2
  <1>2. /\ orderedReadIndex' = r /\ highestSequencedReadIndex' = highestSequencedReadIndex
        /\ output' = output
        /\ o = IF orderingHeap = <<>> THEN r ELSE heapIndexOffset
    BY DEF Buffer
  <1>3. PICK i \in 1 .. n + 1 :
          /\ \A j \in 1 .. i - 1 : orderingHeap[j].weight <= Weight(p, o)
          /\ \A j \in i .. n : Weight(p, o) <= orderingHeap[j].weight
          /\ orderingHeap' = SubSeq(orderingHeap, 1, i - 1) \o <<e>> \o SubSeq(orderingHeap, i, n)
    BY DEF Buffer, InsertAt
  <1>4. /\ SentSound' /\ sent' = sent /\ orderedWriteIndex' = orderedWriteIndex
        /\ sequencedWriteIndex' = sequencedWriteIndex
    BY SentKept
  <1>5. /\ network' \subseteq network /\ network \ {p} \subseteq network' /\ duplicates' \in 0 .. MaxDuplicates
        /\ ~Sequenced(p) => p \notin network'
    BY Arrived
  <1>6. orderingHeap \in Seq(Entry) /\ n \in Nat BY DEF Sound, TypeOK
  <1>7. Start \in Nat /\ r >= Start BY OrderingAssumption DEF Sound, ReadSound
  <1>8. n # 0 => orderingHeap # <<>> BY <1>6
  <1>9. o \in Start .. r
    BY <1>1, <1>2, <1>7 DEF Sound, HeapSound
  <1>10. o \in Start .. Order(p) /\ o \in Nat BY <1>1, <1>7, <1>9
  <1>11. e \in Entry
    <2>1. Weight(p, o) \in Nat BY <1>1, <1>10, WeightNat DEF Sound
    <2> QED BY <1>1, <2>1
  <1>12. \A j \in 1 .. n : /\ Packet(j) \in 1 .. Len(sent) /\ Order(Packet(j)) \in Nat
                           /\ Order(Packet(j)) > r /\ o \in Start .. Order(Packet(j))
                           /\ orderingHeap[j].weight = Weight(Packet(j), o)
                           /\ Weight(Packet(j), o) \in Nat
    <2> TAKE j \in 1 .. n
    <2>1. Packet(j) \in 1 .. Len(sent) BY PacketFacts DEF Sound
    <2>2. Order(Packet(j)) \in Nat BY <2>1, PositionFacts DEF Sound
    <2>3. Order(Packet(j)) > r BY DEF Sound, HeapSound
    <2>4. o \in Start .. Order(Packet(j)) BY <1>1, <1>7, <1>9, <2>2, <2>3
    <2>5. o = heapIndexOffset
      <3>1. n # 0 BY <1>6
      <3> QED BY <1>2, <1>8, <3>1
    <2>6. orderingHeap[j].weight = Weight(Packet(j), o) BY <2>5 DEF Sound, HeapSound
    <2> HIDE DEF o
    <2>7. Weight(Packet(j), o) \in Nat BY <2>1, <2>4, WeightNat DEF Sound
    <2> QED BY <2>1, <2>2, <2>3, <2>4, <2>6, <2>7
  <1>13. Weight(p, o) \in Nat
    <2> HIDE DEF o
    <2> QED BY <1>1, <1>10, WeightNat DEF Sound
  <1>14. i \in Nat /\ i >= 1 /\ i <= n + 1 BY <1>6
  <1> HIDE DEF o, n, e, Entry
  <1>15. /\ orderingHeap' \in Seq(Entry) /\ Len(orderingHeap') = n + 1
         /\ \A j \in 1 .. n + 1 : orderingHeap'[j] = IF j < i THEN orderingHeap[j]
                                                     ELSE IF j = i THEN e ELSE orderingHeap[j - 1]
    <2> DEFINE front == SubSeq(orderingHeap, 1, i - 1)
               back == SubSeq(orderingHeap, i, n)
    <2>1. front \in Seq(Entry) /\ Len(front) = i - 1 /\ \A j \in 1 .. i - 1 : front[j] = orderingHeap[j]
      BY <1>6, <1>14 DEF n
    <2>2. back \in Seq(Entry) /\ Len(back) = n - i + 1 /\ \A j \in 1 .. n - i + 1 : back[j] = orderingHeap[j + i - 1]
      BY <1>6, <1>14 DEF n
    <2> HIDE DEF front, back
    <2>3. <<e>> \in Seq(Entry) /\ Len(<<e>>) = 1 /\ <<e>>[1] = e BY <1>11
    <2> DEFINE f == front \o <<e>>
    <2>4. f \in Seq(Entry) /\ Len(f) = i /\ \A j \in 1 .. i : f[j] = IF j < i THEN front[j] ELSE e
      BY <1>14, <2>1, <2>3
    <2> HIDE DEF f
    <2>5. /\ f \o back \in Seq(Entry) /\ Len(f \o back) = n + 1
          /\ \A j \in 1 .. n + 1 : (f \o back)[j] = IF j <= i THEN f[j] ELSE back[j - i]
      BY <1>6, <1>14, <2>2, <2>4
    <2>6. orderingHeap' = f \o back BY <1>3 DEF f, front, back, n
    <2>7. \A j \in 1 .. n + 1 : orderingHeap'[j] = IF j < i THEN orderingHeap[j]
                                                   ELSE IF j = i THEN e ELSE orderingHeap[j - 1]
      <3> TAKE j \in 1 .. n + 1
      <3>1. CASE j < i
        <4>1. j \in 1 .. i /\ j \in 1 .. i - 1 /\ j <= i BY <1>6, <1>14, <3>1
        <4> QED BY <2>1, <2>4, <2>5, <2>6, <3>1, <4>1
      <3>2. CASE j = i
        <4>1. j \in 1 .. i /\ j <= i /\ ~(j < i) BY <1>6, <1>14, <3>2
        <4> QED BY <2>4, <2>5, <2>6, <3>2, <4>1
      <3>3. CASE j > i
        <4>1. j - i \in 1 .. n - i + 1 /\ ~(j <= i) /\ (j - i) + i - 1 = j - 1 BY <1>6, <1>14, <3>3
        <4>2. back[j - i] = orderingHeap[(j - i) + i - 1] BY <2>2, <4>1
        <4> QED BY <1>14, <2>5, <2>6, <3>3, <4>1, <4>2
      <3> QED BY <1>6, <1>14, <3>1, <3>2, <3>3
    <2> QED BY <2>5, <2>6, <2>7
  <1> DEFINE P(j) == orderingHeap'[j].packet
  <1>16. e.packet = p /\ e.weight = Weight(p, o) BY DEF e
  <1>17. \A j \in 1 .. n + 1 : /\ j < i => j \in 1 .. n /\ P(j) = Packet(j)
                               /\ j = i => P(j) = p
                               /\ j > i => j - 1 \in 1 .. n /\ j - 1 >= i /\ P(j) = Packet(j - 1)
    BY <1>6, <1>14, <1>15, <1>16 DEF Packet
  <1>18. \A j \in 1 .. i - 1 : j \in 1 .. n /\ Packet(j) <= p
    <2> TAKE j \in 1 .. i - 1
    <2>1. j \in 1 .. n BY <1>6, <1>14
    <2>2. Weight(Packet(j), o) <= Weight(p, o) BY <1>3, <1>12, <2>1
    <2>3. ~(p < Packet(j))
      <3>1. p < Packet(j) => Weight(p, o) < Weight(Packet(j), o)
        BY <1>1, <1>10, <1>12, <2>1, WeightOrder DEF Sound
      <3> QED BY <1>12, <1>13, <2>1, <2>2, <3>1
    <2> QED BY <1>1, <1>12, <2>1, <2>3
  <1>19. \A j \in i .. n : j \in 1 .. n /\ p <= Packet(j)
    <2> TAKE j \in i .. n
    <2>1. j \in 1 .. n BY <1>6, <1>14
    <2>2. Weight(p, o) <= Weight(Packet(j), o) BY <1>3, <1>12, <2>1
    <2>3. ~(Packet(j) < p)
      <3>1. Packet(j) < p => Weight(Packet(j), o) < Weight(p, o)
        BY <1>1, <1>10, <1>12, <2>1, WeightOrder DEF Sound
      <3> QED BY <1>12, <1>13, <2>1, <2>2, <3>1
    <2> QED BY <1>1, <1>12, <2>1, <2>3
  <1>20. \A j \in 1 .. n : ~Sequenced(p) => Packet(j) # p
    BY DEF Sound, NetworkSound, n
  <1>21. TypeOK'
    <2>1. orderingHeap' \in Seq([weight : Nat, packet : 1 .. Len(sent')]) BY <1>4, <1>15 DEF Entry
    <2>2. heapIndexOffset' \in Nat BY <1>10 DEF o
    <2> QED BY <1>2, <1>4, <1>5, <2>1, <2>2 DEF Sound, TypeOK
  <1>22. ReadSound' BY <1>2, <1>4 DEF Sound, ReadSound
  <1>23. HeapSound'
    <2>1. ASSUME NEW j \in 1 .. n + 1
          PROVE  Order(P(j)) > r /\ orderingHeap'[j].weight = Weight(P(j), o)
      <3>1. CASE j < i
        <4>1. j \in 1 .. n /\ orderingHeap'[j] = orderingHeap[j] BY <1>15, <1>17, <3>1
        <4> QED BY <1>12, <4>1 DEF Packet
      <3>2. CASE j = i
        <4>1. orderingHeap'[j] = e BY <1>14, <1>15, <3>2
        <4> QED BY <1>1, <1>16, <4>1
      <3>3. CASE j > i
        <4>1. j - 1 \in 1 .. n /\ orderingHeap'[j] = orderingHeap[j - 1] BY <1>14, <1>15, <1>17, <3>3
        <4> QED BY <1>12, <4>1 DEF Packet
      <3> QED BY <1>14, <3>1, <3>2, <3>3
    <2>2. ASSUME NEW j \in 1 .. n + 1, NEW k \in 1 .. n + 1, j < k
          PROVE  P(j) <= P(k) /\ (P(j) = P(k) => Sequenced(P(j)))
      <3>1. \A x, y \in 1 .. n : x < y => /\ Packet(x) <= Packet(y)
                                          /\ Packet(x) = Packet(y) => Sequenced(Packet(x))
        BY DEF Sound, HeapSound, n
      <3>2. CASE k < i
        <4>1. P(j) = Packet(j) /\ P(k) = Packet(k) /\ j \in 1 .. n /\ k \in 1 .. n
          BY <1>14, <1>17, <2>2, <3>2
        <4> QED BY <2>2, <3>1, <4>1
      <3>3. CASE k = i
        <4>1. P(j) = Packet(j) /\ P(k) = p /\ j \in 1 .. i - 1 /\ j \in 1 .. n
          BY <1>14, <1>17, <2>2, <3>3
        <4> QED BY <1>18, <1>20, <4>1
      <3>4. CASE k > i /\ j < i
        <4>1. P(j) = Packet(j) /\ P(k) = Packet(k - 1) /\ j \in 1 .. n /\ k - 1 \in 1 .. n /\ j < k - 1
          BY <1>14, <1>17, <2>2, <3>4
        <4> QED BY <3>1, <4>1
      <3>5. CASE k > i /\ j = i
        <4>1. P(j) = p /\ P(k) = Packet(k - 1) /\ k - 1 \in i .. n /\ k - 1 \in 1 .. n
          BY <1>14, <1>17, <2>2, <3>5
        <4> QED BY <1>19, <1>20, <4>1
      <3>6. CASE k > i /\ j > i
        <4>1. P(j) = Packet(j - 1) /\ P(k) = Packet(k - 1) /\ j - 1 \in 1 .. n /\ k - 1 \in 1 .. n
              /\ j - 1 < k - 1
          BY <1>14, <1>17, <2>2, <3>6
        <4> QED BY <3>1, <4>1
      <3> QED BY <1>14, <3>2, <3>3, <3>4, <3>5, <3>6
    <2>3. \A q : Order(q)' = Order(q) /\ Sequenced(q)' = Sequenced(q) BY SentKept
    <2>4. \A q, x : Weight(q, x)' = Weight(q, x) BY SentKept
    <2>5. ASSUME NEW j \in 1 .. Len(orderingHeap')
          PROVE  /\ (Order(Packet(j)) > orderedReadIndex)'
                 /\ (orderingHeap[j].weight = Weight(Packet(j), heapIndexOffset))'
      BY <1>2, <1>4, <1>15, <2>1 DEF Packet, Order, Weight, Sequenced, Wire, o
    <2>6. ASSUME NEW j \in 1 .. Len(orderingHeap'), NEW k \in 1 .. Len(orderingHeap'), j < k
          PROVE  (/\ Packet(j) <= Packet(k) /\ (Packet(j) = Packet(k) => Sequenced(Packet(j))))'
      BY <1>4, <1>15, <2>2, <2>6 DEF Packet, Sequenced
    <2>7. heapIndexOffset' \in Start .. orderedReadIndex' BY <1>2, <1>9 DEF o
    <2> QED BY <2>5, <2>6, <2>7 DEF HeapSound
  <1>24. NetworkSound'
    <2>1. ASSUME NEW q \in network', ~Sequenced(q)
          PROVE  Order(q) >= r /\ \A j \in 1 .. n + 1 : P(j) # q
      <3>1. q \in network /\ q # p BY <1>5, <2>1
      <3>2. Order(q) >= r /\ \A j \in 1 .. n : Packet(j) # q
        BY <2>1, <3>1 DEF Sound, NetworkSound, n
      <3>3. ASSUME NEW j \in 1 .. n + 1 PROVE P(j) # q
        <4>1. CASE j < i BY <1>17, <3>2, <4>1
        <4>2. CASE j = i BY <1>17, <3>1, <4>2
        <4>3. CASE j > i BY <1>17, <3>2, <4>3
        <4> QED BY <1>14, <4>1, <4>2, <4>3
      <3> QED BY <3>2, <3>3
    <2> QED BY <1>2, <1>4, <1>15, <2>1 DEF NetworkSound, Sequenced, Order, Packet
  <1>25. OutputSound' BY <1>2, <1>4 DEF Sound, OutputSound, Order, Sequenced, SeqIndex
  <1>26. NothingLost'
    <2>1. ASSUME NEW q \in 1 .. Len(sent), ~Sequenced(q)
          PROVE  q \in network' \/ (\E j \in 1 .. n + 1 : P(j) = q) \/ (\E j \in 1 .. Len(output) : output[j] = q)
      <3>1. \/ q \in network
            \/ \E j \in 1 .. n : Packet(j) = q
            \/ \E j \in 1 .. Len(output) : output[j] = q
        BY <2>1 DEF Sound, NothingLost, n
      <3>2. CASE q \in network
        <4>1. CASE q = p
          <5>1. i \in 1 .. n + 1 /\ P(i) = p BY <1>14, <1>17
          <5> QED BY <4>1, <5>1
        <4>2. CASE q # p BY <1>5, <3>2, <4>2
        <4> QED BY <4>1, <4>2
      <3>3. ASSUME NEW j \in 1 .. n, Packet(j) = q PROVE \E k \in 1 .. n + 1 : P(k) = q
        <4>1. CASE j < i
          <5>1. j \in 1 .. n + 1 /\ P(j) = Packet(j) BY <1>6, <1>17, <4>1
          <5> QED BY <3>3, <5>1
        <4>2. CASE ~(j < i)
          <5>1. j + 1 \in 1 .. n + 1 /\ j + 1 > i /\ (j + 1) - 1 = j BY <1>6, <1>14, <4>2
          <5>2. P(j + 1) = Packet(j) BY <1>17, <5>1
          <5> QED BY <3>3, <5>1, <5>2
        <4> QED BY <4>1, <4>2
      <3> QED BY <3>1, <3>2, <3>3
    <2> QED BY <1>2, <1>4, <1>15, <2>1 DEF NothingLost, Sequenced, Packet
  <1>27. OutputInSendOrder' BY <1>2 DEF Sound, OutputInSendOrder
  <1>28. OrderedWithoutGap' BY <1>2, <1>4 DEF Sound, OrderedWithoutGap, Order, Sequenced
  <1> QED BY <1>4, <1>21, <1>22, <1>23, <1>24, <1>25, <1>26, <1>27, <1>28 DEF Sound

(* Where the elements of two joined queues are.                            *)
LEMMA Joined ==
  ASSUME NEW S, NEW a \in Seq(S), NEW b \in Seq(S)
  PROVE  /\ a \o b \in Seq(S) /\ Len(a \o b) = Len(a) + Len(b)
         /\ \A i \in 1 .. Len(a) + Len(b) : (a \o b)[i] = IF i <= Len(a) THEN a[i] ELSE b[i - Len(a)]
  OBVIOUS

(* The ordered message the reader waits for comes out with what it         *)
(* releases from the heap.                                                 *)
LEMMA OrderedStep ==
  ASSUME Sound, NEW p \in network, Arrive(p), ReceiveOrdered(p), UNCHANGED senderVars
  PROVE  Sound'
  <1> DEFINE n == Len(orderingHeap)
             r == orderedReadIndex
             L == Len(output)
             Entry == [weight : Nat, packet : 1 .. Len(sent)]
  <1>1. PICK k \in 0 .. n :
          /\ Returned(k)
          /\ output' = output \o <<p>> \o [i \in 1 .. k |-> orderingHeap[i].packet]
          /\ orderingHeap' = SubSeq(orderingHeap, k + 1, n)
          /\ orderedReadIndex' = r + 1 + OrderedAmong(k)
          /\ highestSequencedReadIndex' =
               LET sequenced == {i \in 1 .. k : Sequenced(orderingHeap[i].packet)}
               IN IF sequenced = {} THEN 0
                  ELSE LET last == CHOOSE i \in sequenced : \A j \in sequenced : j <= i
                       IN sent[orderingHeap[last].packet].sequencingIndex
    BY DEF ReceiveOrdered
  <1> DEFINE m == OrderedAmong(k)
             h == highestSequencedReadIndex'
  <1>2. ~Sequenced(p) /\ Wire(Order(p)) = Wire(r) BY DEF ReceiveOrdered
  <1>3. heapIndexOffset' = heapIndexOffset BY DEF ReceiveOrdered
  <1>4. p \in 1 .. Len(sent) /\ Order(p) = r /\ r \in Nat BY <1>2, Standing
  <1>5. /\ SentSound' /\ sent' = sent /\ orderedWriteIndex' = orderedWriteIndex
        /\ sequencedWriteIndex' = sequencedWriteIndex
    BY SentKept
  <1>6. /\ network' \subseteq network /\ network \ {p} \subseteq network' /\ duplicates' \in 0 .. MaxDuplicates
        /\ p \notin network'
    BY <1>2, Arrived
  <1>7. /\ orderingHeap \in Seq(Entry) /\ n \in Nat /\ k \in Nat /\ k <= n
        /\ output \in Seq(1 .. Len(sent)) /\ L \in Nat
        /\ orderedWriteIndex \in Nat /\ Len(sent) \in Nat
    BY DEF Sound, TypeOK
  <1>8. \A i \in 1 .. n : Packet(i) \in 1 .. Len(sent) /\ Order(Packet(i)) \in Nat /\ SeqIndex(Packet(i)) \in Nat
    BY PacketFacts, PositionFacts DEF Sound
  <1>9. \A i \in 1 .. L : output[i] \in 1 .. Len(sent) BY <1>7
  <1>10. Released(k)
    <2>1. \A i \in 1 .. k : InOrder(i) BY <1>1 DEF Returned
    <2> QED BY <2>1, ReleasedPrefix
  <1>11. m \in Nat BY <1>10 DEF Released
  <1>12. /\ Start <= r /\ r < orderedWriteIndex /\ r + 1 + m <= orderedWriteIndex
    <2>1. Start <= r BY DEF Sound, ReadSound
    <2>2. r < orderedWriteIndex BY <1>2, <1>4 DEF Sound, SentSound
    <2> QED BY <2>1, <2>2, <1>10 DEF Released
  <1>13. /\ \A j \in k + 1 .. n : Order(Packet(j)) >= r + 1 + m
         /\ \A i \in 1 .. k : /\ Order(Packet(i)) <= r + 1 + m
                              /\ ~Sequenced(Packet(i)) => Order(Packet(i)) < r + 1 + m
         /\ \A o \in r + 1 .. r + m : \E i \in 1 .. k : ~Sequenced(Packet(i)) /\ Order(Packet(i)) = o
    BY <1>10 DEF Released
  <1>14. k < n => Order(Packet(k + 1)) # r + 1 + m
    <2>1. k < n => ~InOrder(k + 1) BY <1>1 DEF Returned
    <2>2. (k + 1) - 1 = k BY <1>7
    <2> QED BY <2>1, <2>2 DEF InOrder, Packet
  <1>15. \A x, y \in 1 .. Len(sent) : x <= y => Order(x) <= Order(y)
    <2> TAKE x, y \in 1 .. Len(sent)
    <2>1. CASE x = y
      <3>1. Order(x) \in Nat BY PositionFacts DEF Sound
      <3> QED BY <2>1, <3>1
    <2>2. CASE x < y BY <2>2 DEF Sound, SentSound
    <2> QED BY <2>1, <2>2, <1>7
  <1>16. \A j \in k + 1 .. n : Order(Packet(j)) > r + 1 + m
    <2> TAKE j \in k + 1 .. n
    <2>1. j \in 1 .. n /\ k + 1 \in 1 .. n /\ k < n /\ k + 1 \in k + 1 .. n BY <1>7
    <2>2. Order(Packet(k + 1)) > r + 1 + m
      <3>1. Order(Packet(k + 1)) \in Nat BY <1>8, <2>1
      <3>2. Order(Packet(k + 1)) >= r + 1 + m /\ Order(Packet(k + 1)) # r + 1 + m BY <1>13, <1>14, <2>1
      <3> QED BY <1>4, <1>11, <3>1, <3>2
    <2>3. CASE j = k + 1 BY <2>2, <2>3
    <2>4. CASE j # k + 1
      <3>1. k + 1 < j BY <1>7, <2>4
      <3>2. Packet(k + 1) <= Packet(j) BY <2>1, <3>1 DEF Sound, HeapSound
      <3>3. Order(Packet(k + 1)) <= Order(Packet(j)) BY <1>8, <1>15, <2>1, <3>2
      <3>4. Order(Packet(k + 1)) \in Nat /\ Order(Packet(j)) \in Nat BY <1>8, <2>1
      <3> QED BY <1>4, <1>11, <2>2, <3>3, <3>4
    <2> QED BY <2>3, <2>4
  <1>17. /\ orderingHeap' \in Seq(Entry) /\ Len(orderingHeap') = n - k
         /\ \A i \in 1 .. n - k : orderingHeap'[i] = orderingHeap[k + i] /\ k + i \in k + 1 .. n /\ k + i \in 1 .. n
    <2> HIDE DEF Entry
    <2> QED BY <1>1, <1>7
  <1> DEFINE f == [i \in 1 .. k |-> orderingHeap[i].packet]
  <1>18. f \in Seq(1 .. Len(sent)) /\ Len(f) = k /\ \A i \in 1 .. k : f[i] = Packet(i) /\ i \in 1 .. n
    <2>1. \A i \in 1 .. k : i \in 1 .. n /\ orderingHeap[i].packet \in 1 .. Len(sent) BY <1>7, <1>8 DEF Packet
    <2>2. f \in [1 .. k -> 1 .. Len(sent)] BY <2>1
    <2>3. \A i \in 1 .. k : f[i] = Packet(i) BY DEF Packet
    <2> HIDE DEF f
    <2> QED BY <1>7, <2>1, <2>2, <2>3
  <1>19. output' = (output \o <<p>>) \o f BY <1>1
  <1> HIDE DEF f, n, r, L, m, h, Entry
  <1>20. /\ output' \in Seq(1 .. Len(sent)) /\ Len(output') = L + 1 + k
         /\ \A i \in 1 .. L : output'[i] = output[i]
         /\ output'[L + 1] = p
         /\ \A i \in 1 .. k : output'[L + 1 + i] = Packet(i)
    <2> DEFINE g == output \o <<p>>
    <2>1. g \in Seq(1 .. Len(sent)) /\ Len(g) = L + 1 /\ g[L + 1] = p /\ \A i \in 1 .. L : g[i] = output[i]
      BY <1>4, <1>7 DEF L
    <2> HIDE DEF g
    <2>2. output' = g \o f BY <1>19 DEF g
    <2>3. /\ g \o f \in Seq(1 .. Len(sent)) /\ Len(g \o f) = L + 1 + k
          /\ \A i \in 1 .. L + 1 + k : (g \o f)[i] = IF i <= L + 1 THEN g[i] ELSE f[i - (L + 1)]
      <3>1. /\ g \o f \in Seq(1 .. Len(sent)) /\ Len(g \o f) = Len(g) + Len(f)
            /\ \A i \in 1 .. Len(g) + Len(f) : (g \o f)[i] = IF i <= Len(g) THEN g[i] ELSE f[i - Len(g)]
        <4>1. g \in Seq(1 .. Len(sent)) /\ f \in Seq(1 .. Len(sent)) BY <1>18, <2>1
        <4> QED BY <4>1, Joined, Zenon
      <3>2. Len(g) = L + 1 /\ Len(f) = k BY <1>18, <2>1
      <3> QED BY <3>1, <3>2, Zenon
    <2>4. L + 1 \in 1 .. L + 1 /\ \A i \in 1 .. L : i \in 1 .. L + 1 BY <1>7
    <2>5. \A i \in 1 .. L + 1 : i \in 1 .. L + 1 + k /\ i <= L + 1 BY <1>7
    <2>6. \A i \in 1 .. L + 1 : output'[i] = g[i] BY <2>2, <2>3, <2>5
    <2>7. ASSUME NEW i \in 1 .. k PROVE output'[L + 1 + i] = Packet(i)
      <3>1. L + 1 + i \in 1 .. L + 1 + k /\ ~(L + 1 + i <= L + 1) /\ (L + 1 + i) - (L + 1) = i BY <1>7
      <3> QED BY <1>18, <2>2, <2>3, <3>1
    <2> QED BY <2>1, <2>2, <2>3, <2>4, <2>6, <2>7
  <1>21. \A i \in 1 .. L + 1 + k : \/ i \in 1 .. L
                                   \/ i = L + 1
                                   \/ i - (L + 1) \in 1 .. k /\ i = L + 1 + (i - (L + 1))
    BY <1>7
  (* The new highest sequencing index.                                     *)
  <1>22. /\ h \in Nat /\ h <= Len(sent)
         /\ \A i \in 1 .. k : Sequenced(Packet(i)) /\ Order(Packet(i)) = r + 1 + m => SeqIndex(Packet(i)) <= h
    <2> DEFINE T == {i \in 1 .. k : Sequenced(Packet(i))}
    <2>1. h = IF T = {} THEN 0
              ELSE LET last == CHOOSE i \in T : \A j \in T : j <= i IN SeqIndex(Packet(last))
      BY <1>1 DEF h, Packet, SeqIndex
    <2>2. CASE T = {}
      <3>1. h = 0 BY <2>1, <2>2
      <3>2. \A i \in 1 .. k : ~Sequenced(Packet(i)) BY <2>2
      <3> QED BY <1>7, <3>1, <3>2
    <2>3. CASE T # {}
      <3>1. \E i \in T : \A j \in T : j <= i
        <4>1. T \in SUBSET (1 .. k) OBVIOUS
        <4> HIDE DEF T
        <4> QED BY <1>7, <2>3, <4>1, GreatestNumber
      <3> DEFINE last == CHOOSE i \in T : \A j \in T : j <= i
      <3>2. last \in T /\ \A j \in T : j <= last
        <4> HIDE DEF T
        <4> QED BY <3>1
      <3>3. h = SeqIndex(Packet(last)) BY <2>1, <2>3
      <3> HIDE DEF last
      <3>4. last \in 1 .. k /\ Sequenced(Packet(last)) BY <3>2
      <3>5. last \in 1 .. n BY <1>18, <3>4
      <3>6. SeqIndex(Packet(last)) \in Nat /\ Packet(last) \in 1 .. Len(sent) BY <1>8, <3>5
      <3>7. SeqIndex(Packet(last)) < Len(sent) BY <3>4, <3>6 DEF Sound, SentSound
      <3>8. ASSUME NEW i \in 1 .. k, Sequenced(Packet(i)), Order(Packet(i)) = r + 1 + m
            PROVE  SeqIndex(Packet(i)) <= SeqIndex(Packet(last))
        <4>1. i \in T /\ i <= last BY <3>2, <3>8
        <4>2. i \in 1 .. n /\ Packet(i) \in 1 .. Len(sent) /\ SeqIndex(Packet(i)) \in Nat BY <1>8, <1>18
        <4>3. Packet(i) <= Packet(last)
          <5>1. CASE i = last BY <4>2, <5>1
          <5>2. CASE i < last BY <3>5, <4>2, <5>2 DEF Sound, HeapSound, n
          <5> QED BY <3>4, <4>1, <5>1, <5>2
        <4>4. Order(Packet(last)) = Order(Packet(i))
          <5>1. Order(Packet(i)) <= Order(Packet(last)) BY <1>15, <3>6, <4>2, <4>3
          <5>2. Order(Packet(last)) <= r + 1 + m BY <1>13, <3>4
          <5>3. Order(Packet(i)) \in Nat /\ Order(Packet(last)) \in Nat BY <1>8, <3>5, <4>2
          <5> QED BY <1>4, <1>11, <3>8, <5>1, <5>2, <5>3
        <4>5. CASE Packet(i) = Packet(last) BY <4>2, <4>5
        <4>6. CASE Packet(i) < Packet(last)
          <5>1. SeqIndex(Packet(i)) < SeqIndex(Packet(last))
            BY <3>4, <3>6, <4>2, <4>4, <4>6 DEF Sound, SentSound
          <5> QED BY <3>6, <4>2, <5>1
        <4> QED BY <3>6, <4>2, <4>3, <4>5, <4>6
      <3> QED BY <1>7, <3>3, <3>6, <3>7, <3>8
    <2> QED BY <2>2, <2>3
  <1>23. orderedReadIndex' = r + 1 + m BY <1>1 DEF r, m
  <1>24. highestSequencedReadIndex' = h BY DEF h
  <1>25. /\ output \in Seq(1 .. Len(sent)) /\ Len(output) = L
         /\ \A i \in 1 .. L : Order(output[i]) <= r
    BY <1>7 DEF Sound, OutputSound, L, r
  (* Everything given out so far precedes p, everything released follows.  *)
  <1>26. \A i \in 1 .. L : output[i] < p
    <2> TAKE i \in 1 .. L
    <2>1. output[i] \in 1 .. Len(sent) /\ Order(output[i]) \in Nat BY <1>9, PositionFacts DEF Sound
    <2>2. Order(output[i]) <= r /\ (Order(output[i]) = r => Sequenced(output[i]))
      BY DEF Sound, OutputSound, L, r
    <2>3. output[i] # p BY <1>2, <1>4, <2>2
    <2>4. ~(p < output[i])
      <3>1. p < output[i] => Order(p) <= Order(output[i]) /\ (Order(p) = Order(output[i]) => Sequenced(p))
        BY <1>4, <2>1 DEF Sound, SentSound
      <3> QED BY <1>2, <1>4, <2>1, <2>2, <3>1
    <2> QED BY <1>4, <1>7, <2>1, <2>3, <2>4
  <1>27. \A i \in 1 .. n : p < Packet(i)
    <2> TAKE i \in 1 .. n
    <2>1. Order(Packet(i)) > r BY DEF Sound, HeapSound, n, r
    <2>2. Packet(i) \in 1 .. Len(sent) /\ Order(Packet(i)) \in Nat BY <1>8
    <2>3. ~(Packet(i) <= p)
      <3>1. Packet(i) <= p => Order(Packet(i)) <= Order(p) BY <1>4, <1>15, <2>2
      <3> QED BY <1>4, <2>1, <2>2, <3>1
    <2> QED BY <1>4, <1>7, <2>2, <2>3
  <1>28. TypeOK'
    <2>1. orderingHeap' \in Seq([weight : Nat, packet : 1 .. Len(sent')]) BY <1>5, <1>17 DEF Entry
    <2>2. orderedReadIndex' \in Nat BY <1>4, <1>11, <1>23
    <2>3. network' \subseteq 1 .. Len(sent') BY <1>5, <1>6 DEF Sound, TypeOK
    <2> QED BY <1>3, <1>5, <1>6, <1>20, <1>22, <1>24, <2>1, <2>2, <2>3 DEF Sound, TypeOK
  <1>29. ReadSound'
    <2>1. Start \in Nat BY OrderingAssumption
    <2>2. r + 1 + m \in Start .. orderedWriteIndex BY <1>4, <1>7, <1>11, <1>12, <2>1
    <2> QED BY <1>5, <1>22, <1>23, <1>24, <2>2 DEF ReadSound
  <1>30. HeapSound'
    <2>1. ASSUME orderingHeap' # <<>> PROVE heapIndexOffset' \in Start .. orderedReadIndex'
      <3>1. orderingHeap # <<>>
        <4>1. Len(orderingHeap') # 0 /\ Len(orderingHeap') \in Nat BY <1>17, <2>1
        <4>2. n - k >= 1
          <5>1. Len(orderingHeap') >= 1 BY <4>1
          <5> QED BY <1>17, <5>1
        <4>3. n # 0
          <5>1. n \in Nat /\ k \in Nat BY <1>7
          <5> QED BY <4>2, <5>1
        <4> QED BY <4>3 DEF n
      <3>2. heapIndexOffset \in Start .. r BY <3>1 DEF Sound, HeapSound, r
      <3>3. Start \in Nat BY OrderingAssumption
      <3> QED BY <1>3, <1>4, <1>11, <1>23, <3>2, <3>3
    <2>2. ASSUME NEW i \in 1 .. n - k
          PROVE  /\ Order(orderingHeap'[i].packet) > r + 1 + m
                 /\ orderingHeap'[i].weight = Weight(orderingHeap'[i].packet, heapIndexOffset)
      <3>1. orderingHeap'[i] = orderingHeap[k + i] /\ k + i \in k + 1 .. n /\ k + i \in 1 .. n BY <1>17
      <3>2. orderingHeap[k + i].weight = Weight(Packet(k + i), heapIndexOffset)
        BY <3>1 DEF Sound, HeapSound, n
      <3>3. Order(Packet(k + i)) > r + 1 + m BY <1>16, <3>1
      <3> QED BY <3>1, <3>2, <3>3 DEF Packet
    <2>3. ASSUME NEW i \in 1 .. n - k, NEW j \in 1 .. n - k, i < j
          PROVE  /\ orderingHeap'[i].packet <= orderingHeap'[j].packet
                 /\ orderingHeap'[i].packet = orderingHeap'[j].packet => Sequenced(orderingHeap'[i].packet)
      <3>1. /\ orderingHeap'[i] = orderingHeap[k + i] /\ k + i \in 1 .. n
            /\ orderingHeap'[j] = orderingHeap[k + j] /\ k + j \in 1 .. n BY <1>17
      <3>2. k + i < k + j BY <1>7, <2>3
      <3>3. /\ Packet(k + i) <= Packet(k + j)
            /\ Packet(k + i) = Packet(k + j) => Sequenced(Packet(k + i))
        BY <3>1, <3>2 DEF Sound, HeapSound, n
      <3> QED BY <3>1, <3>3 DEF Packet
    <2>4. ASSUME NEW i \in 1 .. Len(orderingHeap')
          PROVE  /\ (Order(Packet(i)) > orderedReadIndex)'
                 /\ (orderingHeap[i].weight = Weight(Packet(i), heapIndexOffset))'
      BY <1>3, <1>5, <1>17, <1>23, <2>2 DEF Packet, Order, Weight, Sequenced, Wire
    <2>5. ASSUME NEW i \in 1 .. Len(orderingHeap'), NEW j \in 1 .. Len(orderingHeap'), i < j
          PROVE  (Packet(i) <= Packet(j) /\ (Packet(i) = Packet(j) => Sequenced(Packet(i))))'
      BY <1>5, <1>17, <2>3, <2>5 DEF Packet, Sequenced
    <2> QED BY <2>1, <2>4, <2>5 DEF HeapSound
  (* The ordered messages the reader has passed are those given out.       *)
  <1>31. ASSUME NEW q \in 1 .. Len(sent), ~Sequenced(q)
         PROVE  Order(q) < r + 1 + m <=> \E i \in 1 .. L + 1 + k : output'[i] = q
    <2>1. Order(q) \in Nat BY PositionFacts DEF Sound
    <2>2. Order(q) < r <=> \E i \in 1 .. L : output[i] = q
      <3>1. q \in DOMAIN sent /\ DOMAIN output = 1 .. L
        <4>1. sent \in Seq(MessageTypes) BY DEF Sound, TypeOK
        <4> QED BY <1>7, <4>1 DEF L
      <3> QED BY <2>1, <3>1, <1>31 DEF Sound, OrderedWithoutGap, r
    <2>3. \A x \in 1 .. Len(sent) : ~Sequenced(x) /\ Order(x) = Order(q) => x = q
      <3> TAKE x \in 1 .. Len(sent)
      <3>1. SUFFICES ASSUME ~Sequenced(x), Order(x) = Order(q) PROVE x = q OBVIOUS
      <3>2. ~(x < q) BY <3>1 DEF Sound, SentSound
      <3>3. ~(q < x) BY <1>31, <3>1 DEF Sound, SentSound
      <3> QED BY <1>7, <3>2, <3>3
    <2>4. ASSUME Order(q) < r + 1 + m PROVE \E i \in 1 .. L + 1 + k : output'[i] = q
      <3>1. CASE Order(q) < r
        <4>1. PICK i \in 1 .. L : output[i] = q BY <2>2, <3>1
        <4>2. i \in 1 .. L + 1 + k /\ output'[i] = q BY <1>7, <1>20, <4>1
        <4> QED BY <4>2
      <3>2. CASE Order(q) = r
        <4>1. p = q BY <1>2, <1>4, <2>3, <3>2
        <4>2. L + 1 \in 1 .. L + 1 + k BY <1>7
        <4> QED BY <1>20, <4>1, <4>2
      <3>3. CASE Order(q) > r
        <4>1. Order(q) \in r + 1 .. r + m BY <1>4, <1>11, <2>1, <2>4, <3>3
        <4>2. PICK i \in 1 .. k : ~Sequenced(Packet(i)) /\ Order(Packet(i)) = Order(q) BY <1>13, <4>1
        <4>3. Packet(i) = q BY <1>8, <1>18, <2>3, <4>2
        <4>4. L + 1 + i \in 1 .. L + 1 + k BY <1>7
        <4> QED BY <1>20, <4>3, <4>4
      <3> QED BY <1>4, <2>1, <3>1, <3>2, <3>3
    <2>5. ASSUME NEW i \in 1 .. L + 1 + k, output'[i] = q PROVE Order(q) < r + 1 + m
      <3>1. CASE i \in 1 .. L
        <4>1. Order(q) < r BY <1>20, <2>2, <2>5, <3>1
        <4> QED BY <1>4, <1>11, <2>1, <4>1
      <3>2. CASE i = L + 1
        <4>1. Order(q) = r BY <1>4, <1>20, <2>5, <3>2
        <4> QED BY <1>4, <1>11, <4>1
      <3>3. CASE i - (L + 1) \in 1 .. k /\ i = L + 1 + (i - (L + 1))
        <4>1. Packet(i - (L + 1)) = q BY <1>20, <2>5, <3>3
        <4> QED BY <1>13, <1>31, <3>3, <4>1
      <3> QED BY <1>21, <3>1, <3>2, <3>3
    <2> QED BY <2>4, <2>5
  <1>32. NetworkSound'
    <2>1. ASSUME NEW q \in network', ~Sequenced(q)
          PROVE  Order(q) >= r + 1 + m /\ \A i \in 1 .. n - k : orderingHeap'[i].packet # q
      <3>1. q \in network /\ q # p /\ q \in 1 .. Len(sent) BY <1>6 DEF Sound, TypeOK
      <3>2. Order(q) >= r /\ \A i \in 1 .. n : Packet(i) # q BY <2>1, <3>1 DEF Sound, NetworkSound, n, r
      <3>3. Order(q) \in Nat BY <3>1, PositionFacts DEF Sound
      <3>4. ASSUME Order(q) < r + 1 + m PROVE FALSE
        <4>1. PICK i \in 1 .. L + 1 + k : output'[i] = q BY <1>31, <2>1, <3>1, <3>4
        <4>2. CASE i \in 1 .. L
          <5>1. output[i] = q BY <1>20, <4>1, <4>2
          <5>2. Order(q) <= r /\ (Order(q) = r => Sequenced(q))
            BY <4>2, <5>1 DEF Sound, OutputSound, L, r
          <5> QED BY <1>4, <2>1, <3>2, <3>3, <5>2
        <4>3. CASE i = L + 1 BY <1>20, <3>1, <4>1, <4>3
        <4>4. CASE i - (L + 1) \in 1 .. k /\ i = L + 1 + (i - (L + 1))
          <5>1. Packet(i - (L + 1)) = q BY <1>20, <4>1, <4>4
          <5> QED BY <1>18, <3>2, <4>4, <5>1
        <4> QED BY <1>21, <4>2, <4>3, <4>4
      <3>5. \A i \in 1 .. n - k : orderingHeap'[i].packet # q BY <1>17, <3>2 DEF Packet
      <3> QED BY <1>4, <1>11, <3>3, <3>4, <3>5
    <2> QED BY <1>5, <1>17, <1>23, <2>1 DEF NetworkSound, Sequenced, Order, Packet
  <1>33. OutputSound'
    <2>1. ASSUME NEW i \in 1 .. L + 1 + k
          PROVE  /\ Order(output'[i]) <= r + 1 + m
                 /\ Order(output'[i]) = r + 1 + m => Sequenced(output'[i]) /\ SeqIndex(output'[i]) <= h
      <3>1. CASE i \in 1 .. L
        <4>1. Order(output[i]) <= r /\ Order(output[i]) \in Nat
          BY <1>9, <1>25, <3>1, PositionFacts DEF Sound
        <4>2. Order(output[i]) < r + 1 + m BY <1>4, <1>11, <4>1
        <4> QED BY <1>4, <1>11, <1>20, <3>1, <4>1, <4>2
      <3>2. CASE i = L + 1
        <4>1. Order(p) < r + 1 + m BY <1>4, <1>11
        <4> QED BY <1>4, <1>11, <1>20, <3>2, <4>1
      <3>3. CASE i - (L + 1) \in 1 .. k /\ i = L + 1 + (i - (L + 1))
        <4> DEFINE j == i - (L + 1)
        <4>1. j \in 1 .. k /\ output'[i] = Packet(j) BY <1>20, <3>3
        <4> HIDE DEF j
        <4>2. Order(Packet(j)) \in Nat BY <1>8, <1>18, <4>1
        <4>3. Order(Packet(j)) = r + 1 + m => Sequenced(Packet(j)) BY <1>4, <1>11, <1>13, <4>1, <4>2
        <4> QED BY <1>13, <1>22, <4>1, <4>3
      <3> QED BY <1>21, <3>1, <3>2, <3>3
    <2> QED BY <1>5, <1>20, <1>23, <1>24, <2>1 DEF OutputSound, Order, Sequenced, SeqIndex
  <1>34. NothingLost'
    <2>1. ASSUME NEW q \in 1 .. Len(sent), ~Sequenced(q)
          PROVE  \/ q \in network'
                 \/ \E i \in 1 .. n - k : orderingHeap'[i].packet = q
                 \/ \E i \in 1 .. L + 1 + k : output'[i] = q
      <3>1. q \in network \/ (\E i \in 1 .. n : Packet(i) = q) \/ (\E i \in 1 .. L : output[i] = q)
        BY <2>1 DEF Sound, NothingLost, n, L
      <3>2. CASE q \in network
        <4>1. CASE q = p
          <5>1. L + 1 \in 1 .. L + 1 + k BY <1>7
          <5> QED BY <1>20, <4>1, <5>1
        <4>2. CASE q # p BY <1>6, <3>2, <4>2
        <4> QED BY <4>1, <4>2
      <3>3. ASSUME NEW i \in 1 .. n, Packet(i) = q
            PROVE  \/ \E j \in 1 .. n - k : orderingHeap'[j].packet = q
                   \/ \E j \in 1 .. L + 1 + k : output'[j] = q
        <4>1. CASE i <= k
          <5>1. i \in 1 .. k /\ L + 1 + i \in 1 .. L + 1 + k BY <1>7, <4>1
          <5> QED BY <1>20, <3>3, <5>1
        <4>2. CASE i > k
          <5>1. i - k \in 1 .. n - k /\ k + (i - k) = i BY <1>7, <4>2
          <5>2. orderingHeap'[i - k] = orderingHeap[i] BY <1>17, <5>1
          <5> QED BY <3>3, <5>1, <5>2 DEF Packet
        <4> QED BY <1>7, <4>1, <4>2
      <3>4. ASSUME NEW i \in 1 .. L, output[i] = q PROVE \E j \in 1 .. L + 1 + k : output'[j] = q
        <4>1. i \in 1 .. L + 1 + k BY <1>7
        <4> QED BY <1>20, <3>4, <4>1
      <3> QED BY <3>1, <3>2, <3>3, <3>4
    <2> QED BY <1>5, <1>17, <1>20, <2>1 DEF NothingLost, Sequenced, Packet
  <1>35. DOMAIN output = 1 .. L /\ DOMAIN output' = 1 .. L + 1 + k BY <1>7, <1>20, <1>25
  <1>36. ASSUME NEW i \in 1 .. L + 1 + k, NEW j \in 1 .. L + 1 + k, i < j
         PROVE  output'[i] <= output'[j] /\ (output'[i] = output'[j] => Sequenced(output'[i]))
    <2>1. \A x \in 1 .. k : p < Packet(x) /\ Packet(x) \in Nat BY <1>8, <1>18, <1>27
    <2>2. \A x \in 1 .. L : output[x] < p /\ output[x] \in Nat BY <1>9, <1>26
    <2>3. p \in Nat BY <1>4
    <2>4. CASE j \in 1 .. L
      <3>1. i \in 1 .. L /\ output'[i] = output[i] /\ output'[j] = output[j]
        BY <1>7, <1>20, <1>36, <2>4
      <3>2. output[i] <= output[j] BY <1>35, <1>36, <2>4, <3>1 DEF Sound, OutputInSendOrder
      <3>3. output[i] = output[j] => Sequenced(output[i])
        BY <1>35, <1>36, <2>4, <3>1 DEF Sound, OrderedWithoutGap
      <3> QED BY <3>1, <3>2, <3>3
    <2>5. CASE j = L + 1
      <3>1. i \in 1 .. L BY <1>7, <1>36, <2>5
      <3>2. output'[i] = output[i] /\ output'[j] = p BY <1>20, <2>5, <3>1
      <3>3. output[i] < p /\ output[i] \in Nat BY <2>2, <3>1
      <3> QED BY <2>3, <3>2, <3>3
    <2>6. CASE j - (L + 1) \in 1 .. k /\ j = L + 1 + (j - (L + 1))
      <3> DEFINE y == j - (L + 1)
      <3>1. y \in 1 .. k /\ j = L + 1 + y /\ output'[j] = Packet(y) BY <1>20, <2>6
      <3> HIDE DEF y
      <3>2. CASE i \in 1 .. L
        <4>1. output'[i] = output[i] BY <1>20, <3>2
        <4> QED BY <2>1, <2>2, <2>3, <3>1, <3>2, <4>1
      <3>3. CASE i = L + 1 BY SMTT(30), <1>20, <2>1, <2>3, <3>1, <3>3
      <3>4. CASE i - (L + 1) \in 1 .. k /\ i = L + 1 + (i - (L + 1))
        <4> DEFINE x == i - (L + 1)
        <4>1. x \in 1 .. k /\ i = L + 1 + x /\ output'[i] = Packet(x) BY <1>20, <3>4
        <4> HIDE DEF x
        <4>2. x < y /\ x \in 1 .. n /\ y \in 1 .. n BY <1>7, <1>18, <1>36, <3>1, <4>1
        <4>3. Packet(x) <= Packet(y) /\ (Packet(x) = Packet(y) => Sequenced(Packet(x)))
          BY <4>2 DEF Sound, HeapSound, n
        <4> QED BY <3>1, <4>1, <4>3
      <3> QED BY <1>21, <3>2, <3>3, <3>4
    <2> QED BY <1>21, <2>4, <2>5, <2>6
  <1>37. OutputInSendOrder' BY <1>35, <1>36 DEF OutputInSendOrder
  <1>38. OrderedWithoutGap'
    <2>1. DOMAIN sent' = 1 .. Len(sent)
      <3>1. sent \in Seq(MessageTypes) BY DEF Sound, TypeOK
      <3> QED BY <1>5, <3>1
    <2>2. ASSUME NEW i \in 1 .. L + 1 + k, NEW j \in 1 .. L + 1 + k, output'[i] = output'[j], i # j
          PROVE  Sequenced(output'[i])
      <3>1. CASE i < j BY <1>36, <2>2, <3>1
      <3>2. CASE j < i BY <1>36, <2>2, <3>2
      <3> QED BY <1>7, <2>2, <3>1, <3>2
    <2> QED BY <1>5, <1>23, <1>31, <1>35, <2>1, <2>2 DEF OrderedWithoutGap, Order, Sequenced
  <1> QED BY <1>5, <1>28, <1>29, <1>30, <1>32, <1>33, <1>34, <1>37, <1>38 DEF Sound

-----------------------------------------------------------------------------
(* Send gives the next index.                                              *)
LEMMA SendStep ==
  ASSUME Sound, NEW reliability \in Reliabilities, Send(reliability)
  PROVE  Sound'
  <1>0. PICK N \in Nat : N = Len(sent) BY DEF Sound, TypeOK
  <1> DEFINE w == orderedWriteIndex
             s == sequencedWriteIndex
             ordered == reliability = "ReliableOrdered"
             message == [reliability |-> reliability, orderingIndex |-> w,
                         sequencingIndex |-> IF ordered THEN 0 ELSE s]
  <1>1. /\ N < MaxMessages /\ (~ordered => s < MaxSequenced)
        /\ sent' = Append(sent, message)
        /\ IF ordered THEN orderedWriteIndex' = w + 1 /\ sequencedWriteIndex' = 0
           ELSE sequencedWriteIndex' = s + 1 /\ orderedWriteIndex' = w
        /\ network' = network \cup {N + 1}
    BY <1>0 DEF Send
  <1>2. /\ duplicates' = duplicates /\ orderedReadIndex' = orderedReadIndex
        /\ highestSequencedReadIndex' = highestSequencedReadIndex
        /\ orderingHeap' = orderingHeap /\ heapIndexOffset' = heapIndexOffset /\ output' = output
    BY DEF Send, receiverVars
  <1>3. /\ sent \in Seq(MessageTypes) /\ N \in Nat /\ w \in Nat /\ s \in Nat
        /\ network \subseteq 1 .. N
    BY <1>0 DEF Sound, TypeOK
  <1>4. message \in MessageTypes
    <2>1. (IF ordered THEN 0 ELSE s) \in Nat BY <1>3
    <2> QED BY <1>3, <2>1 DEF MessageTypes
  <1>5. MaxMessages \in Nat /\ Start \in Nat /\ MaxSequenced \in Nat BY OrderingAssumption
  <1>6. /\ message.reliability = reliability /\ message.orderingIndex = w
        /\ message.sequencingIndex = IF ordered THEN 0 ELSE s
    OBVIOUS
  <1> HIDE DEF message
  <1>7. /\ sent' \in Seq(MessageTypes) /\ Len(sent') = N + 1 /\ sent'[N + 1] = message
        /\ \A q \in 1 .. N : sent'[q] = sent[q]
    BY <1>0, <1>1, <1>3, <1>4
  <1>8. \A q \in 1 .. N : q \in 1 .. N + 1 /\ Order(q)' = Order(q) /\ SeqIndex(q)' = SeqIndex(q)
                          /\ Sequenced(q)' = Sequenced(q)
    BY <1>3, <1>7 DEF Order, SeqIndex, Sequenced
  <1>9. /\ Order(N + 1)' = w /\ SeqIndex(N + 1)' = (IF ordered THEN 0 ELSE s)
        /\ Sequenced(N + 1)' = ~ordered
    BY <1>6, <1>7 DEF Order, SeqIndex, Sequenced
  <1>10. \A q \in 1 .. N + 1 : q \in 1 .. N \/ q = N + 1 BY <1>3
  <1>11. \A q \in 1 .. N : Order(q) \in Nat /\ SeqIndex(q) \in Nat BY <1>0, PositionFacts DEF Sound
  <1>12. /\ w \in Start .. Start + N /\ s <= MaxSequenced /\ s <= N /\ N <= MaxMessages
         /\ \A q \in 1 .. N :
              /\ Order(q) \in Start .. w
              /\ ~Sequenced(q) => Order(q) < w
              /\ Sequenced(q) => /\ w < Start + N
                                 /\ SeqIndex(q) < MaxSequenced /\ SeqIndex(q) < N
                                 /\ Order(q) = w => SeqIndex(q) < s
    BY <1>0 DEF Sound, SentSound
  <1> HIDE DEF w, s, ordered
  <1>13. /\ orderedWriteIndex' = (IF ordered THEN w + 1 ELSE w)
         /\ sequencedWriteIndex' = (IF ordered THEN 0 ELSE s + 1)
    BY <1>1
  <1>14. SentSound'
    <2>1. orderedWriteIndex' \in Start .. Start + (N + 1) /\ orderedWriteIndex' \in Nat
      BY <1>3, <1>5, <1>12, <1>13
    <2>2. sequencedWriteIndex' <= MaxSequenced /\ sequencedWriteIndex' <= N + 1
      BY <1>1, <1>3, <1>5, <1>12, <1>13
    <2>3. N + 1 <= MaxMessages BY <1>1, <1>3, <1>5
    <2>4. ASSUME NEW q \in 1 .. N
          PROVE  /\ Order(q) \in Start .. orderedWriteIndex'
                 /\ ~Sequenced(q) => Order(q) < orderedWriteIndex'
                 /\ Sequenced(q) => /\ orderedWriteIndex' < Start + (N + 1)
                                    /\ SeqIndex(q) < MaxSequenced /\ SeqIndex(q) < N + 1
                                    /\ Order(q) = orderedWriteIndex' => SeqIndex(q) < sequencedWriteIndex'
      <3>1. /\ Order(q) \in Nat /\ SeqIndex(q) \in Nat /\ Order(q) \in Start .. w
            /\ ~Sequenced(q) => Order(q) < w
            /\ Sequenced(q) => /\ w < Start + N
                               /\ SeqIndex(q) < MaxSequenced /\ SeqIndex(q) < N
                               /\ Order(q) = w => SeqIndex(q) < s
        BY <1>11, <1>12
      <3>2. CASE ordered BY <1>3, <1>5, <1>13, <3>1, <3>2
      <3>3. CASE ~ordered BY <1>3, <1>5, <1>13, <3>1, <3>3
      <3> QED BY <3>2, <3>3
    <2>5. /\ w \in Start .. orderedWriteIndex'
          /\ ordered => w < orderedWriteIndex'
          /\ ~ordered => /\ orderedWriteIndex' < Start + (N + 1)
                         /\ s < MaxSequenced /\ s < N + 1
                         /\ w = orderedWriteIndex' => s < sequencedWriteIndex'
      BY <1>1, <1>3, <1>5, <1>12, <1>13
    <2>6. ASSUME NEW q \in 1 .. N + 1
          PROVE  (/\ Order(q) \in Start .. orderedWriteIndex
                  /\ ~Sequenced(q) => Order(q) < orderedWriteIndex
                  /\ Sequenced(q) => /\ orderedWriteIndex < Start + Len(sent)
                                     /\ SeqIndex(q) < MaxSequenced /\ SeqIndex(q) < Len(sent)
                                     /\ Order(q) = orderedWriteIndex => SeqIndex(q) < sequencedWriteIndex)'
      <3>1. CASE q \in 1 .. N BY <1>7, <1>8, <2>4, <3>1
      <3>2. CASE q = N + 1 BY <1>7, <1>9, <2>5, <3>2
      <3> QED BY <1>10, <3>1, <3>2
    <2>7. ASSUME NEW x \in 1 .. N + 1, NEW y \in 1 .. N + 1, x < y
          PROVE  (/\ Order(x) <= Order(y)
                  /\ Order(x) = Order(y) => /\ Sequenced(x)
                                            /\ Sequenced(y) => SeqIndex(x) < SeqIndex(y))'
      <3>1. x \in 1 .. N BY <1>3, <2>7
      <3>2. CASE y \in 1 .. N
        <4>1. /\ Order(x) <= Order(y)
              /\ Order(x) = Order(y) => Sequenced(x) /\ (Sequenced(y) => SeqIndex(x) < SeqIndex(y))
          BY <1>0, <2>7, <3>1, <3>2 DEF Sound, SentSound
        <4> QED BY <1>8, <3>1, <3>2, <4>1
      <3>3. CASE y = N + 1
        <4>1. Order(x) <= w /\ Order(x) \in Nat /\ (Order(x) = w => Sequenced(x))
              /\ (Order(x) = w /\ Sequenced(x) => SeqIndex(x) < s)
          BY <1>3, <1>5, <1>11, <1>12, <3>1
        <4> QED BY <1>8, <1>9, <3>1, <3>3, <4>1
      <3> QED BY <1>10, <3>2, <3>3
    <2> QED BY <1>7, <2>1, <2>2, <2>3, <2>6, <2>7 DEF SentSound
  <1>15. \A i \in 1 .. Len(orderingHeap) : Packet(i) \in 1 .. N BY <1>0, PacketFacts DEF Sound
  <1>16. \A i \in 1 .. Len(output) : output[i] \in 1 .. N
    <2>1. output \in Seq(1 .. N) BY <1>0 DEF Sound, TypeOK
    <2> QED BY <2>1
  <1>17. orderedReadIndex \in Start .. w /\ orderedReadIndex \in Nat
         /\ highestSequencedReadIndex <= N /\ highestSequencedReadIndex \in Nat
    BY <1>0 DEF Sound, TypeOK, ReadSound, w
  <1>18. TypeOK'
    <2>1. 1 .. N \subseteq 1 .. N + 1 BY <1>8
    <2>2. orderedWriteIndex' \in Nat /\ sequencedWriteIndex' \in Nat BY <1>3, <1>13
    <2>3. network' \subseteq 1 .. N + 1
      <3>1. N + 1 \in 1 .. N + 1 BY <1>3
      <3>2. network \subseteq 1 .. N + 1 BY <1>3, <2>1
      <3> QED BY <1>1, <3>1, <3>2
    <2>4. output' \in Seq(1 .. N + 1)
      <3>1. output \in Seq(1 .. N) BY <1>0 DEF Sound, TypeOK
      <3> QED BY <1>2, <2>1, <3>1
    <2>5. orderingHeap' \in Seq([weight : Nat, packet : 1 .. N + 1])
      <3> DEFINE Old == [weight : Nat, packet : 1 .. N]
                 New == [weight : Nat, packet : 1 .. N + 1]
      <3>1. orderingHeap \in Seq(Old) BY <1>0 DEF Sound, TypeOK
      <3>2. Old \subseteq New BY <2>1
      <3> HIDE DEF Old, New
      <3>3. orderingHeap \in Seq(New) BY <3>1, <3>2
      <3> QED BY <1>2, <3>3 DEF New
    <2> QED BY <1>0, <1>2, <1>7, <2>2, <2>3, <2>4, <2>5 DEF Sound, TypeOK
  <1>19. ReadSound' BY <1>2, <1>3, <1>5, <1>7, <1>13, <1>17 DEF ReadSound
  <1>20. HeapSound'
    <2>1. ASSUME NEW i \in 1 .. Len(orderingHeap)
          PROVE  (/\ Order(Packet(i)) > orderedReadIndex
                  /\ orderingHeap[i].weight = Weight(Packet(i), heapIndexOffset))'
      <3>1. Packet(i)' = Packet(i) /\ Packet(i) \in 1 .. N BY <1>2, <1>15 DEF Packet
      <3>2. sent'[Packet(i)] = sent[Packet(i)] BY <1>7, <3>1
      <3>3. Weight(Packet(i), heapIndexOffset)' = Weight(Packet(i), heapIndexOffset)
        BY <1>2, <3>1, <3>2 DEF Weight, Wire, Order, Sequenced
      <3>4. Order(Packet(i))' = Order(Packet(i)) BY <3>1, <3>2 DEF Order
      <3>5. /\ Order(Packet(i)) > orderedReadIndex
            /\ orderingHeap[i].weight = Weight(Packet(i), heapIndexOffset) BY <1>0 DEF Sound, HeapSound
      <3> QED BY <1>2, <3>3, <3>4, <3>5
    <2>2. ASSUME NEW i \in 1 .. Len(orderingHeap), NEW j \in 1 .. Len(orderingHeap), i < j
          PROVE  (Packet(i) <= Packet(j) /\ (Packet(i) = Packet(j) => Sequenced(Packet(i))))'
      <3>1. Packet(i)' = Packet(i) /\ Packet(j)' = Packet(j) /\ Packet(i) \in 1 .. N
        BY <1>2, <1>15 DEF Packet
      <3>2. Sequenced(Packet(i))' = Sequenced(Packet(i)) BY <1>7, <3>1 DEF Sequenced
      <3>3. Packet(i) <= Packet(j) /\ (Packet(i) = Packet(j) => Sequenced(Packet(i)))
        BY <1>0, <2>2 DEF Sound, HeapSound
      <3> QED BY <3>1, <3>2, <3>3
    <2>3. (orderingHeap # <<>> => heapIndexOffset \in Start .. orderedReadIndex)'
      BY <1>0, <1>2 DEF Sound, HeapSound
    <2>4. Len(orderingHeap)' = Len(orderingHeap) BY <1>2
    <2> QED BY <2>1, <2>2, <2>3, <2>4 DEF HeapSound
  <1>21. NetworkSound'
    <2>1. ASSUME NEW q \in network', ~Sequenced(q)'
          PROVE  (Order(q) >= orderedReadIndex /\ \A i \in 1 .. Len(orderingHeap) : Packet(i) # q)'
      <3>1. CASE q \in network
        <4>1. q \in 1 .. N /\ ~Sequenced(q) BY <1>0, <1>3, <1>8, <2>1, <3>1
        <4>2. Order(q) >= orderedReadIndex /\ \A i \in 1 .. Len(orderingHeap) : Packet(i) # q
          BY <1>0, <3>1, <4>1 DEF Sound, NetworkSound
        <4> QED BY <1>2, <1>8, <4>1, <4>2 DEF Packet
      <3>2. CASE q = N + 1
        <4>1. \A i \in 1 .. Len(orderingHeap) : Packet(i) # N + 1 BY <1>3, <1>15
        <4>2. w >= orderedReadIndex BY <1>3, <1>5, <1>17
        <4> QED BY <1>2, <1>9, <3>2, <4>1, <4>2 DEF Packet
      <3> QED BY <1>0, <1>1, <3>1, <3>2
    <2> QED BY <2>1 DEF NetworkSound
  <1>22. OutputSound'
    <2>1. ASSUME NEW i \in 1 .. Len(output)
          PROVE  (/\ Order(output[i]) <= orderedReadIndex
                  /\ Order(output[i]) = orderedReadIndex =>
                       Sequenced(output[i]) /\ SeqIndex(output[i]) <= highestSequencedReadIndex)'
      <3>1. output[i] \in 1 .. N /\ output'[i] = output[i] /\ sent'[output[i]] = sent[output[i]]
        BY <1>2, <1>7, <1>16
      <3>2. /\ Order(output[i]) <= orderedReadIndex
            /\ Order(output[i]) = orderedReadIndex =>
                 Sequenced(output[i]) /\ SeqIndex(output[i]) <= highestSequencedReadIndex
        BY <1>0 DEF Sound, OutputSound
      <3> QED BY <1>2, <3>1, <3>2 DEF Order, Sequenced, SeqIndex
    <2> QED BY <1>2, <2>1 DEF OutputSound
  <1>23. NothingLost'
    <2>1. ASSUME NEW q \in 1 .. N + 1, ~Sequenced(q)'
          PROVE  (q \in network \/ (\E i \in 1 .. Len(orderingHeap) : Packet(i) = q)
                  \/ \E i \in 1 .. Len(output) : output[i] = q)'
      <3>1. CASE q = N + 1 BY <1>0, <1>1, <3>1
      <3>2. CASE q \in 1 .. N
        <4>1. ~Sequenced(q) BY <1>8, <2>1, <3>2
        <4>2. q \in network \/ (\E i \in 1 .. Len(orderingHeap) : Packet(i) = q)
              \/ \E i \in 1 .. Len(output) : output[i] = q
          BY <1>0, <3>2, <4>1 DEF Sound, NothingLost
        <4> QED BY <1>1, <1>2, <4>2 DEF Packet
      <3> QED BY <1>10, <3>1, <3>2
    <2> QED BY <1>7, <2>1 DEF NothingLost
  <1>24. OutputInSendOrder' BY <1>0, <1>2 DEF Sound, OutputInSendOrder
  <1>25. OrderedWithoutGap'
    <2>1. DOMAIN sent = 1 .. N /\ DOMAIN sent' = 1 .. N + 1 /\ DOMAIN output = 1 .. Len(output)
      <3>1. output \in Seq(1 .. N) BY <1>0 DEF Sound, TypeOK
      <3> QED BY <1>0, <1>3, <1>7, <3>1
    <2>2. ASSUME NEW q \in 1 .. N + 1, ~Sequenced(q)'
          PROVE  (Order(q) < orderedReadIndex <=> \E i \in DOMAIN output : output[i] = q)'
      <3>1. CASE q = N + 1
        <4>1. \A i \in DOMAIN output : output[i] # N + 1 BY <1>3, <1>16, <2>1
        <4>2. ~(w < orderedReadIndex) BY <1>3, <1>5, <1>17
        <4> QED BY <1>2, <1>9, <3>1, <4>1, <4>2
      <3>2. CASE q \in 1 .. N
        <4>1. ~Sequenced(q) BY <1>8, <2>2, <3>2
        <4>2. Order(q) < orderedReadIndex <=> \E i \in DOMAIN output : output[i] = q
          BY <1>0, <2>1, <3>2, <4>1 DEF Sound, OrderedWithoutGap
        <4> QED BY <1>2, <1>8, <3>2, <4>2
      <3> QED BY <1>10, <3>1, <3>2
    <2>3. ASSUME NEW i \in DOMAIN output, NEW j \in DOMAIN output, output[i] = output[j], i # j
          PROVE  Sequenced(output[i])'
      <3>1. Sequenced(output[i]) BY <1>0, <2>3 DEF Sound, OrderedWithoutGap
      <3>2. output[i] \in 1 .. N BY <1>16, <2>1
      <3>3. output'[i] = output[i] /\ sent'[output[i]] = sent[output[i]] BY <1>2, <1>7, <3>2
      <3> QED BY <3>1, <3>3 DEF Sequenced
    <2> QED BY <1>2, <2>1, <2>2, <2>3 DEF OrderedWithoutGap
  <1> QED BY <1>0, <1>14, <1>18, <1>19, <1>20, <1>21, <1>22, <1>23, <1>24, <1>25 DEF Sound

-----------------------------------------------------------------------------
(* The channel before its first message.                                   *)
LEMMA SoundInit ==
  Init => Sound
  <1> SUFFICES ASSUME Init PROVE Sound OBVIOUS
  <1>1. /\ sent = <<>> /\ orderedWriteIndex = Start /\ sequencedWriteIndex = 0 /\ network = {}
        /\ duplicates = 0 /\ orderedReadIndex = Start /\ highestSequencedReadIndex = 0
        /\ orderingHeap = <<>> /\ heapIndexOffset = 0 /\ output = <<>>
    BY DEF Init
  <1>2. Start \in Nat /\ MaxMessages \in Nat /\ MaxSequenced \in Nat /\ MaxDuplicates \in Nat
    BY OrderingAssumption
  <1>3. Len(sent) = 0 /\ Len(orderingHeap) = 0 /\ Len(output) = 0
        /\ DOMAIN sent = {} /\ DOMAIN output = {} /\ 1 .. 0 = {}
    BY <1>1
  <1>4. TypeOK BY <1>1, <1>2, <1>3 DEF TypeOK
  <1>5. SentSound BY <1>1, <1>2, <1>3 DEF SentSound
  <1>6. ReadSound BY <1>1, <1>2, <1>3 DEF ReadSound
  <1>7. HeapSound BY <1>1, <1>3 DEF HeapSound
  <1>8. NetworkSound /\ OutputSound /\ NothingLost BY <1>1, <1>3 DEF NetworkSound, OutputSound, NothingLost
  <1>9. OutputInSendOrder /\ OrderedWithoutGap BY <1>3 DEF OutputInSendOrder, OrderedWithoutGap
  <1> QED BY <1>4, <1>5, <1>6, <1>7, <1>8, <1>9 DEF Sound

(* Every step of the channel keeps the invariant.                          *)
LEMMA SoundNext ==
  Sound /\ [Next]_vars => Sound'
  <1> SUFFICES ASSUME Sound, [Next]_vars PROVE Sound' OBVIOUS
  <1>1. ASSUME NEW r \in Reliabilities, Send(r) PROVE Sound' BY <1>1, SendStep
  <1>2. ASSUME NEW p \in network, Receive(p) PROVE Sound'
    <2>1. Arrive(p) /\ UNCHANGED senderVars BY <1>2 DEF Receive
    <2>2. CASE ReceiveSequenced(p) BY <2>1, <2>2, SequencedStep
    <2>3. CASE ReceiveOrdered(p) BY <2>1, <2>3, OrderedStep
    <2>4. CASE Buffer(p) BY <2>1, <2>4, BufferStep
    <2>5. CASE RejectOlder(p) BY <2>1, <2>5, RejectStep
    <2> QED BY <1>2, <2>2, <2>3, <2>4, <2>5 DEF Receive
  <1>3. ASSUME NEW p \in network, Lose(p) PROVE Sound' BY <1>3, LoseStep
  <1>4. CASE UNCHANGED vars
    <2>1. UNCHANGED <<senderVars, receiverVars>> /\ network' = network /\ duplicates' = duplicates
      BY <1>4 DEF vars
    <2>2. duplicates' \in 0 .. MaxDuplicates BY <2>1 DEF Sound, TypeOK
    <2> QED BY <2>1, <2>2, QuietStep
  <1> QED BY <1>1, <1>2, <1>3, <1>4 DEF Next

(* The invariant holds in every state.                                     *)
LEMMA SoundAlways ==
  Spec => []Sound
  BY SoundInit, SoundNext, PTL DEF Spec

(* Every variable keeps its type, wherever the indices wrap.               *)
THEOREM TypeCorrect ==
  Spec => []TypeOK
  <1>1. Sound => TypeOK BY DEF Sound
  <1> QED BY <1>1, SoundAlways, PTL

(* Ordered and sequenced messages of a channel come out in the order they  *)
(* were sent, whatever the path reorders, repeats or loses and wherever    *)
(* the indices wrap.                                                       *)
THEOREM OutputInSendOrderAlways ==
  Spec => []OutputInSendOrder
  <1>1. Sound => OutputInSendOrder BY DEF Sound
  <1> QED BY <1>1, SoundAlways, PTL

(* The reader has given out exactly the ordered messages before its index, *)
(* each once.                                                              *)
THEOREM OrderedWithoutGapAlways ==
  Spec => []OrderedWithoutGap
  <1>1. Sound => OrderedWithoutGap BY DEF Sound
  <1> QED BY <1>1, SoundAlways, PTL

(* The receiver never throws an ordered message away: what it has not      *)
(* given out is under way or in its heap.                                  *)
THEOREM NothingLostAlways ==
  Spec => []NothingLost
  <1>1. Sound => NothingLost BY DEF Sound
  <1> QED BY <1>1, SoundAlways, PTL
=============================================================================
