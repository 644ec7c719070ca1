----------------------- MODULE ReliabilityLayerProofs -----------------------
(***************************************************************************)
(* What is proved of ReliabilityLayer for every value of its constants.    *)
(* In three parts: the types and the resend buffer, the list over it and   *)
(* the datagram history, which stay consistent whatever is sent with       *)
(* whatever reliability; exactly-once delivery and the safety of releasing *)
(* a message, while no message is sent with UNRELIABLE_WITH_ACK_RECEIPT;   *)
(* and the receipts.                                                       *)
(***************************************************************************)
EXTENDS ReliabilityInvariant, WireArithmetic

-----------------------------------------------------------------------------
(***************************************************************************)
(* The types, the resend buffer and the datagram history.                  *)
(***************************************************************************)

(* A number put on the wire lies below NumberSpan (uint24_t).              *)
LEMMA WireRange == \A a \in Int : Wire(a) \in 0 .. NumberSpan - 1
  <1>1. NumberSpan \in Nat \ {0} BY BoundsAssumption, SpanAssumption
  <1> QED BY <1>1, ModRange DEF Wire

(* The difference of two uint24_t values is one again.                     *)
LEMMA SubRange == \A a, b \in Int : Sub(a, b) \in 0 .. NumberSpan - 1
  <1>1. NumberSpan \in Nat \ {0} BY BoundsAssumption, SpanAssumption
  <1> QED BY <1>1, ModRange DEF Sub

(* RESEND_BUFFER_ARRAY_MASK yields an index of resendBuffer.               *)
LEMMA SlotRange == \A a \in Int : Slot(a) \in 0 .. ResendBufferLength - 1
  BY BoundsAssumption, ModRange DEF Slot

(* InitializeVariables sets fields of the right type.                      *)
LEMMA TypeInit == Init => TypeOK
  <1> SUFFICES ASSUME Init PROVE TypeOK OBVIOUS
  <1>1. QueueType BY DEF Init, QueueType
  <1>2. UpdateType
    <2>1. deadConnection \in BOOLEAN BY Zenon DEF Init
    <2> QED BY <2>1 DEF Init, UpdateType
  <1>3. ResendType BY BoundsAssumption DEF Init, ResendType
  <1>4. HistoryType
    <2>1. history \in Seq(SUBSET WireNumbers) /\ Len(history) \in Nat /\ Len(history) <= Start
      BY BoundsAssumption DEF Init
    <2> QED BY <2>1, BoundsAssumption DEF Init, HistoryType
  <1>5. ReceiptType BY DEF Init, ReceiptType, NoReceipt
  <1>6. ReceiverType BY BoundsAssumption DEF Init, ReceiverType
  <1>7. NetType BY DEF Init, NetType
  <1> QED BY <1>1, <1>2, <1>3, <1>4, <1>5, <1>6, <1>7 DEF TypeOK

(* A group of variables that a step leaves alone keeps its type.           *)
LEMMA TypeKept ==
  /\ QueueType /\ UNCHANGED queueVars => QueueType'
  /\ UpdateType /\ UNCHANGED <<updateVars, ackWork, deadConnection>> => UpdateType'
  /\ ResendType /\ UNCHANGED resendVars => ResendType'
  /\ HistoryType /\ UNCHANGED historyVars => HistoryType'
  /\ ReceiptType /\ UNCHANGED receiptVars => ReceiptType'
  /\ ReceiverType /\ UNCHANGED receiverVars => ReceiverType'
  /\ NetType /\ UNCHANGED netVars => NetType'
  <1>1. QueueType /\ UNCHANGED queueVars => QueueType' BY DEF QueueType, queueVars
  <1>2. UpdateType /\ UNCHANGED <<updateVars, ackWork, deadConnection>> => UpdateType'
    BY DEF UpdateType, updateVars
  <1>3. ResendType /\ UNCHANGED resendVars => ResendType' BY DEF ResendType, resendVars
  <1>4. HistoryType /\ UNCHANGED historyVars => HistoryType' BY DEF HistoryType, historyVars
  <1>5. ReceiptType /\ UNCHANGED receiptVars => ReceiptType' BY DEF ReceiptType, receiptVars
  <1>6. ReceiverType /\ UNCHANGED receiverVars => ReceiverType' BY DEF ReceiverType, receiverVars
  <1>7. NetType /\ UNCHANGED netVars => NetType' BY DEF NetType, netVars
  <1> QED BY <1>1, <1>2, <1>3, <1>4, <1>5, <1>6, <1>7

(* The elements of a sequence belong to its element set.                   *)
LEMMA ElementsType ==
  ASSUME NEW S, NEW s \in Seq(S) PROVE Elements(s) \subseteq S
  BY DEF Elements

(* ReliabilityLayer::Send keeps the types.                                 *)
LEMMA TypeSend == ASSUME TypeOK, NEW m \in Messages, Send(m) PROVE TypeOK'
  <1>1. QueueType' BY DEF TypeOK, QueueType, Send
  <1> QED BY <1>1, TypeKept DEF TypeOK, Send

(* A retransmission timer that runs out keeps the types.                   *)
LEMMA TypeTimeout == ASSUME TypeOK, NEW m \in Messages, Timeout(m) PROVE TypeOK'
  <1>1. ResendType' BY DEF TypeOK, ResendType, Timeout
  <1>2. NetType' BY DEF TypeOK, NetType, Timeout
  <1> QED BY <1>1, <1>2, TypeKept DEF TypeOK, Timeout

(* Declaring the connection dead keeps the types.                          *)
LEMMA TypeAckTimeout == ASSUME TypeOK, AckTimeout PROVE TypeOK'
  <1>1. UpdateType'
    <2>1. deadConnection' \in BOOLEAN BY Zenon DEF AckTimeout
    <2> QED BY <2>1 DEF TypeOK, UpdateType, AckTimeout, updateVars
  <1>2. NetType' BY DEF TypeOK, NetType, AckTimeout
  <1> QED BY <1>1, <1>2, TypeKept DEF TypeOK, AckTimeout

(* Culling and overdue receipts at the start of UpdateInternal keep the    *)
(* types.                                                                  *)
LEMMA TypeUpdateBegin == ASSUME TypeOK, UpdateBegin PROVE TypeOK'
  <1>1. QueueType' BY DEF TypeOK, QueueType, UpdateBegin
  <1>2. UpdateType' BY DEF TypeOK, UpdateType, UpdateBegin
  <1>3. ReceiptType'
    <2>1. PICK late \in SUBSET receiptHistory :
            /\ receiptHistory' = receiptHistory \ late
            /\ receipts' = [m \in Messages |->
                              IF \E r \in late : r.message = m
                              THEN [receipts[m] EXCEPT !.LOSS = @ + 1] ELSE receipts[m]]
      BY DEF UpdateBegin, Unreported
    <2>2. receiptHistory' \subseteq [datagram : Nat, message : Messages]
      BY <2>1 DEF TypeOK, ReceiptType
    <2>3. receipts' \in [Messages -> [ACKED : Nat, LOSS : Nat]] BY <2>1 DEF TypeOK, ReceiptType
    <2> QED BY <2>2, <2>3 DEF ReceiptType
  <1> QED BY <1>1, <1>2, <1>3, TypeKept DEF TypeOK, UpdateBegin

(* Moving the head of the resend list into the datagram keeps the types.   *)
LEMMA TypeResendMessage == ASSUME TypeOK, ResendMessage PROVE TypeOK'
  <1>1. Head(resendList) \in Messages BY DEF TypeOK, ResendType, ResendMessage, HeadIsDue
  <1>2. UpdateType' BY <1>1 DEF TypeOK, UpdateType, ResendMessage
  <1>3. ResendType' BY <1>1 DEF TypeOK, ResendType, ResendMessage, HeadIsDue
  <1> QED BY <1>2, <1>3, TypeKept DEF TypeOK, ResendMessage

(* Sending a datagram records it in the history and puts it on the path    *)
(* with the right types.                                                   *)
LEMMA TypeEmit == ASSUME TypeOK, EmitDatagram, UNCHANGED faults
                  PROVE HistoryType' /\ NetType' /\ datagram' \in Seq(Messages)
  <1> DEFINE node == {Wire(number[m]) : m \in {x \in Elements(datagram) : Reliability[x] # "Unreliable"}}
  <1>1. node \in SUBSET WireNumbers
    <2>1. \A m \in Elements(datagram) : number[m] \in Int
      BY ElementsType DEF TypeOK, UpdateType, ResendType
    <2>2. \A m \in Elements(datagram) : Wire(number[m]) \in WireNumbers
      BY <2>1, WireRange DEF WireNumbers
    <2> QED BY <2>2
  <1>2. history' \in Seq(SUBSET WireNumbers)
    <2>1. history' = Append(IF HistoryFull THEN Tail(history) ELSE history, node) BY DEF EmitDatagram
    <2>2. HistoryFull => history # <<>> BY BoundsAssumption DEF TypeOK, HistoryType, HistoryFull
    <2> HIDE DEF node
    <2> QED BY <1>1, <2>1, <2>2 DEF TypeOK, HistoryType
  <1>3. HistoryType' BY <1>2 DEF TypeOK, HistoryType, EmitDatagram, PopCountAfterPush
  <1>4. [number |-> nextDatagram, messages |-> datagram] \in Datagrams
    BY DEF TypeOK, HistoryType, UpdateType, Datagrams
  <1>5. NetType' BY <1>4 DEF TypeOK, NetType, HistoryType, EmitDatagram
  <1> QED BY <1>3, <1>5 DEF EmitDatagram

(* Sending a datagram of resends keeps the types.                          *)
LEMMA TypeResendDatagram == ASSUME TypeOK, ResendDatagram PROVE TypeOK'
  <1>1. HistoryType' /\ NetType' /\ datagram' \in Seq(Messages) BY TypeEmit DEF ResendDatagram
  <1>2. UpdateType' BY <1>1 DEF TypeOK, UpdateType, ResendDatagram
  <1> QED BY <1>1, <1>2, TypeKept DEF TypeOK, ResendDatagram

(* Leaving the resend loop keeps the types.                                *)
LEMMA TypeResendDone == ASSUME TypeOK, ResendDone PROVE TypeOK'
  <1>1. UpdateType' BY DEF TypeOK, UpdateType, ResendDone
  <1> QED BY <1>1, TypeKept DEF TypeOK, ResendDone

(* Taking a message from the queue, numbering it and storing it keeps the  *)
(* types.                                                                  *)
LEMMA TypeTransmitMessage == ASSUME TypeOK, TransmitMessage PROVE TypeOK'
  <1> DEFINE m == Head(outgoing)
  <1>1. m \in Messages /\ outgoing # <<>> BY DEF TypeOK, QueueType, TransmitMessage
  <1>2. QueueType' BY DEF TypeOK, QueueType, TransmitMessage
  <1>3. UpdateType' BY <1>1 DEF TypeOK, UpdateType, TransmitMessage
  <1>4. ResendType'
    <2>1. Slot(Wire(sendIndex)) \in 0 .. ResendBufferLength - 1
      <3>1. Wire(sendIndex) \in Int BY WireRange, BoundsAssumption DEF TypeOK, ResendType
      <3> QED BY <3>1, SlotRange
    <2>2. CASE IsReliable(m)
      <3>1. number' \in [Messages -> Nat \cup {-1}] /\ sendIndex' \in Nat
        BY <1>1, <2>2 DEF TypeOK, ResendType, TransmitMessage
      <3>2. resendBuffer' \in [0 .. ResendBufferLength - 1 -> Messages \cup {None}]
        BY <1>1, <2>1, <2>2 DEF TypeOK, ResendType, TransmitMessage
      <3>3. resendList' \in Seq(Messages)
        <4>1. resendList' = Append(resendList, m) BY <2>2 DEF TransmitMessage
        <4> HIDE DEF m
        <4> QED BY <1>1, <4>1 DEF TypeOK, ResendType
      <3> QED BY <3>1, <3>2, <3>3 DEF TypeOK, ResendType, TransmitMessage
    <2>3. CASE ~IsReliable(m) BY <2>3 DEF TypeOK, ResendType, TransmitMessage
    <2> QED BY <2>2, <2>3
  <1>5. ReceiptType' BY <1>1 DEF TypeOK, ReceiptType, HistoryType, TransmitMessage
  <1> QED BY <1>2, <1>3, <1>4, <1>5, TypeKept DEF TypeOK, TransmitMessage

(* Sending a datagram of new messages keeps the types.                     *)
LEMMA TypeTransmitDatagram == ASSUME TypeOK, TransmitDatagram PROVE TypeOK'
  <1>1. HistoryType' /\ NetType' /\ datagram' \in Seq(Messages) BY TypeEmit DEF TransmitDatagram
  <1>2. UpdateType' BY <1>1 DEF TypeOK, UpdateType, TransmitDatagram
  <1> QED BY <1>1, <1>2, TypeKept DEF TypeOK, TransmitDatagram

(* Leaving the transmit loop keeps the types.                              *)
LEMMA TypeUpdateEnd == ASSUME TypeOK, UpdateEnd PROVE TypeOK'
  <1>1. UpdateType' BY DEF TypeOK, UpdateType, UpdateEnd
  <1> QED BY <1>1, TypeKept DEF TypeOK, UpdateEnd

(* Losing a packet keeps the types.                                        *)
LEMMA TypeLose == ASSUME TypeOK, Lose PROVE TypeOK'
  <1>1. dataNet' \subseteq dataNet /\ ackNet' \subseteq ackNet /\ nakNet' \subseteq nakNet BY DEF Lose
  <1>2. faults' \in Nat /\ lastSent' = lastSent BY DEF TypeOK, NetType, Lose, Spend
  <1>3. NetType' BY <1>1, <1>2 DEF TypeOK, NetType
  <1> QED BY <1>3, TypeKept DEF TypeOK, Lose, senderVars

(* The offset of a wire number into the history is a wire number.          *)
LEMMA OffsetRange == TypeOK => \A w \in WireNumbers : Offset(w) \in WireNumbers
  <1> SUFFICES ASSUME TypeOK, NEW w \in WireNumbers PROVE Offset(w) \in WireNumbers OBVIOUS
  <1>1. Wire(popCount) \in Int BY WireRange, BoundsAssumption DEF TypeOK, HistoryType
  <1>2. w \in Int BY BoundsAssumption DEF WireNumbers
  <1> QED BY <1>1, <1>2, SubRange DEF Offset, WireNumbers

(* What the ACK and NAK loops look up is in the history.                   *)
LEMMA ProcessedInHistory ==
  ASSUME TypeOK, NEW wires \in SUBSET WireNumbers, NEW cut, NEW w \in Processed(wires, cut)
  PROVE Offset(w) + 1 \in DOMAIN history /\ w \in WireNumbers
  <1>1. Offset(w) \in WireNumbers BY OffsetRange DEF Processed
  <1>2. Offset(w) < Len(history) BY BoundsAssumption DEF Processed, WireNumbers
  <1> QED BY <1>1, <1>2, BoundsAssumption DEF WireNumbers, TypeOK, HistoryType, Processed

(* The datagram numbers of a packet are encoded as wire numbers.           *)
LEMMA WiresType == ASSUME NEW p \in SUBSET Int PROVE {Wire(g) : g \in p} \in SUBSET WireNumbers
  BY WireRange DEF WireNumbers

(* Handling an ACK packet keeps the types.                                 *)
LEMMA TypeReceiveAck == ASSUME TypeOK, NEW p \in ackNet, ReceiveAck(p) PROVE TypeOK'
  <1> DEFINE wires == {Wire(g) : g \in p}
             acked == {r \in receiptHistory : Wire(r.datagram) \in wires}
             done(cut) == {Offset(w) + 1 : w \in Processed(wires, cut)}
  <1>1. wires \in SUBSET WireNumbers BY WiresType DEF TypeOK, NetType
  <1>2. PICK cut \in Cuts(wires) :
          /\ ackWork' = UNION {history[i] : i \in done(cut)}
          /\ history' = [i \in DOMAIN history |-> IF i \in done(cut) THEN {} ELSE history[i]]
    BY DEF ReceiveAck
  <1>3. done(cut) \subseteq DOMAIN history BY <1>1, ProcessedInHistory
  <1>4. UpdateType'
    <2>1. \A i \in DOMAIN history : history[i] \subseteq WireNumbers BY DEF TypeOK, HistoryType
    <2>2. ackWork' \subseteq WireNumbers BY <1>2, <1>3, <2>1
    <2> QED BY <2>2 DEF TypeOK, UpdateType, ReceiveAck
  <1>5. HistoryType'
    <2> HIDE DEF done
    <2>1. history' \in Seq(SUBSET WireNumbers) BY <1>2 DEF TypeOK, HistoryType
    <2> QED BY <2>1 DEF TypeOK, HistoryType, ReceiveAck
  <1>6. ReceiptType' BY DEF TypeOK, ReceiptType, ReceiveAck, Unreported
  <1>7. NetType' BY BoundsAssumption DEF TypeOK, NetType, ReceiveAck, Consume, Spend
  <1> QED BY <1>4, <1>5, <1>6, <1>7, TypeKept DEF TypeOK, ReceiveAck

(* Removing one element keeps the element set of a sequence.               *)
LEMMA WithoutType ==
  ASSUME NEW S, NEW s \in Seq(S), NEW i \in DOMAIN s PROVE Without(s, i) \in Seq(S)
  BY DEF Without

(* Removing an acknowledged message from the resend list keeps the types.  *)
LEMMA TypeAckMessage == ASSUME TypeOK, AckMessage PROVE TypeOK'
  <1>1. PICK w \in ackWork :
          /\ ackWork' = ackWork \ {w}
          /\ LET m == resendBuffer[Slot(w)] IN
             IF HoldsNumber(m, w)
             THEN /\ resendBuffer' = [resendBuffer EXCEPT ![Slot(w)] = None]
                  /\ \E i \in DOMAIN resendList :
                       resendList[i] = m /\ resendList' = Without(resendList, i)
                  /\ due' = due \ {m}
                  /\ receipts' = IF WantsReceipt(m)
                                 THEN [receipts EXCEPT ![m].ACKED = @ + 1] ELSE receipts
             ELSE UNCHANGED <<resendBuffer, resendList, due, receipts>>
    BY DEF AckMessage
  <1> DEFINE m == resendBuffer[Slot(w)]
  <1>2. Slot(w) \in 0 .. ResendBufferLength - 1
    BY SlotRange, BoundsAssumption DEF TypeOK, UpdateType, WireNumbers
  <1>3. UpdateType' BY <1>1 DEF TypeOK, UpdateType, AckMessage
  <1>4. ResendType'
    <2>1. CASE HoldsNumber(m, w)
      <3>1. resendBuffer' \in [0 .. ResendBufferLength - 1 -> Messages \cup {None}]
        BY <1>1, <1>2, <2>1 DEF TypeOK, ResendType
      <3>2. resendList' \in Seq(Messages) BY <1>1, <2>1, WithoutType DEF TypeOK, ResendType
      <3>3. due' \subseteq Messages BY <1>1, <2>1 DEF TypeOK, ResendType
      <3> QED BY <3>1, <3>2, <3>3 DEF TypeOK, ResendType, AckMessage
    <2>2. CASE ~HoldsNumber(m, w) BY <1>1, <2>2 DEF TypeOK, ResendType, AckMessage
    <2> QED BY <2>1, <2>2
  <1>5. ReceiptType'
    <2>1. CASE HoldsNumber(m, w)
      <3>1. m \in Messages BY <1>2, <2>1 DEF TypeOK, ResendType, HoldsNumber
      <3> QED BY <1>1, <2>1, <3>1 DEF TypeOK, ReceiptType, AckMessage
    <2>2. CASE ~HoldsNumber(m, w) BY <1>1, <2>2 DEF TypeOK, ReceiptType, AckMessage
    <2> QED BY <2>1, <2>2
  <1> QED BY <1>3, <1>4, <1>5, TypeKept DEF TypeOK, AckMessage

(* Handling a NAK packet keeps the types.                                  *)
LEMMA TypeReceiveNak == ASSUME TypeOK, NEW p \in nakNet, ReceiveNak(p) PROVE TypeOK'
  <1> DEFINE wires == {Wire(g) : g \in p}
             listed(cut) == UNION {history[Offset(v) + 1] : v \in Processed(wires, cut)}
  <1>1. wires \in SUBSET WireNumbers BY WiresType DEF TypeOK, NetType
  <1>2. PICK cut \in Cuts(wires) :
          due' = due \cup ({resendBuffer[Slot(w)] : w \in listed(cut)} \ {None})
    BY DEF ReceiveNak
  <1>3. \A w \in listed(cut) : Slot(w) \in 0 .. ResendBufferLength - 1
    <2>1. \A v \in Processed(wires, cut) : history[Offset(v) + 1] \subseteq WireNumbers
      BY <1>1, ProcessedInHistory DEF TypeOK, HistoryType
    <2>2. WireNumbers \subseteq Int BY BoundsAssumption DEF WireNumbers
    <2> QED BY <2>1, <2>2, SlotRange
  <1>4. due' \subseteq Messages BY <1>2, <1>3 DEF TypeOK, ResendType
  <1>5. ResendType' BY <1>4 DEF TypeOK, ResendType, ReceiveNak
  <1>6. NetType'
    <2>1. nakNet' \subseteq nakNet /\ faults' \in Nat
      BY DEF TypeOK, NetType, ReceiveNak, Consume, Spend
    <2> QED BY <2>1 DEF TypeOK, NetType, ReceiveNak
  <1> QED BY <1>5, <1>6, TypeKept DEF TypeOK, ReceiveNak

(* Accepting a datagram, with the NAKs it causes, keeps the types.         *)
LEMMA TypeReceiveDatagram == ASSUME TypeOK, NEW d \in dataNet, ReceiveDatagram(d) PROVE TypeOK'
  <1>1. d.number \in Nat /\ d.messages \in Seq(Messages) BY DEF TypeOK, NetType, Datagrams
  <1> DEFINE skipped == IF GreaterThan(Wire(d.number), Wire(expected))
                        THEN Sub(Wire(d.number), Wire(expected)) ELSE 0
             reported == IF skipped > NakLimit THEN NakLimit ELSE skipped
  <1>4. ReceiverType'
    <2>1. CASE skipped > SkipLimit BY <2>1 DEF TypeOK, ReceiverType, ReceiveDatagram
    <2>2. CASE ~(skipped > SkipLimit)
      <3>1. /\ expected' \in {expected, d.number + 1}
            /\ NAKs' = NAKs \cup {d.number - k : k \in 1 .. reported}
            /\ acknowlegements' = acknowlegements \cup {d.number}
            /\ socketData' = d.messages
            /\ UNCHANGED <<base, hasReceived, delivered>>
        BY <2>2 DEF ReceiveDatagram
      <3> HIDE DEF reported
      <3>2. \A k \in 1 .. reported : d.number - k \in Int BY <1>1
      <3>3. NAKs' \subseteq Int
        <4>1. SUFFICES ASSUME NEW g \in {d.number - k : k \in 1 .. reported} PROVE g \in Int
          BY <3>1 DEF TypeOK, ReceiverType
        <4>2. PICK k \in 1 .. reported : g = d.number - k OBVIOUS
        <4> QED BY <3>2, <4>2
      <3>4. expected' \in Nat /\ acknowlegements' \subseteq Nat
        <4> DEFINE g == d.number
        <4>1. g \in Nat BY <1>1
        <4>2. expected' \in {expected, g + 1} /\ acknowlegements' = acknowlegements \cup {g} BY <3>1
        <4> HIDE DEF g
        <4> QED BY <4>1, <4>2 DEF TypeOK, ReceiverType
      <3>5. hasReceived' \in Seq(BOOLEAN) BY <3>1 DEF TypeOK, ReceiverType
      <3> QED BY <1>1, <3>1, <3>3, <3>4, <3>5 DEF TypeOK, ReceiverType
    <2> QED BY <2>1, <2>2
  <1>5. NetType'
    <2>1. dataNet' \subseteq dataNet BY DEF ReceiveDatagram, Consume
    <2>2. faults' \in Nat BY DEF TypeOK, NetType, ReceiveDatagram, Consume, Spend, Overtakes
    <2> QED BY <2>1, <2>2 DEF TypeOK, NetType, ReceiveDatagram
  <1> QED BY <1>4, <1>5, TypeKept DEF TypeOK, ReceiveDatagram, senderVars

(* The receive queue with one more number marked is a queue of flags.      *)
LEMMA MarkedType ==
  ASSUME ReceiverType, NEW h \in Nat
  PROVE Marked(h) \in Seq(BOOLEAN)
  <1>1. CASE h < Len(hasReceived) BY <1>1 DEF Marked, ReceiverType
  <1>2. CASE ~(h < Len(hasReceived))
    <2> DEFINE f == [i \in 1 .. h + 1 |-> IF i <= Len(hasReceived) THEN hasReceived[i] ELSE i <= h]
    <2>1. ASSUME NEW i \in 1 .. h + 1 PROVE f[i] \in BOOLEAN
      <3>1. CASE i <= Len(hasReceived) BY <3>1 DEF ReceiverType
      <3>2. CASE ~(i <= Len(hasReceived))
        <4>1. f[i] = TRUE \/ f[i] = FALSE BY <3>2
        <4> QED BY <4>1, Zenon
      <3> QED BY <3>1, <3>2
    <2>2. Marked(h) = f BY <1>2 DEF Marked
    <2>3. f = [i \in 1 .. h + 1 |-> f[i]] OBVIOUS
    <2> HIDE DEF f
    <2> QED BY <2>1, <2>2, <2>3
  <1> QED BY <1>1, <1>2

(* Handling one message of a datagram keeps the types.                     *)
LEMMA TypeParseMessage == ASSUME TypeOK, ParseMessage PROVE TypeOK'
  <1> DEFINE m == Head(socketData)
             h == Sub(Wire(number[m]), Wire(base))
  <1>1. m \in Messages /\ Tail(socketData) \in Seq(Messages) BY DEF TypeOK, ReceiverType, ParseMessage
  <1>2. h \in Nat
    <2> HIDE DEF m
    <2>1. number[m] \in Int /\ base \in Int BY <1>1 DEF TypeOK, ResendType, ReceiverType
    <2>2. Wire(number[m]) \in Int /\ Wire(base) \in Int BY <2>1, WireRange, BoundsAssumption
    <2> QED BY <2>2, SubRange, BoundsAssumption
  <1>3. delivered' \in [Messages -> Nat]
    BY <1>1 DEF TypeOK, ReceiverType, ParseMessage, Deliver
  <1>4. base' \in Nat /\ hasReceived' \in Seq(BOOLEAN)
    <2>1. \/ UNCHANGED <<base, hasReceived>>
          \/ \E k \in 0 .. Len(Marked(h)) :
               hasReceived' = SubSeq(Marked(h), k + 1, Len(Marked(h))) /\ base' = base + k
      BY DEF ParseMessage
    <2>2. Marked(h) \in Seq(BOOLEAN) BY <1>2, MarkedType DEF TypeOK
    <2>3. CASE UNCHANGED <<base, hasReceived>> BY <2>3 DEF TypeOK, ReceiverType
    <2>4. ASSUME NEW k \in 0 .. Len(Marked(h)), base' = base + k,
                 hasReceived' = SubSeq(Marked(h), k + 1, Len(Marked(h)))
          PROVE base' \in Nat /\ hasReceived' \in Seq(BOOLEAN)
      <3> HIDE DEF h
      <3>1. base' \in Nat BY <2>2, <2>4 DEF TypeOK, ReceiverType
      <3>2. hasReceived' \in Seq(BOOLEAN) BY <2>2, <2>4
      <3> QED BY <3>1, <3>2
    <2> QED BY <2>1, <2>3, <2>4
  <1>5. ReceiverType' BY <1>1, <1>3, <1>4 DEF TypeOK, ReceiverType, ParseMessage
  <1> QED BY <1>5, TypeKept DEF TypeOK, ParseMessage, senderVars

(* Sending the pending acknowledgements keeps the types.                   *)
LEMMA TypeSendACKs == ASSUME TypeOK, SendACKs PROVE TypeOK'
  <1>1. ReceiverType' BY DEF TypeOK, ReceiverType, SendACKs
  <1>2. NetType' BY DEF TypeOK, NetType, ReceiverType, SendACKs
  <1> QED BY <1>1, <1>2, TypeKept DEF TypeOK, SendACKs, senderVars

(* Every step of the layer and of the path keeps the types.                *)
LEMMA TypeStep == TypeOK /\ [Next]_vars => TypeOK'
  <1> SUFFICES ASSUME TypeOK, [Next]_vars PROVE TypeOK' OBVIOUS
  <1>1. CASE Next
    BY <1>1, TypeSend, TypeTimeout, TypeUpdateBegin, TypeAckTimeout, TypeResendMessage,
       TypeResendDatagram, TypeResendDone, TypeTransmitMessage, TypeTransmitDatagram, TypeUpdateEnd,
       TypeAckMessage, TypeReceiveAck, TypeReceiveNak, TypeReceiveDatagram, TypeParseMessage,
       TypeSendACKs, TypeLose DEF Next, SenderLoop
  <1>2. CASE UNCHANGED vars BY <1>2, TypeKept DEF TypeOK, vars, senderVars
  <1> QED BY <1>1, <1>2

(* Whatever is sent, lost or reordered, every field of both layers stays   *)
(* in its type: wire numbers below the span, slots in the buffer, queues   *)
(* of messages (InitializeVariables and every handler).                    *)
THEOREM TypeCorrect == Spec => []TypeOK
  BY TypeInit, TypeStep, PTL DEF Spec

-----------------------------------------------------------------------------
(* Numbers, slots and lists.                                               *)

(* A number's slot is the number modulo the buffer length, before or after *)
(* it was wrapped to 24 bits.                                              *)
LEMMA SlotWire == \A a \in Int : Slot(Wire(a)) = (a % ResendBufferLength)
  <1>1. NumberSpan \in Nat \ {0} /\ ResendBufferLength \in Nat \ {0}
    BY BoundsAssumption, SpanAssumption
  <1> QED BY <1>1, SpanAssumption, ModMod DEF Slot, Wire

(* The numbers one buffer length apart share a slot.                       *)
LEMMA SlotShift ==
  ASSUME NEW a \in Int PROVE ((a - ResendBufferLength) % ResendBufferLength) = (a % ResendBufferLength)
  <1> DEFINE n == ResendBufferLength
             q == a \div n
             r == a % n
  <1>1. n \in Nat \ {0} BY BoundsAssumption
  <1>2. q \in Int /\ r \in 0 .. n - 1 /\ a = q * n + r BY <1>1, ModDivision
  <1> HIDE DEF n, q, r
  <1>3. (q - 1) * n = q * n - n /\ q * n \in Int BY <1>1, <1>2
  <1>4. a - n = (q - 1) * n + r BY <1>1, <1>2, <1>3
  <1>5. (a - n) % n = r BY <1>1, <1>2, <1>4, ModUnique
  <1> QED BY <1>5 DEF n, r

(* What appending, dropping the head and rotating do to the elements of a  *)
(* list and to its being free of repetitions.                              *)
LEMMA AppendElements ==
  ASSUME NEW S, NEW s \in Seq(S), NEW e \in S
  PROVE Elements(Append(s, e)) = Elements(s) \cup {e}
  <1> DEFINE t == Append(s, e)
  <1>1. /\ DOMAIN s = 1 .. Len(s) /\ DOMAIN t = 1 .. Len(s) + 1 /\ Len(s) \in Nat
        /\ t[Len(s) + 1] = e /\ \A i \in 1 .. Len(s) : t[i] = s[i]
    OBVIOUS
  <1> HIDE DEF t
  <1>2. ASSUME NEW x \in Elements(t) PROVE x \in Elements(s) \cup {e}
    BY <1>1 DEF Elements
  <1>3. ASSUME NEW x \in Elements(s) \cup {e} PROVE x \in Elements(t)
    <2>1. CASE x \in Elements(s)
      <3>1. PICK i \in 1 .. Len(s) : x = s[i] BY <1>1, <2>1 DEF Elements
      <3>2. i \in DOMAIN t /\ t[i] = x BY <1>1, <3>1
      <3> QED BY <3>2 DEF Elements
    <2>2. CASE x = e
      <3>1. Len(s) + 1 \in DOMAIN t BY <1>1
      <3> QED BY <1>1, <2>2, <3>1 DEF Elements
    <2> QED BY <2>1, <2>2
  <1> QED BY <1>2, <1>3 DEF t

(* The elements of a sequence are its head and those of its tail.          *)
LEMMA TailElements ==
  ASSUME NEW S, NEW s \in Seq(S), s # <<>>
  PROVE Elements(s) = Elements(Tail(s)) \cup {Head(s)}
  <1> DEFINE t == Tail(s)
  <1>1. /\ DOMAIN s = 1 .. Len(s) /\ DOMAIN t = 1 .. Len(s) - 1 /\ Len(s) \in Nat \ {0}
        /\ Head(s) = s[1] /\ \A i \in 1 .. Len(s) - 1 : t[i] = s[i + 1]
    OBVIOUS
  <1> HIDE DEF t
  <1>2. ASSUME NEW x \in Elements(s) PROVE x \in Elements(t) \cup {s[1]}
    <2>1. PICK i \in 1 .. Len(s) : x = s[i] BY <1>1 DEF Elements
    <2>2. CASE i = 1 BY <2>1, <2>2
    <2>3. CASE i # 1
      <3>1. i - 1 \in DOMAIN t /\ t[i - 1] = x BY <1>1, <2>1, <2>3
      <3> QED BY <3>1 DEF Elements
    <2> QED BY <2>2, <2>3
  <1>3. ASSUME NEW x \in Elements(t) \cup {s[1]} PROVE x \in Elements(s)
    <2>1. CASE x \in Elements(t)
      <3>1. PICK i \in 1 .. Len(s) - 1 : x = t[i] BY <1>1, <2>1 DEF Elements
      <3>2. i + 1 \in DOMAIN s /\ s[i + 1] = x BY <1>1, <3>1
      <3> QED BY <3>2 DEF Elements
    <2>2. CASE x = s[1]
      <3>1. 1 \in DOMAIN s BY <1>1
      <3> QED BY <2>2, <3>1 DEF Elements
    <2> QED BY <2>1, <2>2
  <1> QED BY <1>1, <1>2, <1>3 DEF t

(* A list without repetitions.                                             *)
Injective(s) == \A i, j \in DOMAIN s : s[i] = s[j] => i = j

(* Appending a new element keeps a sequence free of repetitions.           *)
LEMMA AppendInjective ==
  ASSUME NEW S, NEW s \in Seq(S), NEW e \in S, Injective(s), e \notin Elements(s)
  PROVE Injective(Append(s, e))
  <1> DEFINE t == Append(s, e)
  <1>1. /\ DOMAIN s = 1 .. Len(s) /\ DOMAIN t = 1 .. Len(s) + 1 /\ Len(s) \in Nat
        /\ t[Len(s) + 1] = e /\ \A i \in 1 .. Len(s) : t[i] = s[i]
    OBVIOUS
  <1> HIDE DEF t
  <1>2. \A i \in 1 .. Len(s) : s[i] # e BY <1>1 DEF Elements
  <1>3. Injective(t) BY <1>1, <1>2 DEF Injective
  <1> QED BY <1>3 DEF t

(* In a sequence free of repetitions the head is not in the tail.          *)
LEMMA TailInjective ==
  ASSUME NEW S, NEW s \in Seq(S), s # <<>>, Injective(s)
  PROVE Injective(Tail(s)) /\ Head(s) \notin Elements(Tail(s))
  <1> DEFINE t == Tail(s)
  <1>1. /\ DOMAIN s = 1 .. Len(s) /\ DOMAIN t = 1 .. Len(s) - 1 /\ Len(s) \in Nat \ {0}
        /\ Head(s) = s[1] /\ \A i \in 1 .. Len(s) - 1 : t[i] = s[i + 1]
    OBVIOUS
  <1> HIDE DEF t
  <1>2. Injective(t) BY <1>1 DEF Injective
  <1>3. s[1] \notin Elements(t) BY <1>1 DEF Injective, Elements
  <1> QED BY <1>1, <1>2, <1>3 DEF t

(* Taking one entry out of a list without repetitions.                     *)
LEMMA WithoutElements ==
  ASSUME NEW S, NEW s \in Seq(S), NEW p \in DOMAIN s, Injective(s)
  PROVE Injective(Without(s, p)) /\ Elements(Without(s, p)) = Elements(s) \ {s[p]}
  <1> DEFINE t == Without(s, p)
  <1>1. /\ DOMAIN s = 1 .. Len(s) /\ Len(s) \in Nat /\ p \in 1 .. Len(s)
        /\ DOMAIN t = 1 .. Len(s) - 1
        /\ \A i \in 1 .. Len(s) - 1 : t[i] = IF i < p THEN s[i] ELSE s[i + 1]
    BY DEF Without
  <1> HIDE DEF t
  <1>2. Injective(t) BY SMTT(30), <1>1 DEF Injective
  <1>3. ASSUME NEW x \in Elements(t) PROVE x \in Elements(s) \ {s[p]}
    <2>1. PICK i \in 1 .. Len(s) - 1 : x = t[i] BY <1>1 DEF Elements
    <2> DEFINE j == IF i < p THEN i ELSE i + 1
    <2>2. j \in DOMAIN s /\ x = s[j] /\ j # p BY <1>1, <2>1
    <2> HIDE DEF j
    <2> QED BY <1>1, <2>2 DEF Elements, Injective
  <1>4. ASSUME NEW x \in Elements(s), x # s[p] PROVE x \in Elements(t)
    <2>1. PICK i \in 1 .. Len(s) : x = s[i] BY <1>1 DEF Elements
    <2> DEFINE j == IF i < p THEN i ELSE i - 1
    <2>2. i # p BY <1>4, <2>1
    <2>3. j \in DOMAIN t /\ x = t[j] BY <1>1, <2>1, <2>2
    <2> HIDE DEF j
    <2> QED BY <2>3 DEF Elements
  <1> QED BY <1>2, <1>3, <1>4 DEF t

-----------------------------------------------------------------------------
(* The parts of the invariant hold initially.                              *)
LEMMA ResendBufferInit == Init => NumberingInv /\ ResendInv /\ HistoryAligned
  <1> SUFFICES ASSUME Init PROVE NumberingInv /\ ResendInv /\ HistoryAligned OBVIOUS
  <1>1. NumberingInv BY BoundsAssumption DEF Init, NumberingInv
  <1>2. Unacknowledged = {} BY DEF Init, Unacknowledged
  <1>3. ResendInv BY <1>2 DEF Init, ResendInv, ResendListMatchesBuffer, Elements
  <1>4. HistoryAligned
    <2>1. Len(history) = (IF Start <= HistoryLength THEN Start ELSE HistoryLength + 1)
      BY BoundsAssumption DEF Init
    <2> QED BY <2>1, BoundsAssumption DEF Init, HistoryAligned
  <1> QED BY <1>1, <1>3, <1>4

(* A part whose variables a step leaves alone is kept.                     *)
LEMMA ResendBufferKept ==
  /\ NumberingInv /\ UNCHANGED <<sent, outgoing, culled, number, sendIndex>> => NumberingInv'
  /\ ResendInv /\ UNCHANGED <<number, sendIndex, resendBuffer, resendList>> => ResendInv'
  /\ HistoryAligned /\ UNCHANGED historyVars => HistoryAligned'
  <1>1. NumberingInv /\ UNCHANGED <<sent, outgoing, culled, number, sendIndex>> => NumberingInv'
    BY DEF NumberingInv, Elements
  <1>2. ResendInv /\ UNCHANGED <<number, sendIndex, resendBuffer, resendList>> => ResendInv'
    BY DEF ResendInv, ResendListMatchesBuffer, Unacknowledged, Elements, Slot, Wire
  <1>3. HistoryAligned /\ UNCHANGED historyVars => HistoryAligned' BY DEF HistoryAligned, historyVars
  <1> QED BY <1>1, <1>2, <1>3

(* An unacknowledged message is a message, and sits in the slot of its     *)
(* number.                                                                 *)
LEMMA UnacknowledgedSlot ==
  ASSUME TypeOK, ResendInv, NEW m \in Unacknowledged
  PROVE /\ m \in Messages /\ m # None
        /\ (number[m] % ResendBufferLength) \in 0 .. ResendBufferLength - 1
        /\ resendBuffer[number[m] % ResendBufferLength] = m
  <1>1. PICK i \in 0 .. ResendBufferLength - 1 : resendBuffer[i] = m /\ m # None
    BY DEF Unacknowledged, TypeOK, ResendType
  <1>2. m \in Messages /\ number[m] \in Int BY <1>1 DEF TypeOK, ResendType
  <1>3. Slot(Wire(number[m])) = i BY <1>1 DEF ResendInv, ResendListMatchesBuffer, TypeOK, ResendType
  <1> QED BY <1>1, <1>2, <1>3, SlotWire

-----------------------------------------------------------------------------
(* Sending.                                                                *)

(* Send queues a message that has no number yet.                           *)
LEMMA SendNumbering ==
  ASSUME TypeOK, NumberingInv, NEW m \in Messages, Send(m) PROVE NumberingInv'
  <1>1. outgoing \in Seq(Messages) BY DEF TypeOK, QueueType
  <1>2. m \notin Elements(outgoing) /\ number[m] = -1
    <2>1. m \notin sent BY DEF Send
    <2> QED BY <2>1 DEF NumberingInv, Elements
  <1>3. /\ outgoing' = Append(outgoing, m) /\ sent' = sent \cup {m}
        /\ UNCHANGED <<culled, number, sendIndex>>
    BY DEF Send, resendVars
  <1>4. Injective(outgoing') BY <1>1, <1>2, <1>3, AppendInjective DEF NumberingInv, Injective
  <1>5. Elements(outgoing') = Elements(outgoing) \cup {m} BY <1>1, <1>3, AppendElements
  <1>6. \A x \in Elements(outgoing) : x \in sent /\ number[x] = -1 BY DEF NumberingInv, Elements
  <1>7. \A i \in DOMAIN outgoing' : outgoing'[i] \in sent' /\ number'[outgoing'[i]] = -1
    <2>1. \A x \in Elements(outgoing') : x \in sent' /\ number'[x] = -1
      BY <1>2, <1>3, <1>5, <1>6
    <2>2. \A i \in DOMAIN outgoing' : outgoing'[i] \in Elements(outgoing') BY DEF Elements
    <2> QED BY <2>1, <2>2
  <1>8. \A x \in sent' : IsReliable(x) => number'[x] # -1 \/ x \in Elements(outgoing')
    BY <1>3, <1>5 DEF NumberingInv
  <1>9. Elements(outgoing)' = Elements(outgoing') BY DEF Elements
  <1> QED BY <1>3, <1>4, <1>7, <1>8, <1>9 DEF NumberingInv, Injective

(* Culling touches unreliable messages only.                               *)
LEMMA UpdateBeginNumbering ==
  ASSUME TypeOK, NumberingInv, UpdateBegin PROVE NumberingInv'
  <1>1. UNCHANGED <<sent, outgoing, number, sendIndex>> BY DEF UpdateBegin, resendVars
  <1>2. \A m \in culled' : ~IsReliable(m)
    <2>1. PICK k \in 0 .. Len(outgoing) :
            culled' = culled \cup {outgoing[i] : i \in {j \in 1 .. k : ~IsReliable(outgoing[j])}}
      BY DEF UpdateBegin
    <2> QED BY <2>1 DEF NumberingInv
  <1> QED BY <1>1, <1>2 DEF NumberingInv, Elements

(* Moving the head of the resend list to its tail keeps list and buffer    *)
(* equal.                                                                  *)
LEMMA ResendMessageResend ==
  ASSUME TypeOK, ResendInv, ResendMessage PROVE ResendInv'
  <1> DEFINE m == Head(resendList)
             t == Tail(resendList)
  <1>1. resendList \in Seq(Messages) /\ resendList # <<>> /\ Injective(resendList)
    BY DEF TypeOK, ResendType, ResendMessage, HeadIsDue, ResendInv, ResendListMatchesBuffer, Injective
  <1>2. t \in Seq(Messages) /\ m \in Messages BY <1>1
  <1>3. resendList' = Append(t, m) /\ UNCHANGED <<number, sendIndex, resendBuffer>>
    BY DEF ResendMessage
  <1>4. Injective(t) /\ m \notin Elements(t) BY <1>1, TailInjective
  <1>5. Elements(resendList) = Elements(t) \cup {m} BY <1>1, TailElements
  <1> HIDE DEF m, t
  <1>6. Injective(resendList') BY <1>2, <1>3, <1>4, AppendInjective
  <1>7. Elements(resendList') = Elements(resendList) BY <1>2, <1>3, <1>5, AppendElements
  <1>8. Unacknowledged' = Unacknowledged BY <1>3 DEF Unacknowledged
  <1>9. Elements(resendList)' = Elements(resendList') BY DEF Elements
  <1> QED BY <1>3, <1>6, <1>7, <1>8, <1>9
          DEF ResendInv, ResendListMatchesBuffer, Injective, Slot, Wire

(* The message taken from the queue gets the next number, which no other   *)
(* has.                                                                    *)
LEMMA TransmitMessageNumbering ==
  ASSUME TypeOK, NumberingInv, TransmitMessage PROVE NumberingInv'
  <1> DEFINE m == Head(outgoing)
             t == Tail(outgoing)
  <1>1. outgoing \in Seq(Messages) /\ outgoing # <<>> /\ Injective(outgoing) /\ sendIndex \in Nat
    BY DEF TypeOK, QueueType, ResendType, TransmitMessage, NumberingInv, Injective
  <1>2. t \in Seq(Messages) /\ m \in Messages /\ outgoing' = t /\ UNCHANGED <<sent, culled>>
    BY <1>1 DEF TransmitMessage
  <1>3. Injective(t) /\ m \notin Elements(t) BY <1>1, TailInjective
  <1>4. Elements(outgoing) = Elements(t) \cup {m} BY <1>1, TailElements
  <1>5. \A x \in Elements(outgoing) : x \in sent /\ number[x] = -1 BY DEF NumberingInv, Elements
  <1>6. Elements(outgoing)' = Elements(t) BY <1>2 DEF Elements
  <1>7. \/ IsReliable(m) /\ number' = [number EXCEPT ![m] = sendIndex] /\ sendIndex' = sendIndex + 1
        \/ ~IsReliable(m) /\ UNCHANGED <<number, sendIndex>>
    BY DEF TransmitMessage
  <1>8. number \in [Messages -> Nat \cup {-1}] BY DEF TypeOK, ResendType
  <1> HIDE DEF m, t
  <1>9. ASSUME NEW i \in DOMAIN t PROVE t[i] \in sent /\ number'[t[i]] = -1
    <2>1. t[i] \in Elements(t) /\ t[i] # m BY <1>3 DEF Elements
    <2>2. t[i] \in sent /\ number[t[i]] = -1 BY <1>4, <1>5, <2>1
    <2>3. t[i] \in Messages BY <1>2
    <2> QED BY <1>7, <1>8, <2>1, <2>2, <2>3
  <1>10. CASE IsReliable(m) /\ number' = [number EXCEPT ![m] = sendIndex] /\ sendIndex' = sendIndex + 1
    <2>1. m \in sent /\ number[m] = -1 BY <1>4, <1>5
    <2>2. \A x \in Messages : number'[x] = IF x = m THEN sendIndex ELSE number[x] BY <1>8, <1>10
    <2>3. \A x \in Messages : number'[x] # -1 => x \in sent /\ IsReliable(x) /\ number'[x] < sendIndex'
      BY <1>1, <1>8, <1>10, <2>1, <2>2 DEF NumberingInv
    <2>4. \A x, y \in Messages : number'[x] # -1 /\ number'[x] = number'[y] => x = y
      BY <1>1, <1>8, <2>2 DEF NumberingInv
    <2>5. \A k \in Start .. sendIndex' - 1 : \E x \in Messages : number'[x] = k
      <3> SUFFICES ASSUME NEW k \in Start .. sendIndex' - 1 PROVE \E x \in Messages : number'[x] = k
        OBVIOUS
      <3>1. CASE k = sendIndex BY <1>2, <2>2, <3>1
      <3>2. CASE k # sendIndex
        <4>1. k \in Start .. sendIndex - 1 BY <1>1, <1>10, <3>2, BoundsAssumption
        <4>2. PICK x \in Messages : number[x] = k BY <4>1 DEF NumberingInv
        <4>3. x # m BY <2>1, <4>1, <4>2, BoundsAssumption
        <4> QED BY <2>2, <4>2, <4>3
      <3> QED BY <3>1, <3>2
    <2>6. \A x \in sent : IsReliable(x) => number'[x] # -1 \/ x \in Elements(t)
      <3>1. sent \subseteq Messages BY DEF TypeOK, QueueType
      <3> QED BY <1>1, <1>4, <2>2, <3>1 DEF NumberingInv
    <2> QED BY <1>2, <1>3, <1>6, <1>9, <2>3, <2>4, <2>5, <2>6 DEF NumberingInv, Injective
  <1>11. CASE ~IsReliable(m) /\ UNCHANGED <<number, sendIndex>>
    <2>1. \A x \in sent : IsReliable(x) => number[x] # -1 \/ x \in Elements(t)
      BY <1>4, <1>11 DEF NumberingInv
    <2> QED BY <1>2, <1>3, <1>6, <1>9, <1>11, <2>1 DEF NumberingInv, Injective
  <1> QED BY <1>7, <1>10, <1>11

(* A reliable message takes a free slot, which leaves the unacknowledged   *)
(* numbers within one buffer length: the one that would fall out of it     *)
(* would sit in that slot.                                                 *)
LEMMA TransmitMessageResend ==
  ASSUME TypeOK, NumberingInv, ResendInv, TransmitMessage PROVE ResendInv'
  <1> DEFINE m == Head(outgoing)
             s == Slot(Wire(sendIndex))
  <1>1. outgoing \in Seq(Messages) /\ outgoing # <<>> BY DEF TypeOK, QueueType, TransmitMessage
  <1>2. m \in Messages /\ number[m] = -1 /\ m # None
    <2>1. m \in Messages /\ m \in Elements(outgoing) BY <1>1, TailElements
    <2>2. number[m] = -1 BY <2>1 DEF NumberingInv, Elements
    <2> QED BY <2>1, <2>2, NoneAssumption
  <1>3. number \in [Messages -> Nat \cup {-1}] /\ sendIndex \in Nat /\ resendList \in Seq(Messages)
    BY DEF TypeOK, ResendType
  <1>4. resendBuffer \in [0 .. ResendBufferLength - 1 -> Messages \cup {None}]
    BY DEF TypeOK, ResendType
  <1>5. s = (sendIndex % ResendBufferLength) /\ s \in 0 .. ResendBufferLength - 1
    <2>1. s = (sendIndex % ResendBufferLength) BY <1>3, SlotWire
    <2> QED BY <1>3, <2>1, BoundsAssumption, ModRange
  <1>6. resendBuffer[s] = None BY DEF TransmitMessage, ResendBufferOverflow
  <1>7. CASE ~IsReliable(m)
    BY <1>7, ResendBufferKept DEF TransmitMessage
  <1>8. CASE IsReliable(m)
    <2>1. /\ number' = [number EXCEPT ![m] = sendIndex] /\ sendIndex' = sendIndex + 1
          /\ resendBuffer' = [resendBuffer EXCEPT ![s] = m] /\ resendList' = Append(resendList, m)
      BY <1>8 DEF TransmitMessage
    <2> HIDE DEF m, s
    <2>2. m \notin Unacknowledged BY <1>2 DEF ResendInv
    <2>3. Unacknowledged' = Unacknowledged \cup {m}
      <3>1. \A i \in 0 .. ResendBufferLength - 1 :
              resendBuffer'[i] = IF i = s THEN m ELSE resendBuffer[i]
        BY <1>4, <1>5, <2>1
      <3>2. DOMAIN resendBuffer' = 0 .. ResendBufferLength - 1 BY <1>4, <2>1
      <3>3. ASSUME NEW x \in Unacknowledged' PROVE x \in Unacknowledged \cup {m}
        BY <1>4, <3>1, <3>2 DEF Unacknowledged
      <3>4. ASSUME NEW x \in Unacknowledged \cup {m} PROVE x \in Unacknowledged'
        BY <1>2, <1>4, <1>5, <1>6, <3>1, <3>2 DEF Unacknowledged
      <3> QED BY <3>3, <3>4
    <2>4. Elements(resendList)' = Elements(resendList) \cup {m}
      <3>1. Elements(Append(resendList, m)) = Elements(resendList) \cup {m} BY <1>2, <1>3, AppendElements
      <3> QED BY <2>1, <3>1 DEF Elements
    <2>5. Injective(resendList')
      BY <1>2, <1>3, <2>1, <2>2, AppendInjective DEF ResendInv, ResendListMatchesBuffer, Injective
    <2>6. \A x \in Messages : number'[x] = IF x = m THEN sendIndex ELSE number[x] BY <1>3, <2>1
    <2>7. ASSUME NEW i \in DOMAIN resendBuffer', resendBuffer'[i] # None
          PROVE Slot(Wire(number'[resendBuffer'[i]])) = i
      <3>1. CASE i = s
        <4>1. resendBuffer'[i] = m BY <1>4, <1>5, <2>1, <3>1
        <4> QED BY <1>2, <2>6, <3>1, <4>1 DEF s
      <3>2. CASE i # s
        <4>1. i \in DOMAIN resendBuffer /\ resendBuffer'[i] = resendBuffer[i] BY <1>4, <2>1, <2>7, <3>2
        <4>2. resendBuffer[i] \in Unacknowledged BY <2>7, <4>1 DEF Unacknowledged
        <4>3. resendBuffer[i] \in Messages /\ resendBuffer[i] # m
          BY <2>2, <4>2, UnacknowledgedSlot
        <4> QED BY <2>6, <2>7, <4>1, <4>3 DEF ResendInv, ResendListMatchesBuffer
      <3> QED BY <3>1, <3>2
    <2>8. ASSUME NEW x \in Unacknowledged'
          PROVE number'[x] # -1 /\ sendIndex' - number'[x] <= ResendBufferLength
      <3>1. CASE x = m BY <1>2, <1>3, <2>1, <2>6, <3>1, BoundsAssumption
      <3>2. CASE x # m
        <4>1. x \in Unacknowledged /\ x \in Messages BY <2>3, <3>2, UnacknowledgedSlot
        <4>2. number[x] # -1 /\ sendIndex - number[x] <= ResendBufferLength BY <4>1 DEF ResendInv
        <4>3. sendIndex - number[x] # ResendBufferLength
          <5> SUFFICES ASSUME sendIndex - number[x] = ResendBufferLength PROVE FALSE OBVIOUS
          <5>0. number[x] \in Int BY <1>3, <4>1
          <5>1. number[x] = sendIndex - ResendBufferLength BY <1>3, <5>0, BoundsAssumption
          <5>2. (number[x] % ResendBufferLength) = s BY <1>3, <1>5, <5>1, SlotShift
          <5> QED BY <1>6, <4>1, <5>2, UnacknowledgedSlot
        <4> QED BY <1>3, <2>1, <2>6, <3>2, <4>1, <4>2, <4>3, BoundsAssumption
      <3> QED BY <3>1, <3>2
    <2> QED BY <2>3, <2>4, <2>5, <2>7, <2>8
            DEF ResendInv, ResendListMatchesBuffer, Injective, Slot, Wire
  <1> QED BY <1>7, <1>8

-----------------------------------------------------------------------------
(* Acknowledgement.                                                        *)

(* What AckMessage does to the buffer and the list: it takes nothing out,  *)
(* or exactly the message that carries the acknowledged number.            *)
LEMMA AckMessageEffect ==
  ASSUME TypeOK, ResendInv, AckMessage
  PROVE \E w \in ackWork :
          /\ ackWork' = ackWork \ {w}
          /\ \/ UNCHANGED <<resendBuffer, resendList, receipts>>
             \/ \E m \in Unacknowledged :
                  /\ Wire(number[m]) = w
                  /\ receipts' = IF WantsReceipt(m)
                                 THEN [receipts EXCEPT ![m].ACKED = @ + 1] ELSE receipts
                  /\ resendBuffer' = [resendBuffer EXCEPT ![number[m] % ResendBufferLength] = None]
                  /\ Unacknowledged' = Unacknowledged \ {m}
                  /\ Elements(resendList)' = Elements(resendList) \ {m}
                  /\ Injective(resendList')
  <1>1. PICK w \in ackWork :
          /\ ackWork' = ackWork \ {w}
          /\ LET m == resendBuffer[Slot(w)] IN
             IF HoldsNumber(m, w)
             THEN /\ resendBuffer' = [resendBuffer EXCEPT ![Slot(w)] = None]
                  /\ \E i \in DOMAIN resendList :
                       resendList[i] = m /\ resendList' = Without(resendList, i)
                  /\ receipts' = IF WantsReceipt(m)
                                 THEN [receipts EXCEPT ![m].ACKED = @ + 1] ELSE receipts
             ELSE UNCHANGED <<resendBuffer, resendList, receipts>>
    BY DEF AckMessage
  <1> DEFINE m == resendBuffer[Slot(w)]
  <1>2. CASE ~HoldsNumber(m, w) BY <1>1, <1>2
  <1>3. CASE HoldsNumber(m, w)
    <2>1. w \in Int BY BoundsAssumption DEF TypeOK, UpdateType, WireNumbers
    <2>2. Slot(w) \in 0 .. ResendBufferLength - 1 BY <2>1, SlotRange
    <2>3. resendBuffer \in [0 .. ResendBufferLength - 1 -> Messages \cup {None}]
      BY DEF TypeOK, ResendType
    <2>4. m # None /\ Wire(number[m]) = w BY <1>3 DEF HoldsNumber
    <2>5. m \in Unacknowledged BY <2>2, <2>3, <2>4 DEF Unacknowledged
    <2>6. m \in Messages /\ number[m] \in Int BY <2>5, UnacknowledgedSlot DEF TypeOK, ResendType
    <2>7. Slot(w) = (number[m] % ResendBufferLength) BY <2>4, <2>6, SlotWire
    <2>8. PICK i \in DOMAIN resendList : resendList[i] = m /\ resendList' = Without(resendList, i)
      BY <1>1, <1>3
    <2>9. Injective(resendList') /\ Elements(resendList') = Elements(resendList) \ {m}
      <3>1. resendList \in Seq(Messages) /\ Injective(resendList)
        BY DEF TypeOK, ResendType, ResendInv, ResendListMatchesBuffer, Injective
      <3> QED BY <2>8, <3>1, WithoutElements
    <2>10. resendBuffer' = [resendBuffer EXCEPT ![Slot(w)] = None] BY <1>1, <1>3
    <2>11. Unacknowledged' = Unacknowledged \ {m}
      <3>1. DOMAIN resendBuffer' = 0 .. ResendBufferLength - 1 BY <2>3, <2>10
      <3>2. \A j \in 0 .. ResendBufferLength - 1 :
              resendBuffer'[j] = IF j = Slot(w) THEN None ELSE resendBuffer[j]
        BY <2>2, <2>3, <2>10
      <3>3. \A j \in 0 .. ResendBufferLength - 1 : resendBuffer[j] = m => j = Slot(w)
        <4> SUFFICES ASSUME NEW j \in 0 .. ResendBufferLength - 1, resendBuffer[j] = m PROVE j = Slot(w)
          OBVIOUS
        <4>1. Slot(Wire(number[m])) = j
          BY <2>3, <2>4 DEF ResendInv, ResendListMatchesBuffer
        <4> QED BY <2>4, <4>1
      <3> HIDE DEF m
      <3>4. ASSUME NEW x \in Unacknowledged' PROVE x \in Unacknowledged \ {m}
        BY <2>3, <3>1, <3>2, <3>3 DEF Unacknowledged
      <3>5. ASSUME NEW x \in Unacknowledged, x # m PROVE x \in Unacknowledged'
        <4>1. PICK j \in 0 .. ResendBufferLength - 1 : resendBuffer[j] = x /\ x # None
          BY <2>3 DEF Unacknowledged
        <4>2. j # Slot(w) BY <3>5, <4>1 DEF m
        <4>3. resendBuffer'[j] = x BY <3>2, <4>1, <4>2
        <4> QED BY <3>1, <4>1, <4>3 DEF Unacknowledged
      <3> QED BY <3>4, <3>5
    <2>12. Elements(resendList)' = Elements(resendList') BY DEF Elements
    <2>13. receipts' = IF WantsReceipt(m) THEN [receipts EXCEPT ![m].ACKED = @ + 1] ELSE receipts
      BY <1>1, <1>3
    <2> HIDE DEF m
    <2> QED BY <1>1, <2>4, <2>5, <2>7, <2>9, <2>10, <2>11, <2>12, <2>13
  <1> QED BY <1>2, <1>3

(* An acknowledged message leaves list and buffer together.                *)
LEMMA AckMessageResend ==
  ASSUME TypeOK, ResendInv, AckMessage PROVE ResendInv'
  <1>1. UNCHANGED <<number, sendIndex>> BY DEF AckMessage
  <1>2. CASE UNCHANGED <<resendBuffer, resendList>> BY <1>1, <1>2, ResendBufferKept
  <1>3. ASSUME NEW m \in Unacknowledged,
               resendBuffer' = [resendBuffer EXCEPT ![number[m] % ResendBufferLength] = None],
               Unacknowledged' = Unacknowledged \ {m},
               Elements(resendList)' = Elements(resendList) \ {m},
               Injective(resendList')
        PROVE ResendInv'
    <2>1. \A i \in DOMAIN resendBuffer' :
            resendBuffer'[i] # None => i \in DOMAIN resendBuffer /\ resendBuffer'[i] = resendBuffer[i]
      BY <1>3, UnacknowledgedSlot DEF TypeOK, ResendType
    <2>2. \A i \in DOMAIN resendBuffer' :
            resendBuffer'[i] # None => Slot(Wire(number'[resendBuffer'[i]])) = i
      BY <1>1, <2>1 DEF ResendInv, ResendListMatchesBuffer
    <2>3. Elements(resendList)' = Unacknowledged' BY <1>3 DEF ResendInv, ResendListMatchesBuffer
    <2>4. \A x \in Unacknowledged' : number'[x] # -1 /\ sendIndex' - number'[x] <= ResendBufferLength
      BY <1>1, <1>3 DEF ResendInv
    <2> QED BY <1>3, <2>2, <2>3, <2>4 DEF ResendInv, ResendListMatchesBuffer, Injective, Slot, Wire
  <1> QED BY <1>2, <1>3, AckMessageEffect

-----------------------------------------------------------------------------
(* The datagram history.                                                   *)

(* A push keeps the length within the limit by popping the oldest entry,   *)
(* and counts what it popped.                                              *)
LEMMA EmitAligned == ASSUME TypeOK, HistoryAligned, EmitDatagram PROVE HistoryAligned'
  <1> DEFINE node == {Wire(number[m]) : m \in {x \in Elements(datagram) : Reliability[x] # "Unreliable"}}
             kept == IF HistoryFull THEN Tail(history) ELSE history
  <1>1. history \in Seq(SUBSET WireNumbers) /\ popCount \in Nat /\ nextDatagram \in Nat
    BY DEF TypeOK, HistoryType
  <1>2. history' = Append(kept, node) /\ nextDatagram' = nextDatagram + 1
        /\ popCount' = (IF HistoryFull THEN popCount + 1 ELSE popCount)
    BY DEF EmitDatagram, PopCountAfterPush
  <1>3. HistoryFull => history # <<>> BY <1>1, BoundsAssumption DEF HistoryFull
  <1>4. kept \in Seq(SUBSET WireNumbers)
        /\ Len(kept) = (IF HistoryFull THEN Len(history) - 1 ELSE Len(history))
    BY <1>1, <1>3
  <1> HIDE DEF node, kept
  <1>5. Len(history') = Len(kept) + 1 BY <1>2, <1>4
  <1>6. Len(history) \in Nat BY <1>1
  <1> QED BY <1>1, <1>2, <1>4, <1>5, <1>6, BoundsAssumption DEF HistoryAligned, HistoryFull

(* Clearing the entries an ACK names keeps the history's length.           *)
LEMMA ReceiveAckAligned ==
  ASSUME TypeOK, HistoryAligned, NEW p \in ackNet, ReceiveAck(p) PROVE HistoryAligned'
  <1>1. UNCHANGED <<nextDatagram, popCount>> BY DEF ReceiveAck
  <1>2. Len(history') = Len(history)
    <2>1. \E f : history' = [i \in DOMAIN history |-> f[i]]
      <3>1. PICK done : history' = [i \in DOMAIN history |-> IF i \in done THEN {} ELSE history[i]]
        BY DEF ReceiveAck
      <3> QED BY <3>1
    <2>2. DOMAIN history' = 1 .. Len(history) BY <2>1 DEF TypeOK, HistoryType
    <2>3. history' \in Seq(SUBSET WireNumbers) BY TypeReceiveAck DEF TypeOK, HistoryType
    <2> QED BY <2>2, <2>3 DEF TypeOK, HistoryType
  <1> QED BY <1>1, <1>2 DEF HistoryAligned

-----------------------------------------------------------------------------
(* Each action disturbs few parts.  The rest are kept because their        *)
(* variables are.                                                          *)
LEMMA ResendBufferNext == ResendBufferInv /\ Next => NumberingInv' /\ ResendInv' /\ HistoryAligned'
  <1> SUFFICES ASSUME ResendBufferInv, Next PROVE NumberingInv' /\ ResendInv' /\ HistoryAligned'
    OBVIOUS
  <1> USE DEF ResendBufferInv
  <1>1. ASSUME NEW m \in Messages, Send(m) PROVE NumberingInv' /\ ResendInv' /\ HistoryAligned'
    BY <1>1, SendNumbering, ResendBufferKept DEF Send, resendVars
  <1>2. ASSUME NEW m \in Messages, Timeout(m) PROVE NumberingInv' /\ ResendInv' /\ HistoryAligned'
    BY <1>2, ResendBufferKept DEF Timeout, queueVars
  <1>3. CASE UpdateBegin
    BY <1>3, UpdateBeginNumbering, ResendBufferKept DEF UpdateBegin, resendVars
  <1>4. CASE AckTimeout BY <1>4, ResendBufferKept DEF AckTimeout, queueVars, resendVars
  <1>5. CASE ResendMessage
    BY <1>5, ResendMessageResend, ResendBufferKept DEF ResendMessage, queueVars
  <1>6. CASE ResendDatagram
    BY <1>6, EmitAligned, ResendBufferKept DEF ResendDatagram, queueVars, resendVars
  <1>7. CASE ResendDone BY <1>7, ResendBufferKept DEF ResendDone, queueVars, resendVars
  <1>8. CASE TransmitMessage
    BY <1>8, TransmitMessageNumbering, TransmitMessageResend, ResendBufferKept DEF TransmitMessage
  <1>9. CASE TransmitDatagram
    BY <1>9, EmitAligned, ResendBufferKept DEF TransmitDatagram, queueVars, resendVars
  <1>10. CASE UpdateEnd BY <1>10, ResendBufferKept DEF UpdateEnd, queueVars, resendVars
  <1>11. CASE AckMessage BY <1>11, AckMessageResend, ResendBufferKept DEF AckMessage, queueVars
  <1>12. ASSUME NEW p \in ackNet, ReceiveAck(p) PROVE NumberingInv' /\ ResendInv' /\ HistoryAligned'
    BY <1>12, ReceiveAckAligned, ResendBufferKept DEF ReceiveAck, queueVars, resendVars
  <1>13. ASSUME NEW p \in nakNet, ReceiveNak(p) PROVE NumberingInv' /\ ResendInv' /\ HistoryAligned'
    BY <1>13, ResendBufferKept DEF ReceiveNak, queueVars
  <1>14. CASE UNCHANGED senderVars
    BY <1>14, ResendBufferKept DEF senderVars, queueVars, resendVars
  <1>15. ASSUME NEW d \in dataNet, ReceiveDatagram(d) PROVE UNCHANGED senderVars
    BY <1>15 DEF ReceiveDatagram
  <1>16. ParseMessage \/ SendACKs \/ Lose => UNCHANGED senderVars BY DEF ParseMessage, SendACKs, Lose
  <1> QED BY <1>1, <1>2, <1>3, <1>4, <1>5, <1>6, <1>7, <1>8, <1>9, <1>10, <1>11, <1>12, <1>13,
             <1>14, <1>15, <1>16 DEF Next, SenderLoop

(* Every step keeps numbering, resend list and history consistent.         *)
LEMMA ResendBufferStep == ResendBufferInv /\ [Next]_vars => ResendBufferInv'
  <1>1. ResendBufferInv /\ Next => ResendBufferInv'
    BY ResendBufferNext, TypeStep DEF ResendBufferInv
  <1>2. ResendBufferInv /\ UNCHANGED vars => ResendBufferInv'
    BY ResendBufferKept, TypeStep DEF ResendBufferInv, vars, senderVars, queueVars, resendVars
  <1> QED BY <1>1, <1>2

(* The invariant of the resend buffer and the datagram history, for every  *)
(* mix of reliabilities.                                                   *)
THEOREM ResendBufferCorrect == Spec => []ResendBufferInv
  <1>1. Init => ResendBufferInv BY TypeInit, ResendBufferInit DEF ResendBufferInv
  <1> QED BY <1>1, ResendBufferStep, PTL DEF Spec

(* The linked list and the array of unacknowledged messages never          *)
(* disagree (ReliabilityLayer::ValidateResendList).                        *)
THEOREM ResendListCorrect == Spec => []ResendListMatchesBuffer
  <1>1. ResendBufferInv => ResendListMatchesBuffer BY DEF ResendBufferInv, ResendInv
  <1> QED BY <1>1, ResendBufferCorrect, PTL

(* datagramHistory always starts at datagramHistoryPopCount, ends at the   *)
(* newest datagram and keeps to its limit (AddFirstToDatagramHistory).     *)
THEOREM HistoryCorrect == Spec => []HistoryAligned
  <1>1. ResendBufferInv => HistoryAligned BY DEF ResendBufferInv
  <1> QED BY <1>1, ResendBufferCorrect, PTL

-----------------------------------------------------------------------------
(***************************************************************************)
(* Exactly-once delivery and the safety of releasing a message.            *)
(***************************************************************************)

(* The wire distance of two numbers less than a span apart.                *)
LEMMA SubAhead ==
  ASSUME NEW a \in Int, NEW b \in Int, a - b \in 0 .. NumberSpan - 1
  PROVE Sub(Wire(a), Wire(b)) = a - b
  <1>1. NumberSpan \in Nat \ {0} BY BoundsAssumption, SpanAssumption
  <1> QED BY <1>1, ModAhead DEF Sub, Wire

(* A number less than a span behind another appears as its distance plus   *)
(* the span.                                                               *)
LEMMA SubBehind ==
  ASSUME NEW a \in Int, NEW b \in Int, b - a \in 1 .. NumberSpan - 1
  PROVE Sub(Wire(a), Wire(b)) = a - b + NumberSpan
  <1>1. NumberSpan \in Nat \ {0} BY BoundsAssumption, SpanAssumption
  <1> QED BY <1>1, ModBehind DEF Sub, Wire

(* Numbers less than a span apart are equal when their wire numbers are.   *)
LEMMA WireEqual ==
  ASSUME NEW a \in Int, NEW b \in Int, a - b \in 1 - NumberSpan .. NumberSpan - 1, Wire(a) = Wire(b)
  PROVE a = b
  <1>1. NumberSpan \in Nat \ {0} BY BoundsAssumption, SpanAssumption
  <1> QED BY <1>1, ModEqual DEF Wire

(* Products with a fixed factor keep the order.                            *)
LEMMA TimesMonotone ==
  ASSUME NEW a \in Int, NEW b \in Int, a <= b, NEW c \in Nat
  PROVE a * c <= b * c /\ a * c \in Int /\ b * c \in Int
  <1>1. (b - a) * c >= 0 OBVIOUS
  <1>2. (b - a) * c = b * c - a * c /\ a * c \in Int /\ b * c \in Int OBVIOUS
  <1> QED BY <1>1, <1>2

(* What the window of the resend buffer says of an unacknowledged message. *)
LEMMA UnacknowledgedNumber ==
  ASSUME ResendBufferInv, NEW m \in Unacknowledged
  PROVE /\ m \in Messages /\ IsReliable(m) /\ number[m] \in Nat
        /\ number[m] < sendIndex /\ sendIndex - number[m] <= ResendBufferLength
  <1>1. m \in Messages BY UnacknowledgedSlot DEF ResendBufferInv
  <1>2. number[m] # -1 /\ sendIndex - number[m] <= ResendBufferLength
    BY DEF ResendBufferInv, ResendInv
  <1> QED BY <1>1, <1>2 DEF ResendBufferInv, NumberingInv, TypeOK, ResendType

(* No two unacknowledged messages share a wire number.                     *)
LEMMA UnacknowledgedWire ==
  ASSUME ResendBufferInv, NEW x \in Unacknowledged, NEW y \in Unacknowledged,
         Wire(number[x]) = Wire(number[y])
  PROVE x = y
  <1>1. /\ x \in Messages /\ number[x] \in Nat /\ number[x] < sendIndex
        /\ sendIndex - number[x] <= ResendBufferLength
    BY UnacknowledgedNumber
  <1>2. /\ y \in Messages /\ number[y] \in Nat /\ number[y] < sendIndex
        /\ sendIndex - number[y] <= ResendBufferLength
    BY UnacknowledgedNumber
  <1>3. sendIndex \in Nat BY DEF ResendBufferInv, TypeOK, ResendType
  <1>4. number[x] - number[y] \in 1 - NumberSpan .. NumberSpan - 1
    BY <1>1, <1>2, <1>3, BoundsAssumption, SpanAssumption
  <1>5. number[x] = number[y] BY <1>1, <1>2, <1>4, WireEqual
  <1> QED BY <1>1, <1>2, <1>5 DEF ResendBufferInv, NumberingInv

-----------------------------------------------------------------------------
(* Nothing is numbered, under way or delivered at the start.               *)
LEMMA DeliveryInit == Init => Consistent
  <1> SUFFICES ASSUME Init PROVE Consistent OBVIOUS
  <1>1. ResendBufferInv BY TypeInit, ResendBufferInit DEF ResendBufferInv
  <1>2. UpdateInv BY BoundsAssumption DEF Init, UpdateInv, Elements
  <1>3. ReceiverInv BY BoundsAssumption DEF Init, ReceiverInv, ReliableMessages
  <1>4. FlightInv BY DEF Init, FlightInv, Elements
  <1>5. HistoryInv
    <2> SUFFICES ASSUME NEW g \in popCount .. nextDatagram - 1 PROVE Listed(g) = {}
      BY DEF HistoryInv
    <2>1. g - popCount + 1 \in DOMAIN history
      <3>1. popCount \in Nat /\ nextDatagram \in Nat /\ history \in Seq(SUBSET WireNumbers)
            /\ popCount + Len(history) = nextDatagram
        BY <1>1 DEF ResendBufferInv, TypeOK, HistoryType, HistoryAligned
      <3> QED BY <3>1
    <2> QED BY <2>1 DEF Init, Listed
  <1>6. Unacknowledged = {} BY DEF Init, Unacknowledged
  <1>7. AckInv BY <1>6 DEF Init, AckInv
  <1>8. KeptInv BY DEF Init, KeptInv
  <1> QED BY <1>1, <1>2, <1>3, <1>4, <1>5, <1>7, <1>8 DEF Consistent

(* A part whose variables a step leaves alone is kept.                     *)
LEMMA DeliveryKept ==
  /\ UpdateInv /\ UNCHANGED <<phase, datagram, ackWork, resendBuffer>> => UpdateInv'
  /\ ReceiverInv /\ UNCHANGED <<base, hasReceived, sendIndex, number, delivered>> => ReceiverInv'
  /\ FlightInv /\ UNCHANGED <<dataNet, acknowlegements, ackNet, nextDatagram, number, socketData,
                              base, hasReceived>> => FlightInv'
  /\ HistoryInv /\ UNCHANGED <<popCount, history, nextDatagram, sendIndex, datagram>> => HistoryInv'
  /\ AckInv /\ UNCHANGED <<dataNet, acknowlegements, socketData, ackNet, popCount, history,
                           resendBuffer, number, delivered, ackWork>> => AckInv'
  /\ KeptInv /\ UNCHANGED <<number, delivered, resendBuffer>> => KeptInv'
  <1>1. UpdateInv /\ UNCHANGED <<phase, datagram, ackWork, resendBuffer>> => UpdateInv'
    BY DEF UpdateInv, Elements, Unacknowledged
  <1>2. ReceiverInv /\ UNCHANGED <<base, hasReceived, sendIndex, number, delivered>> => ReceiverInv'
    BY DEF ReceiverInv, Received
  <1>3. FlightInv /\ UNCHANGED <<dataNet, acknowlegements, ackNet, nextDatagram, number, socketData,
                                 base, hasReceived>> => FlightInv'
    BY DEF FlightInv, Recent, Fresh, Elements
  <1>4. HistoryInv /\ UNCHANGED <<popCount, history, nextDatagram, sendIndex, datagram>> => HistoryInv'
    BY DEF HistoryInv, Listed, Wire
  <1>5. AckInv /\ UNCHANGED <<dataNet, acknowlegements, socketData, ackNet, popCount, history,
                              resendBuffer, number, delivered, ackWork>> => AckInv'
    BY DEF AckInv, Covered, Listed, Unacknowledged, Elements, Wire
  <1>6. KeptInv /\ UNCHANGED <<number, delivered, resendBuffer>> => KeptInv'
    BY DEF KeptInv, Unacknowledged
  <1> QED BY <1>1, <1>2, <1>3, <1>4, <1>5, <1>6

(* The number at the base of the receiver's window was not delivered, so   *)
(* its message is unacknowledged and the window is at most as long as the  *)
(* resend buffer.                                                          *)
LEMMA WindowBound == Consistent => ReceiveWindow
  <1> SUFFICES ASSUME Consistent PROVE ReceiveWindow OBVIOUS
  <1>1. /\ base \in Nat /\ sendIndex \in Nat /\ hasReceived \in Seq(BOOLEAN)
        /\ number \in [Messages -> Nat \cup {-1}]
    BY DEF Consistent, ResendBufferInv, TypeOK, ResendType, ReceiverType
  <1>2. Start <= base /\ base + Len(hasReceived) <= sendIndex BY DEF Consistent, ReceiverInv
  <1>3. CASE base = sendIndex BY <1>1, <1>2, <1>3, BoundsAssumption DEF ReceiveWindow
  <1>4. CASE base # sendIndex
    <2>1. base \in Start .. sendIndex - 1 BY <1>1, <1>2, <1>4, BoundsAssumption
    <2>2. PICK m \in Messages : number[m] = base
      BY <2>1 DEF Consistent, ResendBufferInv, NumberingInv
    <2>3. ~Received(base)
      <3>1. hasReceived # <<>> => hasReceived[1] BY DEF Consistent, ReceiverInv
      <3>2. Len(hasReceived) > 0 => hasReceived # <<>> BY <1>1
      <3>3. base - base + 1 = 1 BY <1>1
      <3>4. base < base + Len(hasReceived) => Len(hasReceived) > 0 BY <1>1
      <3>5. ~(base < base) BY <1>1
      <3> QED BY <3>1, <3>2, <3>3, <3>4, <3>5 DEF Received
    <2>4. number[m] # -1 BY <1>1, <2>2
    <2>5. m \in ReliableMessages
      BY <2>4 DEF Consistent, ResendBufferInv, NumberingInv, ReliableMessages
    <2>6. delivered[m] = 0 BY <2>2, <2>3, <2>5 DEF Consistent, ReceiverInv
    <2>7. m \in Unacknowledged BY <2>4, <2>6 DEF Consistent, KeptInv
    <2>8. sendIndex - base <= ResendBufferLength BY <2>2, <2>7, UnacknowledgedNumber DEF Consistent
    <2> QED BY <1>1, <1>2, <2>1, <2>8, BoundsAssumption DEF ReceiveWindow
  <1> QED BY <1>3, <1>4

-----------------------------------------------------------------------------
(* The sender's update.                                                    *)

(* A message resent is unacknowledged, and the datagram it joins grows by  *)
(* one.                                                                    *)
LEMMA ResendMessageUpdate == ASSUME Consistent, ResendMessage PROVE UpdateInv' /\ HistoryInv'
  <1> DEFINE m == Head(resendList)
  <1>1. resendList \in Seq(Messages) /\ resendList # <<>> /\ datagram \in Seq(Messages)
    BY DEF Consistent, ResendBufferInv, TypeOK, ResendType, UpdateType, ResendMessage, HeadIsDue
  <1>2. m \in Messages /\ m \in Unacknowledged
    BY <1>1, TailElements DEF Consistent, ResendBufferInv, ResendInv, ResendListMatchesBuffer
  <1>3. /\ datagram' = Append(datagram, m) /\ Len(datagram) < MaxPerDatagram
        /\ phase = "resend"
        /\ UNCHANGED <<phase, number, sendIndex, resendBuffer, ackWork, popCount, history, nextDatagram>>
    BY DEF ResendMessage, historyVars
  <1> HIDE DEF m
  <1>4. Elements(datagram') = Elements(datagram) \cup {m} BY <1>1, <1>2, <1>3, AppendElements
  <1>5. Len(datagram') = Len(datagram) + 1 /\ Len(datagram) \in Nat BY <1>1, <1>2, <1>3
  <1>6. Elements(datagram)' = Elements(datagram') /\ Unacknowledged' = Unacknowledged
    BY <1>3 DEF Elements, Unacknowledged
  <1>7. UpdateInv'
    BY <1>2, <1>3, <1>4, <1>5, <1>6, BoundsAssumption DEF Consistent, UpdateInv
  <1>8. HistoryInv'
    <2> SUFFICES ASSUME NEW g \in popCount .. nextDatagram - 1, NEW w \in Listed(g)
                 PROVE \E k \in 0 .. sendIndex - 1 :
                         /\ w = Wire(k)
                         /\ sendIndex - k <= ResendBufferLength
                              + (nextDatagram - g - 1) * MaxPerDatagram + Len(datagram')
      BY <1>3 DEF HistoryInv, Listed, Wire
    <2>1. PICK k \in 0 .. sendIndex - 1 :
            /\ w = Wire(k)
            /\ sendIndex - k <= ResendBufferLength
                 + (nextDatagram - g - 1) * MaxPerDatagram + Len(datagram)
      BY DEF Consistent, HistoryInv
    <2>2. sendIndex \in Nat /\ popCount \in Nat /\ nextDatagram \in Nat
      BY DEF Consistent, ResendBufferInv, TypeOK, ResendType, HistoryType
    <2>3. (nextDatagram - g - 1) * MaxPerDatagram \in Int BY <2>2, BoundsAssumption
    <2>4. sendIndex - k <= ResendBufferLength
                 + (nextDatagram - g - 1) * MaxPerDatagram + Len(datagram')
      BY <1>5, <2>1, <2>2, <2>3, BoundsAssumption
    <2> QED BY <2>1, <2>4
  <1> QED BY <1>7, <1>8

(* The numbers that a recent datagram lists are less than a span behind    *)
(* sendIndex, so the next number is not among them.                        *)
LEMMA NextNumberUnlisted ==
  ASSUME Consistent, Len(datagram) < MaxPerDatagram, NEW g \in Nat, Recent(g), g >= popCount
  PROVE Wire(sendIndex) \notin Listed(g)
  <1> SUFFICES ASSUME Wire(sendIndex) \in Listed(g) PROVE FALSE OBVIOUS
  <1>1. /\ sendIndex \in Nat /\ popCount \in Nat /\ nextDatagram \in Nat /\ Len(datagram) \in Nat
    BY DEF Consistent, ResendBufferInv, TypeOK, ResendType, HistoryType, UpdateType
  <1>2. g \in popCount .. nextDatagram - 1 /\ nextDatagram - g <= Lifetime
    BY <1>1 DEF Recent, Fresh
  <1> DEFINE P == (nextDatagram - g - 1) * MaxPerDatagram
  <1>3. PICK k \in 0 .. sendIndex - 1 :
          Wire(sendIndex) = Wire(k) /\ sendIndex - k <= ResendBufferLength + P + Len(datagram)
    BY <1>2 DEF Consistent, HistoryInv
  <1>4. P \in Int /\ P + MaxPerDatagram <= (Lifetime + 1) * MaxPerDatagram
    <2>1. nextDatagram - g - 1 <= Lifetime /\ nextDatagram - g - 1 \in Int
      BY <1>1, <1>2, BoundsAssumption
    <2>2. P <= Lifetime * MaxPerDatagram /\ P \in Int /\ Lifetime * MaxPerDatagram \in Int
      BY <2>1, BoundsAssumption, TimesMonotone
    <2>3. (Lifetime + 1) * MaxPerDatagram = Lifetime * MaxPerDatagram + MaxPerDatagram
      BY BoundsAssumption
    <2> HIDE DEF P
    <2> QED BY <2>2, <2>3, BoundsAssumption
  <1> HIDE DEF P
  <1>5. (Lifetime + 1) * MaxPerDatagram \in Int BY BoundsAssumption
  <1>6. sendIndex - k \in 1 .. NumberSpan - 1
    BY <1>1, <1>3, <1>4, <1>5, BoundsAssumption, SpanAssumption
  <1>7. sendIndex - k \in 1 - NumberSpan .. NumberSpan - 1 /\ k \in Int BY <1>6, BoundsAssumption
  <1>8. sendIndex = k BY <1>1, <1>3, <1>7, WireEqual
  <1> QED BY <1>1, <1>6, <1>8

(* What TransmitMessage does to the variables of the invariant.            *)
LEMMA TransmitMessageEffect ==
  ASSUME Consistent, TransmitMessage
  PROVE \E m \in Messages :
          /\ m \in Elements(outgoing) /\ number[m] = -1
          /\ \/ /\ IsReliable(m)
                /\ number' = [number EXCEPT ![m] = sendIndex] /\ sendIndex' = sendIndex + 1
                /\ Unacknowledged' = Unacknowledged \cup {m}
                /\ datagram' = Append(datagram, m)
             \/ /\ ~IsReliable(m)
                /\ UNCHANGED <<number, sendIndex, resendBuffer>>
                /\ Unacknowledged' = Unacknowledged
                /\ datagram' = datagram \/ datagram' = Append(datagram, m)
  <1> DEFINE m == Head(outgoing)
             s == Slot(Wire(sendIndex))
  <1>1. outgoing \in Seq(Messages) /\ outgoing # <<>>
    BY DEF Consistent, ResendBufferInv, TypeOK, QueueType, TransmitMessage
  <1>2. m \in Messages /\ m \in Elements(outgoing) BY <1>1, TailElements
  <1>3. number[m] = -1 BY <1>2 DEF Consistent, ResendBufferInv, NumberingInv, Elements
  <1>4. CASE ~IsReliable(m)
    <2>1. /\ UNCHANGED <<number, sendIndex, resendBuffer>>
          /\ datagram' = datagram \/ datagram' = Append(datagram, m)
      BY <1>4 DEF TransmitMessage
    <2>2. Unacknowledged' = Unacknowledged BY <2>1 DEF Unacknowledged
    <2> HIDE DEF m
    <2> QED BY <1>2, <1>3, <1>4, <2>1, <2>2
  <1>5. CASE IsReliable(m)
    <2>1. m \notin culled BY <1>5 DEF Consistent, ResendBufferInv, NumberingInv
    <2>2. /\ number' = [number EXCEPT ![m] = sendIndex] /\ sendIndex' = sendIndex + 1
          /\ resendBuffer' = [resendBuffer EXCEPT ![s] = m] /\ datagram' = Append(datagram, m)
          /\ resendBuffer[s] = None
      BY <1>5, <2>1 DEF TransmitMessage, ResendBufferOverflow
    <2>3. resendBuffer \in [0 .. ResendBufferLength - 1 -> Messages \cup {None}] /\ sendIndex \in Nat
      BY DEF Consistent, ResendBufferInv, TypeOK, ResendType
    <2>4. s \in 0 .. ResendBufferLength - 1
      <3>1. Wire(sendIndex) \in Int BY <2>3, WireRange, BoundsAssumption
      <3> QED BY <3>1, SlotRange
    <2> HIDE DEF m, s
    <2>5. Unacknowledged' = Unacknowledged \cup {m}
      <3>1. \A i \in 0 .. ResendBufferLength - 1 :
              resendBuffer'[i] = IF i = s THEN m ELSE resendBuffer[i]
        BY <2>2, <2>3, <2>4
      <3>2. DOMAIN resendBuffer' = 0 .. ResendBufferLength - 1 BY <2>2, <2>3
      <3>3. ASSUME NEW x \in Unacknowledged' PROVE x \in Unacknowledged \cup {m}
        BY <2>3, <3>1, <3>2 DEF Unacknowledged
      <3>4. ASSUME NEW x \in Unacknowledged \cup {m} PROVE x \in Unacknowledged'
        BY <1>2, <2>2, <2>3, <2>4, <3>1, <3>2, NoneAssumption DEF Unacknowledged
      <3> QED BY <3>3, <3>4
    <2> QED BY <1>2, <1>3, <1>5, <2>2, <2>5
  <1> QED BY <1>4, <1>5

(* Taking a message without a number into the datagram.                    *)
LEMMA TransmitUnreliable ==
  ASSUME Consistent, TransmitMessage, NEW m \in Messages, ~IsReliable(m),
         UNCHANGED <<number, sendIndex, resendBuffer>>, Unacknowledged' = Unacknowledged,
         datagram' = datagram \/ datagram' = Append(datagram, m)
  PROVE UpdateInv' /\ ReceiverInv' /\ FlightInv' /\ HistoryInv' /\ AckInv' /\ KeptInv'
  <1>1. /\ phase \in {"transmit", "more"} /\ Len(datagram) < MaxPerDatagram
        /\ UNCHANGED <<phase, ackWork, popCount, history, nextDatagram, base, hasReceived, delivered,
                       dataNet, acknowlegements, ackNet, socketData>>
    BY DEF TransmitMessage, historyVars, receiverVars, netVars
  <1>2. datagram \in Seq(Messages) BY DEF Consistent, ResendBufferInv, TypeOK, UpdateType
  <1>3. Len(datagram') \in {Len(datagram), Len(datagram) + 1} /\ Len(datagram) \in Nat BY <1>2
  <1>4. UpdateInv'
    <2>1. Elements(datagram') \subseteq Elements(datagram) \cup {m} BY <1>2, AppendElements
    <2>2. Elements(datagram)' = Elements(datagram') BY DEF Elements
    <2>3. Len(datagram') <= MaxPerDatagram BY <1>1, <1>3, BoundsAssumption
    <2>4. \A x \in Elements(datagram') : IsReliable(x) => x \in Unacknowledged'
      BY <2>1 DEF Consistent, UpdateInv
    <2> QED BY <1>1, <2>2, <2>3, <2>4 DEF Consistent, UpdateInv
  <1>5. HistoryInv'
    <2> SUFFICES ASSUME NEW g \in popCount .. nextDatagram - 1, NEW w \in Listed(g)
                 PROVE \E k \in 0 .. sendIndex - 1 :
                         /\ w = Wire(k)
                         /\ sendIndex - k <= ResendBufferLength
                              + (nextDatagram - g - 1) * MaxPerDatagram + Len(datagram')
      BY <1>1 DEF HistoryInv, Listed, Wire
    <2>1. PICK k \in 0 .. sendIndex - 1 :
            /\ w = Wire(k)
            /\ sendIndex - k <= ResendBufferLength
                 + (nextDatagram - g - 1) * MaxPerDatagram + Len(datagram)
      BY DEF Consistent, HistoryInv
    <2>2. sendIndex \in Nat /\ popCount \in Nat /\ nextDatagram \in Nat
      BY DEF Consistent, ResendBufferInv, TypeOK, ResendType, HistoryType
    <2>3. (nextDatagram - g - 1) * MaxPerDatagram \in Int BY <2>2, BoundsAssumption
    <2>4. sendIndex - k <= ResendBufferLength
                 + (nextDatagram - g - 1) * MaxPerDatagram + Len(datagram')
      BY <1>3, <2>1, <2>2, <2>3, BoundsAssumption
    <2> QED BY <2>1, <2>4
  <1> QED BY <1>1, <1>4, <1>5, DeliveryKept DEF Consistent

(* Taking a reliable message into the datagram: its number is new to the   *)
(* receiver, to every packet in flight and to every recent history entry.  *)
LEMMA TransmitReliable ==
  ASSUME Consistent, TransmitMessage, NEW m \in Messages, IsReliable(m),
         number[m] = -1,
         number' = [number EXCEPT ![m] = sendIndex], sendIndex' = sendIndex + 1,
         Unacknowledged' = Unacknowledged \cup {m}, datagram' = Append(datagram, m)
  PROVE UpdateInv' /\ ReceiverInv' /\ FlightInv' /\ HistoryInv' /\ AckInv' /\ KeptInv'
  <1>1. /\ phase \in {"transmit", "more"} /\ Len(datagram) < MaxPerDatagram
        /\ UNCHANGED <<phase, ackWork, popCount, history, nextDatagram, base, hasReceived, delivered,
                       dataNet, acknowlegements, ackNet, socketData>>
    BY DEF TransmitMessage, historyVars, receiverVars, netVars
  <1>2. /\ datagram \in Seq(Messages) /\ number \in [Messages -> Nat \cup {-1}] /\ sendIndex \in Nat
        /\ popCount \in Nat /\ nextDatagram \in Nat
        /\ base \in Nat /\ hasReceived \in Seq(BOOLEAN)
    BY DEF Consistent, ResendBufferInv, TypeOK, UpdateType, ResendType, HistoryType, ReceiverType
  <1>3. Len(datagram') = Len(datagram) + 1 /\ Len(datagram) \in Nat BY <1>2
  <1>4. \A x \in Messages : number'[x] = IF x = m THEN sendIndex ELSE number[x] BY <1>2
  <1>5. ackWork = {} BY <1>1 DEF Consistent, UpdateInv
  <1>6. UpdateInv'
    <2>1. Elements(datagram') = Elements(datagram) \cup {m} BY <1>2, AppendElements
    <2>2. Elements(datagram)' = Elements(datagram') BY DEF Elements
    <2>3. Len(datagram') <= MaxPerDatagram BY <1>1, <1>3, BoundsAssumption
    <2>4. \A x \in Elements(datagram') : IsReliable(x) => x \in Unacknowledged'
      BY <2>1 DEF Consistent, UpdateInv
    <2> QED BY <1>1, <2>2, <2>3, <2>4 DEF Consistent, UpdateInv
  <1>7. ReceiverInv'
    <2>1. base + Len(hasReceived) <= sendIndex BY DEF Consistent, ReceiverInv
    <2>2. ~Received(sendIndex) BY <1>2, <2>1 DEF Received
    <2>3. ASSUME NEW x \in ReliableMessages
          PROVE delivered[x] = IF number'[x] # -1 /\ Received(number'[x]) THEN 1 ELSE 0
      <3>1. x \in Messages BY DEF ReliableMessages
      <3>2. delivered[x] = IF number[x] # -1 /\ Received(number[x]) THEN 1 ELSE 0
        BY DEF Consistent, ReceiverInv
      <3>3. CASE x = m BY <1>4, <2>2, <3>1, <3>2, <3>3
      <3>4. CASE x # m BY <1>4, <3>1, <3>2, <3>4
      <3> QED BY <3>3, <3>4
    <2>4. base + Len(hasReceived) <= sendIndex + 1 BY <1>2, <2>1
    <2> QED BY <1>1, <2>3, <2>4 DEF Consistent, ReceiverInv, Received
  <1>8. \A x \in Messages : number[x] # -1 => number'[x] = number[x] BY <1>4
  <1>9. FlightInv'
    <2>1. \A d \in dataNet : Elements(d.messages) \subseteq Messages
      BY ElementsType DEF Consistent, ResendBufferInv, TypeOK, NetType, Datagrams
    <2>2. Elements(socketData) \subseteq Messages
      BY ElementsType DEF Consistent, ResendBufferInv, TypeOK, ReceiverType
    <2>3. \A d \in dataNet' : \A x \in Elements(d.messages) : IsReliable(x) => number'[x] # -1
      BY <1>1, <1>8, <2>1 DEF Consistent, FlightInv
    <2>4. \A x \in Elements(socketData) : IsReliable(x) =>
            /\ number'[x] # -1
            /\ base + Len(hasReceived) - number'[x] <= Lifetime
            /\ \A n \in Elements(socketData) : IsReliable(n) => number'[n] - number'[x] < Lifetime
      BY <1>8, <2>2 DEF Consistent, FlightInv
    <2>5. Elements(socketData)' = Elements(socketData) BY <1>1 DEF Elements
    <2> QED BY <1>1, <2>3, <2>4, <2>5 DEF Consistent, FlightInv, Recent, Fresh, Elements
  <1>10. HistoryInv'
    <2> SUFFICES ASSUME NEW g \in popCount .. nextDatagram - 1, NEW w \in Listed(g)
                 PROVE \E k \in 0 .. sendIndex' - 1 :
                         /\ w = Wire(k)
                         /\ sendIndex' - k <= ResendBufferLength
                              + (nextDatagram - g - 1) * MaxPerDatagram + Len(datagram')
      BY <1>1 DEF HistoryInv, Listed, Wire
    <2>1. PICK k \in 0 .. sendIndex - 1 :
            /\ w = Wire(k)
            /\ sendIndex - k <= ResendBufferLength
                 + (nextDatagram - g - 1) * MaxPerDatagram + Len(datagram)
      BY DEF Consistent, HistoryInv
    <2>2. (nextDatagram - g - 1) * MaxPerDatagram \in Int BY <1>2, BoundsAssumption
    <2>3. sendIndex' - k <= ResendBufferLength
                 + (nextDatagram - g - 1) * MaxPerDatagram + Len(datagram')
      BY <1>2, <1>3, <2>1, <2>2, BoundsAssumption
    <2>4. k \in 0 .. sendIndex' - 1 BY <1>2
    <2> QED BY <2>1, <2>3, <2>4
  <1>11. AckInv'
    <2>1. ASSUME NEW g \in Nat, Recent(g), NEW S, Covered(g, S) PROVE Covered(g, S)'
      <3>1. SUFFICES ASSUME g >= popCount, NEW x \in Unacknowledged', Wire(number'[x]) \in Listed(g)
                     PROVE delivered[x] > 0 \/ x \in S
        BY <1>1 DEF Covered, Listed, Wire
      <3>2. Wire(sendIndex) \notin Listed(g) BY <1>1, <2>1, <3>1, NextNumberUnlisted
      <3>3. x # m BY <1>4, <3>1, <3>2
      <3>4. x \in Unacknowledged /\ x \in Messages BY <3>3, UnacknowledgedNumber DEF Consistent
      <3>5. number'[x] = number[x] BY <1>4, <3>3, <3>4
      <3> QED BY <2>1, <3>1, <3>4, <3>5 DEF Covered
    <2>2. \A d \in dataNet : d.number \in Nat
      BY DEF Consistent, ResendBufferInv, TypeOK, NetType, Datagrams
    <2>3. acknowlegements \subseteq Nat /\ \A p \in ackNet : p \subseteq Nat
      BY DEF Consistent, ResendBufferInv, TypeOK, NetType, ReceiverType
    <2>4. \A d \in dataNet' : Covered(d.number, Elements(d.messages))'
      BY <1>1, <2>1, <2>2 DEF Consistent, FlightInv, AckInv
    <2>5. \A g \in acknowlegements' : Covered(g, Elements(socketData))'
      <3>1. \A g \in acknowlegements : \A S : Covered(g, S) => Covered(g, S)'
        BY <2>1, <2>3 DEF Consistent, FlightInv
      <3>2. Elements(socketData)' = Elements(socketData) BY <1>1 DEF Elements
      <3> QED BY <1>1, <3>1, <3>2 DEF Consistent, AckInv, Covered
    <2>6. \A p \in ackNet' : \A g \in p : Covered(g, {})'
      BY <1>1, <2>1, <2>3 DEF Consistent, FlightInv, AckInv
    <2> QED BY <1>1, <1>5, <2>4, <2>5, <2>6 DEF AckInv
  <1>12. KeptInv' BY <1>1, <1>4 DEF Consistent, KeptInv
  <1> QED BY <1>6, <1>7, <1>9, <1>10, <1>11, <1>12

(* Taking a message from the queue keeps the invariant.                    *)
LEMMA TransmitMessageDelivery ==
  ASSUME Consistent, TransmitMessage
  PROVE UpdateInv' /\ ReceiverInv' /\ FlightInv' /\ HistoryInv' /\ AckInv' /\ KeptInv'
  BY TransmitMessageEffect, TransmitUnreliable, TransmitReliable

-----------------------------------------------------------------------------
(* A datagram leaves.                                                      *)

(* The history after a push: the entries of the datagrams it still holds   *)
(* are unchanged, and the new one lists the numbers the datagram carries.  *)
LEMMA EmitHistory ==
  ASSUME NumbersAssigned, Consistent, EmitDatagram
  PROVE /\ nextDatagram' = nextDatagram + 1 /\ popCount' >= popCount /\ popCount' \in Nat
        /\ \A g \in Int : g >= popCount' /\ g < nextDatagram => Listed(g)' = Listed(g)
        /\ \A w \in history'[nextDatagram - popCount' + 1] :
             \E m \in Elements(datagram) : IsReliable(m) /\ w = Wire(number[m])
        /\ popCount' <= nextDatagram
  <1> DEFINE node == {Wire(number[m]) : m \in {x \in Elements(datagram) : Reliability[x] # "Unreliable"}}
             kept == IF HistoryFull THEN Tail(history) ELSE history
  <1>1. history \in Seq(SUBSET WireNumbers) /\ popCount \in Nat /\ nextDatagram \in Nat
    BY DEF Consistent, ResendBufferInv, TypeOK, HistoryType
  <1>2. popCount + Len(history) = nextDatagram BY DEF Consistent, ResendBufferInv, HistoryAligned
  <1>3. /\ history' = Append(kept, node) /\ nextDatagram' = nextDatagram + 1
        /\ popCount' = (IF HistoryFull THEN popCount + 1 ELSE popCount)
    BY DEF EmitDatagram, PopCountAfterPush
  <1>4. HistoryFull => history # <<>> BY <1>1, BoundsAssumption DEF HistoryFull
  <1>5. \A w \in node : \E m \in Elements(datagram) : IsReliable(m) /\ w = Wire(number[m])
    <2>1. Elements(datagram) \subseteq Messages
      BY ElementsType DEF Consistent, ResendBufferInv, TypeOK, UpdateType
    <2>2. \A m \in Messages : Reliability[m] # "Unreliable" => IsReliable(m)
      BY ReliabilityAssumption DEF NumbersAssigned, IsReliable, Reliabilities
    <2> QED BY <2>1, <2>2
  <1>6. PICK q \in Nat : /\ q = popCount' /\ q >= popCount
                         /\ q = (IF HistoryFull THEN popCount + 1 ELSE popCount)
    BY <1>1, <1>3
  <1>7. /\ kept \in Seq(SUBSET WireNumbers) /\ Len(kept) = nextDatagram - q
        /\ \A i \in 1 .. Len(kept) : kept[i] = history[i + (q - popCount)]
    <2>1. CASE HistoryFull
      <3>1. kept = Tail(history) /\ q - popCount = 1 /\ history # <<>> BY <1>1, <1>4, <1>6, <2>1
      <3> HIDE DEF kept
      <3>2. kept \in Seq(SUBSET WireNumbers) /\ Len(kept) = Len(history) - 1 BY <1>1, <3>1
      <3>3. \A i \in 1 .. Len(kept) : kept[i] = history[i + 1] BY <1>1, <3>1
      <3>4. Len(kept) = nextDatagram - q BY <1>1, <1>2, <3>1, <3>2
      <3> QED BY <3>1, <3>2, <3>3, <3>4
    <2>2. CASE ~HistoryFull
      <3>1. kept = history /\ q = popCount BY <1>6, <2>2
      <3>2. \A i \in 1 .. Len(history) : i + (q - popCount) = i BY <1>1, <3>1
      <3>3. Len(kept) = nextDatagram - q BY <1>1, <1>2, <3>1
      <3> QED BY <1>1, <3>1, <3>2, <3>3
    <2> QED BY <2>1, <2>2
  <1> HIDE DEF node, kept
  <1>8. /\ history'[Len(kept) + 1] = node /\ Len(kept) \in Nat
        /\ \A i \in 1 .. Len(kept) : history'[i] = kept[i]
    BY <1>3, <1>7
  <1>9. ASSUME NEW g \in Int, g >= q, g < nextDatagram PROVE Listed(g)' = Listed(g)
    <2>1. g - q + 1 \in 1 .. Len(kept) BY <1>1, <1>7, <1>9
    <2>2. (g - q + 1) + (q - popCount) = g - popCount + 1 BY <1>1
    <2>3. history'[g - q + 1] = history[g - popCount + 1] BY <1>7, <1>8, <2>1, <2>2
    <2> QED BY <1>6, <2>3 DEF Listed
  <1>10. q <= nextDatagram BY <1>1, <1>7, <1>8
  <1>11. ASSUME NEW w \in history'[nextDatagram - q + 1]
         PROVE \E m \in Elements(datagram) : IsReliable(m) /\ w = Wire(number[m])
    BY <1>5, <1>7, <1>8
  <1> QED BY <1>3, <1>6, <1>9, <1>10, <1>11

(* A datagram sent carries every message its history entry lists.          *)
LEMMA EmitDelivery ==
  ASSUME NumbersAssigned, Consistent, EmitDatagram, phase # "ack", phase' \in {"resend", "more"},
         UNCHANGED <<resendVars, ackWork, receiverVars>>
  PROVE UpdateInv' /\ FlightInv' /\ HistoryInv' /\ AckInv'
  <1> DEFINE d0 == [number |-> nextDatagram, messages |-> datagram]
  <1>1. /\ popCount \in Nat /\ nextDatagram \in Nat /\ sendIndex \in Nat /\ datagram \in Seq(Messages)
        /\ acknowlegements \subseteq Nat /\ \A p \in ackNet : p \subseteq Nat
        /\ \A d \in dataNet : d.number \in Nat
    BY DEF Consistent, ResendBufferInv, TypeOK, HistoryType, ResendType, UpdateType, ReceiverType,
           NetType, Datagrams
  <1>2. PICK q \in Nat, n \in Nat :
          /\ q = popCount' /\ q >= popCount /\ q <= nextDatagram
          /\ n = nextDatagram' /\ n = nextDatagram + 1
          /\ \A g \in Int : g >= q /\ g < nextDatagram => Listed(g)' = Listed(g)
          /\ \A w \in history'[nextDatagram - q + 1] :
               \E m \in Elements(datagram) : IsReliable(m) /\ w = Wire(number[m])
    BY <1>1, EmitHistory
  <1>3. \A m \in Elements(datagram) : IsReliable(m) => m \in Unacknowledged
    BY DEF Consistent, UpdateInv
  <1>4. /\ datagram' = <<>> /\ ackWork = {}
        /\ UNCHANGED <<number, sendIndex, resendBuffer, resendList, ackWork, base, hasReceived,
                       delivered, socketData, acknowlegements>>
    BY DEF EmitDatagram, Consistent, UpdateInv, resendVars, receiverVars
  <1>5. Unacknowledged' = Unacknowledged BY <1>4 DEF Unacknowledged
  <1>6. /\ \A d \in dataNet' : d \in dataNet \cup {d0} /\ Fresh(d.number, n)
        /\ \A p \in ackNet' : p \in ackNet /\ \A g \in p : Fresh(g, n)
        /\ \A g \in acknowlegements : Fresh(g, n)
    BY <1>2 DEF EmitDatagram, FreshDatagram, FreshPacket
  <1>7. UpdateInv' BY <1>4, BoundsAssumption DEF UpdateInv, Elements
  <1>8. FlightInv'
    <2>1. \A g \in Nat : Recent(g) => g < n BY <1>1, <1>2 DEF Recent
    <2>2. ASSUME NEW d \in dataNet'
          PROVE Recent(d.number)' /\ \A m \in Elements(d.messages) : IsReliable(m) => number[m] # -1
      <3>1. CASE d \in dataNet
        <4>1. Recent(d.number) /\ \A m \in Elements(d.messages) : IsReliable(m) => number[m] # -1
          BY <3>1 DEF Consistent, FlightInv
        <4>2. d.number < n /\ Fresh(d.number, n) BY <1>1, <1>6, <2>1, <3>1, <4>1
        <4> QED BY <1>2, <4>1, <4>2 DEF Recent, Fresh
      <3>2. CASE d = d0
        <4>1. d.number = nextDatagram /\ d.messages = datagram BY <3>2
        <4>2. d.number < n /\ Fresh(d.number, n) BY <1>1, <1>2, <1>6, <4>1
        <4>3. \A m \in Elements(datagram) : IsReliable(m) => number[m] # -1
          BY <1>3 DEF Consistent, ResendBufferInv, ResendInv
        <4> QED BY <1>2, <4>1, <4>2, <4>3 DEF Recent, Fresh
      <3> QED BY <1>6, <3>1, <3>2
    <2>3. \A g \in acknowlegements : Recent(g)'
      <3>1. \A g \in acknowlegements : g < n /\ Fresh(g, n)
        BY <1>1, <1>6, <2>1 DEF Consistent, FlightInv
      <3> QED BY <1>2, <3>1 DEF Recent, Fresh
    <2>4. \A p \in ackNet' : \A g \in p : Recent(g)'
      <3>1. \A p \in ackNet' : \A g \in p : g < n /\ Fresh(g, n)
        BY <1>1, <1>6, <2>1 DEF Consistent, FlightInv
      <3> QED BY <1>2, <3>1 DEF Recent, Fresh
    <2>5. Elements(socketData)' = Elements(socketData) BY <1>4 DEF Elements
    <2> QED BY <1>4, <2>2, <2>3, <2>4, <2>5 DEF Consistent, FlightInv, Elements
  <1>9. HistoryInv'
    <2>1. SUFFICES ASSUME NEW g \in q .. n - 1, NEW w \in Listed(g)'
                   PROVE \E k \in 0 .. sendIndex - 1 :
                           /\ w = Wire(k)
                           /\ sendIndex - k <= ResendBufferLength + (n - g - 1) * MaxPerDatagram
      <3>1. \A g \in q .. n - 1 : (n - g - 1) * MaxPerDatagram \in Int BY BoundsAssumption
      <3>2. Len(<<>>) = 0 OBVIOUS
      <3>3. \A g \in q .. n - 1 :
              ResendBufferLength + (n - g - 1) * MaxPerDatagram
                = ResendBufferLength + (n - g - 1) * MaxPerDatagram + Len(datagram')
        BY <1>4, <3>1, <3>2, BoundsAssumption
      <3>4. \A g \in q .. n - 1 : \A w \in Listed(g)' : \E k \in 0 .. sendIndex - 1 :
              /\ w = Wire(k)
              /\ sendIndex - k <= ResendBufferLength + (n - g - 1) * MaxPerDatagram + Len(datagram')
        BY <2>1, <3>3
      <3> QED BY <1>2, <1>4, <3>4 DEF HistoryInv, Listed, Wire
    <2>2. CASE g = nextDatagram
      <3>1. w \in history'[nextDatagram - q + 1] BY <1>2, <2>1, <2>2 DEF Listed
      <3>2. PICK m \in Elements(datagram) : IsReliable(m) /\ w = Wire(number[m]) BY <1>2, <3>1
      <3>3. number[m] \in 0 .. sendIndex - 1 /\ sendIndex - number[m] <= ResendBufferLength
        BY <1>1, <1>3, <3>2, UnacknowledgedNumber DEF Consistent
      <3>4. (n - g - 1) * MaxPerDatagram = 0
        <4>1. n - g - 1 = 0 BY <1>1, <1>2, <2>2
        <4> QED BY <4>1, BoundsAssumption
      <3> QED BY <3>2, <3>3, <3>4, BoundsAssumption
    <2>3. CASE g # nextDatagram
      <3>1. g \in popCount .. nextDatagram - 1 /\ w \in Listed(g)
        BY <1>1, <1>2, <2>1, <2>3
      <3> DEFINE P == (nextDatagram - g - 1) * MaxPerDatagram
      <3>2. PICK k \in 0 .. sendIndex - 1 :
              w = Wire(k) /\ sendIndex - k <= ResendBufferLength + P + Len(datagram)
        BY <3>1 DEF Consistent, HistoryInv
      <3>3. (n - g - 1) * MaxPerDatagram = P + MaxPerDatagram /\ P \in Int
        <4>1. n - g - 1 = (nextDatagram - g - 1) + 1 /\ nextDatagram - g - 1 \in Int
          BY <1>1, <1>2
        <4>2. \A x \in Int : (x + 1) * MaxPerDatagram = x * MaxPerDatagram + MaxPerDatagram
                             /\ x * MaxPerDatagram \in Int
          BY BoundsAssumption
        <4> QED BY <4>1, <4>2
      <3>4. Len(datagram) <= MaxPerDatagram /\ Len(datagram) \in Nat
        BY <1>1 DEF Consistent, UpdateInv
      <3> HIDE DEF P
      <3>5. sendIndex - k <= ResendBufferLength + (n - g - 1) * MaxPerDatagram
        BY <1>1, <3>2, <3>3, <3>4, BoundsAssumption
      <3> QED BY <3>2, <3>5
    <2> QED BY <2>2, <2>3
  <1>10. AckInv'
    <2>1. ASSUME NEW g \in Nat, Recent(g), NEW S, Covered(g, S) PROVE Covered(g, S)'
      <3>1. SUFFICES ASSUME g >= q, NEW x \in Unacknowledged, Wire(number[x]) \in Listed(g)'
                     PROVE delivered[x] > 0 \/ x \in S
        BY <1>2, <1>4, <1>5 DEF Covered, Wire
      <3>2. g >= popCount /\ g < nextDatagram BY <1>1, <1>2, <2>1, <3>1 DEF Recent
      <3>3. Wire(number[x]) \in Listed(g) BY <1>2, <3>1, <3>2
      <3> QED BY <2>1, <3>2, <3>3 DEF Covered
    <2>2. ASSUME NEW d \in dataNet' PROVE Covered(d.number, Elements(d.messages))'
      <3>1. CASE d \in dataNet
        BY <1>1, <2>1, <3>1 DEF Consistent, FlightInv, AckInv
      <3>2. CASE d = d0
        <4>1. d.number = nextDatagram /\ d.messages = datagram BY <3>2
        <4>2. ASSUME NEW x \in Unacknowledged, Wire(number[x]) \in history'[nextDatagram - q + 1]
              PROVE x \in Elements(datagram)
          <5>1. PICK m \in Elements(datagram) : IsReliable(m) /\ Wire(number[x]) = Wire(number[m])
            BY <1>2, <4>2
          <5>2. m \in Unacknowledged BY <1>3, <5>1
          <5>3. x = m BY <5>1, <5>2, UnacknowledgedWire DEF Consistent
          <5> QED BY <5>3
        <4>3. Listed(d.number)' = history'[nextDatagram - q + 1] BY <1>2, <4>1 DEF Listed
        <4> QED BY <1>4, <1>5, <4>1, <4>2, <4>3 DEF Covered, Wire
      <3> QED BY <1>6, <3>1, <3>2
    <2>3. \A g \in acknowlegements' : Covered(g, Elements(socketData))'
      <3>1. \A g \in acknowlegements : \A S : Covered(g, S) => Covered(g, S)'
        BY <1>1, <2>1 DEF Consistent, FlightInv
      <3>2. Elements(socketData)' = Elements(socketData) BY <1>4 DEF Elements
      <3> QED BY <1>4, <3>1, <3>2 DEF Consistent, AckInv, Covered
    <2>4. \A p \in ackNet' : \A g \in p : Covered(g, {})'
      BY <1>1, <1>6, <2>1 DEF Consistent, FlightInv, AckInv
    <2> QED BY <1>4, <2>2, <2>3, <2>4 DEF AckInv
  <1> QED BY <1>7, <1>8, <1>9, <1>10

-----------------------------------------------------------------------------
(* Acknowledgements.                                                       *)

(* The offset of an acknowledged datagram leads to its own history entry,  *)
(* or out of the history when the entry is gone: offsets do not alias.     *)
LEMMA OffsetExact ==
  ASSUME Consistent, NEW g \in Nat, Recent(g), Offset(Wire(g)) < Len(history)
  PROVE g >= popCount /\ Offset(Wire(g)) = g - popCount
  <1>1. popCount \in Nat /\ nextDatagram \in Nat /\ Len(history) \in Nat
    BY DEF Consistent, ResendBufferInv, TypeOK, HistoryType
  <1>2. popCount + Len(history) = nextDatagram /\ Len(history) <= HistoryLength + 1
    BY DEF Consistent, ResendBufferInv, HistoryAligned
  <1>3. g < nextDatagram /\ nextDatagram - g <= Lifetime BY DEF Recent, Fresh
  <1>4. CASE g >= popCount
    <2>1. g - popCount \in 0 .. NumberSpan - 1
      BY <1>1, <1>2, <1>3, <1>4, BoundsAssumption, SpanAssumption
    <2> QED BY <1>1, <1>4, <2>1, SubAhead DEF Offset
  <1>5. CASE g < popCount
    <2>1. popCount - g \in 1 .. NumberSpan - 1
      BY <1>1, <1>2, <1>3, <1>5, BoundsAssumption, SpanAssumption
    <2>2. Offset(Wire(g)) = g - popCount + NumberSpan BY <1>1, <2>1, SubBehind DEF Offset
    <2> QED BY <1>1, <1>2, <1>3, <2>2, BoundsAssumption, SpanAssumption
  <1> QED BY <1>1, <1>4, <1>5

(* The work an ACK packet leaves names only messages that were delivered.  *)
LEMMA ReceiveAckDelivery ==
  ASSUME Consistent, NEW p \in ackNet, ReceiveAck(p)
  PROVE UpdateInv' /\ FlightInv' /\ HistoryInv' /\ AckInv'
  <1> DEFINE wires == {Wire(g) : g \in p}
             done(cut) == {Offset(w) + 1 : w \in Processed(wires, cut)}
  <1>1. PICK cut :
          /\ ackWork' = UNION {history[i] : i \in done(cut)}
          /\ history' = [i \in DOMAIN history |-> IF i \in done(cut) THEN {} ELSE history[i]]
    BY DEF ReceiveAck
  <1>2. /\ phase = "idle" /\ phase' = (IF ackWork' = {} THEN "idle" ELSE "ack")
        /\ ackNet' \subseteq ackNet
        /\ UNCHANGED <<datagram, number, sendIndex, resendBuffer, nextDatagram, popCount, dataNet,
                       acknowlegements, socketData, base, hasReceived, delivered>>
    BY DEF ReceiveAck, Consume, resendVars, receiverVars
  <1>3. p \subseteq Nat /\ \A g \in p : Recent(g) /\ Covered(g, {})
    BY DEF Consistent, ResendBufferInv, TypeOK, NetType, FlightInv, AckInv
  <1>4. \A i \in done(cut) : \E g \in p : g >= popCount /\ i = g - popCount + 1
    <2> SUFFICES ASSUME NEW w \in Processed(wires, cut)
                 PROVE \E g \in p : g >= popCount /\ Offset(w) = g - popCount
      OBVIOUS
    <2>1. PICK g \in p : w = Wire(g) BY DEF Processed
    <2>2. WireNumbers \subseteq Int BY BoundsAssumption DEF WireNumbers
    <2>3. w \in Int
      <3>1. Wire(g) \in WireNumbers BY <1>3, WireRange DEF WireNumbers
      <3> QED BY <2>1, <2>2, <3>1
    <2>4. Offset(w) < Len(history) BY <2>3 DEF Processed
    <2> QED BY <1>3, <2>1, <2>4, OffsetExact
  <1>5. \A w \in ackWork' : \E g \in p : g >= popCount /\ w \in Listed(g)
    BY <1>1, <1>4 DEF Listed
  <1> HIDE DEF done, wires
  <1>6. Unacknowledged' = Unacknowledged BY <1>2 DEF Unacknowledged
  <1>7. \A g \in Int : g >= popCount /\ g < nextDatagram => Listed(g)' \subseteq Listed(g)
    <2>1. /\ history \in Seq(SUBSET WireNumbers) /\ popCount \in Nat /\ nextDatagram \in Nat
          /\ popCount + Len(history) = nextDatagram
      BY DEF Consistent, ResendBufferInv, TypeOK, HistoryType, HistoryAligned
    <2>2. \A g \in Int : g >= popCount /\ g < nextDatagram => g - popCount + 1 \in DOMAIN history
      BY <2>1
    <2>3. \A i \in DOMAIN history : history'[i] \subseteq history[i] BY <1>1
    <2> QED BY <1>2, <2>2, <2>3 DEF Listed
  <1>8. UpdateInv'
    BY <1>2, <1>6 DEF Consistent, UpdateInv, Elements
  <1>9. FlightInv' BY <1>2 DEF Consistent, FlightInv, Recent, Fresh, Elements
  <1>10. HistoryInv'
    <2>1. \A g \in popCount .. nextDatagram - 1 : Listed(g)' \subseteq Listed(g)
      BY <1>7 DEF Consistent, ResendBufferInv, TypeOK, HistoryType
    <2> QED BY <1>2, <2>1 DEF Consistent, HistoryInv, Wire
  <1>11. AckInv'
    <2>1. ASSUME NEW g \in Nat, Recent(g), NEW S, Covered(g, S) PROVE Covered(g, S)'
      BY <1>2, <1>6, <1>7, <2>1 DEF Covered, Recent, Wire
    <2>2. /\ acknowlegements \subseteq Nat /\ \A r \in ackNet : r \subseteq Nat
          /\ \A d \in dataNet : d.number \in Nat
      BY DEF Consistent, ResendBufferInv, TypeOK, ReceiverType, NetType, Datagrams
    <2>3. \A d \in dataNet' : Covered(d.number, Elements(d.messages))'
      BY <1>2, <2>1, <2>2 DEF Consistent, FlightInv, AckInv
    <2>4. \A g \in acknowlegements' : Covered(g, Elements(socketData))'
      <3>1. \A g \in acknowlegements : \A S : Covered(g, S) => Covered(g, S)'
        BY <2>1, <2>2 DEF Consistent, FlightInv
      <3>2. Elements(socketData)' = Elements(socketData) BY <1>2 DEF Elements
      <3> QED BY <1>2, <3>1, <3>2 DEF Consistent, AckInv, Covered
    <2>5. \A r \in ackNet' : \A g \in r : Covered(g, {})'
      BY <1>2, <2>1, <2>2 DEF Consistent, FlightInv, AckInv
    <2>6. \A m \in Unacknowledged' : Wire(number'[m]) \in ackWork' => delivered'[m] > 0
      BY <1>2, <1>3, <1>5, <1>6 DEF Covered
    <2> QED BY <2>3, <2>4, <2>5, <2>6 DEF AckInv, Wire
  <1> QED BY <1>8, <1>9, <1>10, <1>11

(* Clearing one acknowledged number: the message that carries it was       *)
(* delivered.                                                              *)
LEMMA AckMessageDelivery ==
  ASSUME Consistent, AckMessage PROVE UpdateInv' /\ AckInv' /\ KeptInv'
  <1>1. /\ phase = "ack" /\ phase' = (IF ackWork' = {} THEN "idle" ELSE "ack")
        /\ UNCHANGED <<datagram, number, popCount, history, dataNet, acknowlegements, ackNet,
                       socketData, delivered>>
    BY DEF AckMessage, historyVars, receiverVars, netVars
  <1>2. /\ ackWork' \subseteq ackWork
        /\ \/ Unacknowledged' = Unacknowledged
           \/ \E m \in Unacknowledged : /\ Wire(number[m]) \in ackWork
                                        /\ Unacknowledged' = Unacknowledged \ {m}
    <2>1. TypeOK /\ ResendInv BY DEF Consistent, ResendBufferInv
    <2>2. UNCHANGED <<resendBuffer, resendList>> => Unacknowledged' = Unacknowledged
      BY DEF Unacknowledged
    <2> QED BY <2>1, <2>2, AckMessageEffect
  <1>3. UpdateInv'
    <2>1. datagram = <<>> BY <1>1 DEF Consistent, UpdateInv
    <2> QED BY <1>1, <2>1, BoundsAssumption DEF UpdateInv, Elements
  <1>4. Unacknowledged' \subseteq Unacknowledged BY <1>2
  <1>5. AckInv'
    <2>1. \A g, S : Covered(g, S) => Covered(g, S)' BY <1>1, <1>4 DEF Covered, Listed, Wire
    <2>2. Elements(socketData)' = Elements(socketData) BY <1>1 DEF Elements
    <2>3. \A g \in acknowlegements' : Covered(g, Elements(socketData))'
      BY <1>1, <2>1, <2>2 DEF Consistent, AckInv, Covered
    <2>4. \A d \in dataNet' : Covered(d.number, Elements(d.messages))'
      BY <1>1, <2>1 DEF Consistent, AckInv
    <2>5. \A p \in ackNet' : \A g \in p : Covered(g, {})' BY <1>1, <2>1 DEF Consistent, AckInv
    <2>6. \A m \in Unacknowledged' : Wire(number'[m]) \in ackWork' => delivered'[m] > 0
      BY <1>1, <1>2, <1>4 DEF Consistent, AckInv
    <2> QED BY <2>3, <2>4, <2>5, <2>6 DEF AckInv, Wire
  <1>6. KeptInv'
    <2> SUFFICES ASSUME NEW x \in Messages, number[x] # -1, delivered[x] = 0 PROVE x \in Unacknowledged'
      BY <1>1 DEF KeptInv
    <2>1. x \in Unacknowledged BY DEF Consistent, KeptInv
    <2>2. ~(0 > 0) OBVIOUS
    <2>3. Wire(number[x]) \notin ackWork BY <2>1, <2>2 DEF Consistent, AckInv
    <2> QED BY <1>2, <2>1, <2>3
  <1> QED BY <1>3, <1>5, <1>6

-----------------------------------------------------------------------------
(* The path and the receiver's acknowledgements.                           *)

(* Losing a packet keeps what is said of the others.                       *)
LEMMA LoseDelivery == ASSUME Consistent, Lose PROVE FlightInv' /\ AckInv'
  <1>1. /\ dataNet' \subseteq dataNet /\ ackNet' \subseteq ackNet
        /\ UNCHANGED <<acknowlegements, nextDatagram, number, socketData, base, hasReceived,
                       popCount, history, resendBuffer, delivered, ackWork>>
    BY DEF Lose, senderVars, receiverVars, resendVars, historyVars
  <1>2. FlightInv' BY <1>1 DEF Consistent, FlightInv, Recent, Fresh, Elements
  <1>3. AckInv' BY <1>1 DEF Consistent, AckInv, Covered, Listed, Unacknowledged, Elements, Wire
  <1> QED BY <1>2, <1>3

(* An ACK packet is sent when the messages of its datagrams were parsed.   *)
LEMMA SendACKsDelivery == ASSUME Consistent, SendACKs PROVE FlightInv' /\ AckInv'
  <1>1. /\ ackNet' \subseteq ackNet \cup {acknowlegements} /\ acknowlegements' = {}
        /\ socketData = <<>>
        /\ UNCHANGED <<dataNet, nextDatagram, number, socketData, base, hasReceived,
                       popCount, history, resendBuffer, delivered, ackWork>>
    BY DEF SendACKs, senderVars, resendVars, historyVars
  <1>2. FlightInv' BY <1>1 DEF Consistent, FlightInv, Recent, Fresh, Elements
  <1>3. Elements(socketData) = {} BY <1>1 DEF Elements
  <1>4. \A p \in ackNet' : \A g \in p : Covered(g, {}) BY <1>1, <1>3 DEF Consistent, AckInv
  <1>5. \A g, S : Covered(g, S) => Covered(g, S)' BY <1>1 DEF Covered, Listed, Unacknowledged, Wire
  <1>6. \A d \in dataNet' : Covered(d.number, Elements(d.messages))'
    BY <1>1, <1>5 DEF Consistent, AckInv
  <1>7. \A m \in Unacknowledged' : Wire(number'[m]) \in ackWork' => delivered'[m] > 0
    BY <1>1 DEF Consistent, AckInv, Unacknowledged
  <1>8. AckInv' BY <1>1, <1>4, <1>5, <1>6, <1>7 DEF AckInv, Wire
  <1> QED BY <1>2, <1>8

(* The datagram whose number is queued for acknowledgement is the one      *)
(* being parsed.                                                           *)
LEMMA ReceiveDatagramDelivery ==
  ASSUME Consistent, NEW d \in dataNet, ReceiveDatagram(d) PROVE FlightInv' /\ AckInv'
  <1>1. /\ socketData = <<>> /\ FreshDatagram(d, nextDatagram) /\ dataNet' \subseteq dataNet
        /\ UNCHANGED <<ackNet, nextDatagram, number, base, hasReceived, sendIndex,
                       popCount, history, resendBuffer, delivered, ackWork>>
    BY DEF ReceiveDatagram, Consume, senderVars, resendVars, historyVars
  <1>2. \/ UNCHANGED <<acknowlegements, socketData>>
        \/ acknowlegements' = acknowlegements \cup {d.number} /\ socketData' = d.messages
    BY DEF ReceiveDatagram
  <1>3. \A g, S : Covered(g, S) => Covered(g, S)' BY <1>1 DEF Covered, Listed, Unacknowledged, Wire
  <1>4. \A e \in dataNet' : Covered(e.number, Elements(e.messages))'
    BY <1>1, <1>3 DEF Consistent, AckInv
  <1>5. \A p \in ackNet' : \A g \in p : Covered(g, {})' BY <1>1, <1>3 DEF Consistent, AckInv
  <1>6. \A m \in Unacknowledged' : Wire(number'[m]) \in ackWork' => delivered'[m] > 0
    BY <1>1 DEF Consistent, AckInv, Unacknowledged
  <1>7. CASE UNCHANGED <<acknowlegements, socketData>>
    <2>1. FlightInv' BY <1>1, <1>7 DEF Consistent, FlightInv, Recent, Fresh, Elements
    <2>2. \A g \in acknowlegements' : Covered(g, Elements(socketData))'
      BY <1>1, <1>7 DEF Consistent, AckInv, Covered, Listed, Unacknowledged, Elements, Wire
    <2> QED BY <1>4, <1>5, <1>6, <2>1, <2>2 DEF AckInv, Wire
  <1>8. CASE acknowlegements' = acknowlegements \cup {d.number} /\ socketData' = d.messages
    <2>1. Elements(socketData)' = Elements(d.messages) BY <1>8 DEF Elements
    <2>2. ASSUME NEW m \in Elements(d.messages), IsReliable(m)
          PROVE /\ number[m] # -1 /\ base + Len(hasReceived) - number[m] <= Lifetime
                /\ \A n \in Elements(d.messages) : IsReliable(n) => number[n] - number[m] < Lifetime
      <3>1. Elements(d.messages) \subseteq Messages
        BY ElementsType DEF Consistent, ResendBufferInv, TypeOK, NetType, Datagrams
      <3>2. /\ number \in [Messages -> Nat \cup {-1}] /\ sendIndex \in Nat
            /\ base \in Nat /\ Len(hasReceived) \in Nat
        BY DEF Consistent, ResendBufferInv, TypeOK, ResendType, ReceiverType
      <3>3. \A n \in Elements(d.messages) : IsReliable(n) => number[n] # -1 /\ number[n] < sendIndex
        BY <3>1 DEF Consistent, FlightInv, ResendBufferInv, NumberingInv
      <3>4. sendIndex - number[m] <= Lifetime BY <1>1, <2>2 DEF FreshDatagram
      <3>5. base + Len(hasReceived) <= sendIndex BY DEF Consistent, ReceiverInv
      <3>6. number[m] \in Int /\ \A n \in Elements(d.messages) : number[n] \in Int BY <3>1, <3>2
      <3> QED BY <2>2, <3>2, <3>3, <3>4, <3>5, <3>6, BoundsAssumption
    <2>3. Recent(d.number) BY DEF Consistent, FlightInv
    <2>4. \A g \in acknowlegements' : Recent(g) BY <1>8, <2>3 DEF Consistent, FlightInv
    <2>5. FlightInv'
      BY <1>1, <2>1, <2>2, <2>4 DEF Consistent, FlightInv, Recent, Fresh, Elements
    <2>6. \A g \in acknowlegements' : Covered(g, Elements(d.messages))
      <3>1. Elements(socketData) = {} BY <1>1 DEF Elements
      <3> QED BY <1>8, <3>1 DEF Consistent, AckInv, Covered
    <2>7. \A g \in acknowlegements' : Covered(g, Elements(socketData))'
      BY <1>3, <2>1, <2>6 DEF Covered
    <2> QED BY <1>4, <1>5, <1>6, <2>5, <2>7 DEF AckInv, Wire
  <1> QED BY <1>2, <1>7, <1>8

-----------------------------------------------------------------------------
(* The receiver's window.                                                  *)

(* Marking the message at distance h records exactly one more number.      *)
LEMMA MarkedRecords ==
  ASSUME ReceiverType, NEW h \in Nat
  PROVE /\ Marked(h) \in Seq(BOOLEAN)
        /\ Len(Marked(h)) = (IF h < Len(hasReceived) THEN Len(hasReceived) ELSE h + 1)
        /\ \A i \in 1 .. Len(Marked(h)) :
             ~Marked(h)[i] <=> (i <= Len(hasReceived) /\ ~hasReceived[i]) \/ i = h + 1
  <1>1. hasReceived \in Seq(BOOLEAN) /\ Len(hasReceived) \in Nat BY DEF ReceiverType
  <1>2. Marked(h) \in Seq(BOOLEAN) BY MarkedType
  <1>3. CASE h < Len(hasReceived)
    <2>1. Marked(h) = [hasReceived EXCEPT ![h + 1] = FALSE] BY <1>3 DEF Marked
    <2>2. /\ Len(Marked(h)) = Len(hasReceived)
          /\ \A i \in 1 .. Len(hasReceived) :
               Marked(h)[i] = IF i = h + 1 THEN FALSE ELSE hasReceived[i]
      <3>1. DOMAIN Marked(h) = 1 .. Len(hasReceived) BY <1>1, <2>1
      <3>2. Len(Marked(h)) = Len(hasReceived) BY <1>1, <1>2, <3>1
      <3>3. \A i \in DOMAIN hasReceived :
              Marked(h)[i] = IF i = h + 1 THEN FALSE ELSE hasReceived[i]
        BY <2>1
      <3>4. DOMAIN hasReceived = 1 .. Len(hasReceived) BY <1>1
      <3> QED BY <3>2, <3>3, <3>4, Zenon
    <2>3. ASSUME NEW i \in 1 .. Len(hasReceived)
          PROVE ~Marked(h)[i] <=> (i <= Len(hasReceived) /\ ~hasReceived[i]) \/ i = h + 1
      <3>1. i <= Len(hasReceived) BY <1>1
      <3> QED BY <2>2, <3>1
    <2> QED BY <1>2, <1>3, <2>2, <2>3
  <1>4. CASE ~(h < Len(hasReceived))
    <2>1. Marked(h) = [i \in 1 .. h + 1 |-> IF i <= Len(hasReceived) THEN hasReceived[i] ELSE i <= h]
      BY <1>4 DEF Marked
    <2>2. Len(Marked(h)) = h + 1 BY <1>2, <2>1
    <2>3. ASSUME NEW i \in 1 .. h + 1
          PROVE ~Marked(h)[i] <=> (i <= Len(hasReceived) /\ ~hasReceived[i]) \/ i = h + 1
      <3>1. CASE i <= Len(hasReceived)
        <4>1. i # h + 1 BY <1>1, <1>4, <3>1
        <4>2. Marked(h)[i] = hasReceived[i] BY <2>1, <3>1
        <4> QED BY <3>1, <4>1, <4>2
      <3>2. CASE ~(i <= Len(hasReceived))
        <4>1. Marked(h)[i] = (i <= h) BY <2>1, <3>2
        <4>2. i <= h <=> i # h + 1 OBVIOUS
        <4> QED BY <3>2, <4>1, <4>2
      <3> QED BY <3>1, <3>2
    <2> QED BY <1>2, <1>4, <2>2, <2>3
  <1> QED BY <1>3, <1>4

(* Moving the base over what was received without a gap forgets nothing.   *)
LEMMA AcceptWindow ==
  ASSUME TypeOK, NEW h \in Nat, NEW k \in 0 .. Len(Marked(h)),
         \A i \in 1 .. k : ~Marked(h)[i], k < Len(Marked(h)) => Marked(h)[k + 1],
         hasReceived' = SubSeq(Marked(h), k + 1, Len(Marked(h))), base' = base + k
  PROVE /\ hasReceived' # <<>> => hasReceived'[1]
        /\ base' >= base
        /\ base' + Len(hasReceived') = (IF h < Len(hasReceived) THEN base + Len(hasReceived)
                                                               ELSE base + h + 1)
        /\ \A j \in Nat : Received(j)' <=> Received(j) \/ j = base + h
  <1>1. /\ hasReceived \in Seq(BOOLEAN) /\ Len(hasReceived) \in Nat /\ base \in Nat /\ ReceiverType
    BY DEF TypeOK, ReceiverType
  <1> DEFINE F == Marked(h)
             n == Len(F)
  <1>2. /\ F \in Seq(BOOLEAN) /\ n \in Nat
        /\ n = (IF h < Len(hasReceived) THEN Len(hasReceived) ELSE h + 1)
        /\ \A i \in 1 .. n : ~F[i] <=> (i <= Len(hasReceived) /\ ~hasReceived[i]) \/ i = h + 1
    <2>1. Marked(h) \in Seq(BOOLEAN) BY <1>1, MarkedRecords
    <2>2. Len(Marked(h)) \in Nat BY <2>1
    <2>3. /\ Len(Marked(h)) = (IF h < Len(hasReceived) THEN Len(hasReceived) ELSE h + 1)
          /\ \A i \in 1 .. Len(Marked(h)) :
               ~Marked(h)[i] <=> (i <= Len(hasReceived) /\ ~hasReceived[i]) \/ i = h + 1
      BY <1>1, MarkedRecords
    <2> QED BY <2>1, <2>2, <2>3
  <1>3. /\ \A i \in 1 .. k : ~F[i]
        /\ k < n => F[k + 1]
        /\ hasReceived' = SubSeq(F, k + 1, n)
        /\ k \in Nat /\ k <= n
    <2>1. Len(Marked(h)) \in Nat BY <1>2
    <2>2. k \in Nat /\ k <= Len(Marked(h)) BY <2>1
    <2> QED BY <2>2
  <1> HIDE DEF F, n
  <1>4. PICK b \in Nat, r \in Seq(BOOLEAN) :
          b = base' /\ r = hasReceived' /\ b = base + k /\ r = SubSeq(F, k + 1, n)
    <2>1. SubSeq(F, k + 1, n) \in Seq(BOOLEAN) BY <1>2, <1>3 DEF n
    <2>2. base + k \in Nat BY <1>1
    <2> QED BY <1>3, <2>1, <2>2
  <1>5. Len(r) = n - k /\ \A i \in 1 .. n - k : r[i] = F[k + i]
    <2>1. n = Len(F) BY DEF n
    <2> QED BY <1>2, <1>3, <1>4, <2>1
  <1>6. r # <<>> => r[1]
    <2> SUFFICES ASSUME r # <<>> PROVE r[1] OBVIOUS
    <2>1. 1 \in 1 .. n - k /\ k < n BY <1>2, <1>4, <1>5
    <2> QED BY <1>3, <1>5, <2>1
  <1>7. b = base + k /\ b + Len(r) = base + n
    <2>1. b = base + k BY <1>4
    <2>2. Len(r) = n - k BY <1>5
    <2>3. n \in Nat BY <1>2
    <2> QED BY <1>1, <2>1, <2>2, <2>3
  <1>8. n \in Nat /\ n = (IF h < Len(hasReceived) THEN Len(hasReceived) ELSE h + 1) BY <1>2
  <1>9. ASSUME NEW j \in Nat
        PROVE (j < b \/ (j < b + Len(r) /\ ~r[j - b + 1])) <=> Received(j) \/ j = base + h
    <2>1. CASE j < base BY <1>1, <1>3, <1>4, <2>1 DEF Received
    <2>2. CASE j >= base /\ j < base + n
      <3> DEFINE i == j - base + 1
      <3>1. i \in 1 .. n /\ j = base + i - 1 BY <1>1, <1>2, <2>2
      <3>2. Received(j) <=> i <= Len(hasReceived) /\ ~hasReceived[i]
        <4>1. ~(j < base) /\ (j < base + Len(hasReceived) <=> i <= Len(hasReceived))
          BY <1>1, <2>2
        <4> QED BY <4>1 DEF Received
      <3>3. ~F[i] <=> Received(j) \/ j = base + h
        <4>1. i = h + 1 <=> j = base + h BY <1>1
        <4> QED BY <1>2, <3>1, <3>2, <4>1
      <3>4. CASE i <= k
        <4>1. ~F[i] /\ j < b BY <1>1, <1>3, <1>4, <3>1, <3>4
        <4> QED BY <3>3, <4>1
      <3>5. CASE i > k
        <4>1. ~(j < b) /\ j < b + Len(r) BY <1>1, <1>3, <1>7, <2>2, <3>5
        <4>2. j - b + 1 \in 1 .. n - k /\ k + (j - b + 1) = i BY <1>1, <1>2, <1>3, <1>4, <3>1, <3>5
        <4>3. r[j - b + 1] = F[i] BY <1>5, <4>2
        <4> QED BY <3>3, <4>1, <4>3
      <3>6. i \in Int BY <3>1
      <3> HIDE DEF i
      <3> QED BY <3>4, <3>5, <3>6
    <2>3. CASE j >= base + n
      <3>1. ~(j < b) /\ ~(j < b + Len(r)) BY <1>1, <1>3, <1>7, <1>8, <2>3
      <3>2. j # base + h /\ ~(j < base + Len(hasReceived)) /\ ~(j < base) BY <1>1, <1>2, <2>3
      <3> QED BY <3>1, <3>2 DEF Received
    <2> QED BY <1>1, <1>2, <2>1, <2>2, <2>3
  <1>10. \A j \in Nat : Received(j)' <=> (j < b \/ (j < b + Len(r) /\ ~r[j - b + 1]))
    BY <1>4 DEF Received
  <1>11. b >= base /\ b + Len(r) = (IF h < Len(hasReceived) THEN base + Len(hasReceived)
                                                            ELSE base + h + 1)
    BY <1>1, <1>3, <1>7, <1>8
  <1>12. \A j \in Nat : Received(j)' <=> Received(j) \/ j = base + h BY <1>9, <1>10
  <1> QED BY <1>4, <1>6, <1>11, <1>12

(* The distance of a message being parsed from the base: exact when the    *)
(* number is in or beyond the window, beyond half the span when it is      *)
(* behind.  Neither case can be taken for the other.                       *)
LEMMA HoleCount ==
  ASSUME Consistent, NEW m \in Elements(socketData), IsReliable(m)
  PROVE /\ m \in Messages /\ number[m] \in Nat /\ number[m] < sendIndex
        /\ number[m] < base => Sub(Wire(number[m]), Wire(base)) > HalfSpan
        /\ number[m] >= base => /\ Sub(Wire(number[m]), Wire(base)) = number[m] - base
                                /\ ~(number[m] - base > HalfSpan)
                                /\ ~(number[m] - base > HoleLimit)
  <1>1. m \in Messages BY ElementsType DEF Consistent, ResendBufferInv, TypeOK, ReceiverType
  <1>2. number[m] # -1 /\ base + Len(hasReceived) - number[m] <= Lifetime BY DEF Consistent, FlightInv
  <1>3. number[m] \in Nat /\ number[m] < sendIndex
    BY <1>1, <1>2 DEF Consistent, ResendBufferInv, NumberingInv, TypeOK, ResendType
  <1>4. /\ sendIndex \in Nat /\ base \in Nat /\ Len(hasReceived) \in Nat
        /\ sendIndex - base <= ResendBufferLength
    BY WindowBound, BoundsAssumption
       DEF Consistent, ResendBufferInv, TypeOK, ResendType, ReceiverType, ReceiveWindow
  <1>5. HalfSpan \in Nat /\ 2 * HalfSpan <= NumberSpan - 1 /\ 2 * HalfSpan >= NumberSpan - 2
    <2>1. NumberSpan - 1 \in Nat BY BoundsAssumption, SpanAssumption
    <2>2. /\ HalfSpan \in Int /\ ((NumberSpan - 1) % 2) \in 0 .. 1
          /\ NumberSpan - 1 = HalfSpan * 2 + ((NumberSpan - 1) % 2)
      BY <2>1, ModDivision DEF HalfSpan
    <2> DEFINE r == (NumberSpan - 1) % 2
    <2>3. r \in 0 .. 1 /\ NumberSpan - 1 = HalfSpan * 2 + r BY <2>2
    <2>4. HalfSpan \in Int /\ NumberSpan \in Nat BY <2>2, BoundsAssumption
    <2> HIDE DEF r
    <2> QED BY <2>1, <2>3, <2>4
  <1> DEFINE a == number[m]
  <1>6. a \in Nat /\ a < sendIndex /\ base + Len(hasReceived) - a <= Lifetime BY <1>2, <1>3
  <1> HIDE DEF a
  <1>7. CASE a < base
    <2>1. base - a <= Lifetime BY <1>4, <1>6, BoundsAssumption
    <2>2. base - a \in 1 .. NumberSpan - 1
      BY <1>4, <1>6, <1>7, <2>1, BoundsAssumption, SpanAssumption
    <2>3. Sub(Wire(a), Wire(base)) = a - base + NumberSpan BY <1>4, <1>6, <2>2, SubBehind
    <2>4. a - base + NumberSpan > HalfSpan
      BY <1>4, <1>5, <1>6, <2>1, BoundsAssumption, SpanAssumption
    <2> QED BY <1>1, <1>3, <1>4, <1>6, <1>7, <2>3, <2>4 DEF a
  <1>8. CASE a >= base
    <2>1. a - base <= ResendBufferLength - 1 BY <1>4, <1>6, BoundsAssumption
    <2>2. a - base \in 0 .. NumberSpan - 1
      BY <1>4, <1>6, <1>8, <2>1, BoundsAssumption, SpanAssumption
    <2>3. Sub(Wire(a), Wire(base)) = a - base BY <1>4, <1>6, <2>2, SubAhead
    <2>4. ~(a - base > HalfSpan) /\ ~(a - base > HoleLimit)
      BY <1>4, <1>5, <1>6, <2>1, BoundsAssumption, SpanAssumption
    <2> QED BY <1>1, <1>3, <1>4, <1>6, <1>8, <2>3, <2>4 DEF a
  <1> QED BY <1>4, <1>6, <1>7, <1>8

(* What parsing the head of the datagram does: an unreliable message is    *)
(* passed on, a reliable one that was delivered before is dropped, and any *)
(* other is delivered and recorded.                                        *)
LEMMA ParseMessageEffect ==
  ASSUME Consistent, ParseMessage
  PROVE LET m == Head(socketData) IN
        \/ /\ ~IsReliable(m) /\ UNCHANGED <<base, hasReceived>>
           /\ delivered' = [delivered EXCEPT ![m] = @ + 1]
        \/ /\ IsReliable(m) /\ UNCHANGED <<base, hasReceived, delivered>>
           /\ delivered[m] = 1
        \/ /\ IsReliable(m) /\ delivered[m] = 0
           /\ delivered' = [delivered EXCEPT ![m] = @ + 1]
           /\ hasReceived' # <<>> => hasReceived'[1]
           /\ base' >= base /\ number[m] >= base
           /\ base' + Len(hasReceived') = (IF number[m] - base < Len(hasReceived)
                                           THEN base + Len(hasReceived) ELSE number[m] + 1)
           /\ \A j \in Nat : Received(j)' <=> Received(j) \/ j = number[m]
  <1> DEFINE m == Head(socketData)
             h == Sub(Wire(number[m]), Wire(base))
             dropped == \/ h > HalfSpan
                        \/ h > 0 /\ h < Len(hasReceived) /\ ~hasReceived[h + 1]
                        \/ h > 0 /\ h >= Len(hasReceived) /\ h > HoleLimit
  <1>1. socketData \in Seq(Messages) /\ socketData # <<>>
    BY DEF Consistent, ResendBufferInv, TypeOK, ReceiverType, ParseMessage
  <1>2. m \in Elements(socketData) /\ m \in Messages BY <1>1, TailElements
  <1>3. CASE ~IsReliable(m) BY <1>3 DEF ParseMessage, Deliver
  <1>4. CASE IsReliable(m)
    <2>1. /\ number[m] \in Nat
          /\ number[m] < base => h > HalfSpan
          /\ number[m] >= base => h = number[m] - base /\ ~(h > HalfSpan) /\ ~(h > HoleLimit)
      BY <1>2, <1>4, HoleCount
    <2>2. base \in Nat /\ Len(hasReceived) \in Nat /\ HoleLimit \in Nat
      BY BoundsAssumption DEF Consistent, ResendBufferInv, TypeOK, ReceiverType
    <2>3. number[m] # -1 BY <2>1
    <2>4. delivered[m] = IF Received(number[m]) THEN 1 ELSE 0
      BY <1>2, <1>4, <2>3 DEF Consistent, ReceiverInv, ReliableMessages
    <2>5. CASE dropped
      <3>1. UNCHANGED <<base, hasReceived, delivered>> BY <1>4, <2>5 DEF ParseMessage
      <3>2. Received(number[m])
        <4>1. CASE number[m] < base BY <4>1 DEF Received
        <4>2. CASE number[m] >= base
          <5>1. h = number[m] - base /\ h < Len(hasReceived) /\ ~hasReceived[h + 1]
            BY <2>1, <2>5, <4>2
          <5> HIDE DEF h
          <5>2. number[m] < base + Len(hasReceived) BY <2>1, <2>2, <5>1
          <5> QED BY <5>1, <5>2 DEF Received
        <4> QED BY <2>1, <2>2, <4>1, <4>2
      <3> QED BY <1>4, <2>4, <3>1, <3>2
    <2>6. CASE ~dropped
      <3>1. number[m] >= base /\ h = number[m] - base BY <2>1, <2>2, <2>6
      <3>2. PICK k \in 0 .. Len(Marked(h)) :
              /\ \A i \in 1 .. k : ~Marked(h)[i]
              /\ k < Len(Marked(h)) => Marked(h)[k + 1]
              /\ hasReceived' = SubSeq(Marked(h), k + 1, Len(Marked(h)))
              /\ base' = base + k
        BY <1>4, <2>6 DEF ParseMessage
      <3>3. delivered' = [delivered EXCEPT ![m] = @ + 1]
        BY <1>4, <2>6 DEF ParseMessage, Deliver
      <3>4. ~Received(number[m])
        <4>1. ~(number[m] < base) BY <2>1, <2>2, <3>1
        <4>2. CASE h = 0
          <5>1. hasReceived # <<>> => hasReceived[1] BY DEF Consistent, ReceiverInv
          <5>2. hasReceived = <<>> => Len(hasReceived) = 0 OBVIOUS
          <5>3. number[m] - base + 1 = 1 /\ (number[m] < base + 0 => FALSE)
            BY <2>1, <2>2, <3>1, <4>2
          <5> QED BY <4>1, <5>1, <5>2, <5>3 DEF Received
        <4>3. CASE h # 0
          <5>1. h \in Nat /\ h > 0 BY <2>1, <2>2, <3>1, <4>3
          <5>2. ~(h < Len(hasReceived) /\ ~hasReceived[h + 1]) BY <2>6, <5>1
          <5> HIDE DEF h
          <5>3. number[m] < base + Len(hasReceived) => h < Len(hasReceived) BY <2>1, <2>2, <3>1
          <5> QED BY <3>1, <4>1, <5>2, <5>3 DEF Received
        <4> QED BY <4>2, <4>3
      <3>5. delivered[m] = 0 BY <2>4, <3>4
      <3>6. h \in Nat /\ base + h = number[m] BY <2>1, <2>2, <3>1
      <3> HIDE DEF h
      <3>7. /\ hasReceived' # <<>> => hasReceived'[1]
            /\ base' >= base
            /\ base' + Len(hasReceived') = (IF h < Len(hasReceived) THEN base + Len(hasReceived)
                                                                   ELSE base + h + 1)
            /\ \A j \in Nat : Received(j)' <=> Received(j) \/ j = base + h
        BY <3>2, <3>6, AcceptWindow DEF Consistent, ResendBufferInv
      <3> HIDE DEF m
      <3>8. /\ base' + Len(hasReceived') = (IF number[m] - base < Len(hasReceived)
                                            THEN base + Len(hasReceived) ELSE number[m] + 1)
            /\ \A j \in Nat : Received(j)' <=> Received(j) \/ j = number[m]
        BY <3>1, <3>6, <3>7
      <3> QED BY <1>4, <3>1, <3>3, <3>5, <3>7, <3>8 DEF m
    <2> QED BY <2>5, <2>6
  <1> QED BY <1>3, <1>4

(* A reliable message is delivered if and only if its number was not       *)
(* received before.                                                        *)
LEMMA ParseMessageDelivery ==
  ASSUME Consistent, ParseMessage PROVE ReceiverInv' /\ FlightInv' /\ AckInv' /\ KeptInv'
  <1> DEFINE Got(j) == j < base' \/ (j < base' + Len(hasReceived') /\ ~hasReceived'[j - base' + 1])
  <1>1. socketData \in Seq(Messages) /\ socketData # <<>>
    BY DEF Consistent, ResendBufferInv, TypeOK, ReceiverType, ParseMessage
  <1>2. PICK m \in Messages, t \in Seq(Messages) :
          /\ m = Head(socketData) /\ Elements(socketData) = Elements(t) \cup {m}
          /\ socketData' = t
    <2>1. Head(socketData) \in Messages /\ Tail(socketData) \in Seq(Messages) BY <1>1
    <2>2. Elements(socketData) = Elements(Tail(socketData)) \cup {Head(socketData)}
      BY <1>1, TailElements
    <2>3. socketData' = Tail(socketData) BY DEF ParseMessage
    <2> QED BY <2>1, <2>2, <2>3
  <1>3. UNCHANGED <<number, sendIndex, resendBuffer, ackWork, popCount, history, nextDatagram,
                    dataNet, ackNet, acknowlegements>>
    BY DEF ParseMessage, senderVars, resendVars, historyVars, netVars
  <1>4. delivered \in [Messages -> Nat] /\ number \in [Messages -> Nat \cup {-1}]
        /\ base \in Nat /\ Len(hasReceived) \in Nat /\ sendIndex \in Nat
    BY DEF Consistent, ResendBufferInv, TypeOK, ReceiverType, ResendType
  <1>5. \/ /\ ~IsReliable(m) /\ UNCHANGED <<base, hasReceived>>
           /\ delivered' = [delivered EXCEPT ![m] = @ + 1]
        \/ /\ IsReliable(m) /\ UNCHANGED <<base, hasReceived, delivered>>
           /\ delivered[m] = 1
        \/ /\ IsReliable(m) /\ delivered[m] = 0
           /\ delivered' = [delivered EXCEPT ![m] = @ + 1]
           /\ hasReceived' # <<>> => hasReceived'[1]
           /\ base' >= base /\ number[m] >= base
           /\ base' + Len(hasReceived') = (IF number[m] - base < Len(hasReceived)
                                           THEN base + Len(hasReceived) ELSE number[m] + 1)
           /\ \A j \in Nat : Got(j) <=> Received(j) \/ j = number[m]
    BY <1>2, ParseMessageEffect DEF Received
  <1>6. IsReliable(m) => number[m] \in Nat /\ number[m] < sendIndex BY <1>2, HoleCount
  <1>7. Elements(socketData)' = Elements(t) BY <1>2 DEF Elements
  <1> HIDE DEF Got
  <1>8. /\ \A x \in Messages : delivered[x] > 0 => delivered'[x] > 0
        /\ IsReliable(m) => delivered'[m] > 0
        /\ \A x \in Messages : delivered'[x] = 0 => delivered[x] = 0
    <2>1. CASE UNCHANGED delivered /\ (IsReliable(m) => delivered[m] = 1) BY <2>1
    <2>2. CASE delivered' = [delivered EXCEPT ![m] = @ + 1]
      <3>1. \A x \in Messages : delivered'[x] = IF x = m THEN delivered[x] + 1 ELSE delivered[x]
        BY <1>4, <2>2
      <3>2. \A x \in Messages : delivered[x] \in Nat BY <1>4
      <3> QED BY <3>1, <3>2
    <2> QED BY <1>5, <2>1, <2>2
  <1>9. Unacknowledged' = Unacknowledged BY <1>3 DEF Unacknowledged
  <1>10. KeptInv' BY <1>3, <1>8, <1>9 DEF Consistent, KeptInv
  <1>11. AckInv'
    <2>1. \A x \in Unacknowledged : x \in Messages /\ IsReliable(x)
      BY UnacknowledgedNumber DEF Consistent
    <2>2. \A g, S : Covered(g, S) => Covered(g, S)'
      BY <1>3, <1>8, <1>9, <2>1 DEF Covered, Listed, Wire
    <2>3. \A g \in acknowlegements' : Covered(g, Elements(socketData))'
      BY <1>2, <1>3, <1>7, <1>8, <1>9, <2>1 DEF Consistent, AckInv, Covered, Listed, Wire
    <2>4. \A d \in dataNet' : Covered(d.number, Elements(d.messages))'
      BY <1>3, <2>2 DEF Consistent, AckInv
    <2>5. \A p \in ackNet' : \A g \in p : Covered(g, {})' BY <1>3, <2>2 DEF Consistent, AckInv
    <2>6. \A x \in Unacknowledged' : Wire(number'[x]) \in ackWork' => delivered'[x] > 0
      BY <1>3, <1>8, <1>9, <2>1 DEF Consistent, AckInv
    <2> QED BY <2>3, <2>4, <2>5, <2>6 DEF AckInv, Wire
  <1>12. CASE UNCHANGED <<base, hasReceived>>
    <2>1. FlightInv' BY <1>2, <1>3, <1>7, <1>12 DEF Consistent, FlightInv, Recent, Fresh, Elements
    <2>2. \A x \in ReliableMessages : delivered'[x] = delivered[x]
      <3>1. IsReliable(m) => UNCHANGED delivered
        <4>1. CASE /\ IsReliable(m) /\ delivered[m] = 0
                   /\ \A j \in Nat : Got(j) <=> Received(j) \/ j = number[m]
          <5>1. Got(number[m]) BY <1>6, <4>1
          <5>2. Received(number[m]) BY <1>12, <5>1 DEF Received, Got
          <5>3. number[m] # -1 BY <1>6, <4>1
          <5>4. delivered[m] = 1
            BY <1>2, <4>1, <5>2, <5>3 DEF Consistent, ReceiverInv, ReliableMessages
          <5> QED BY <4>1, <5>4
        <4> QED BY <1>5, <4>1
      <3> QED BY <1>4, <1>5, <3>1 DEF ReliableMessages
    <2>3. ReceiverInv'
      BY <1>3, <1>12, <2>2 DEF Consistent, ReceiverInv, Received
    <2> QED BY <1>10, <1>11, <2>1, <2>3
  <1>13. CASE /\ IsReliable(m) /\ delivered[m] = 0
              /\ delivered' = [delivered EXCEPT ![m] = @ + 1]
              /\ hasReceived' # <<>> => hasReceived'[1]
              /\ base' >= base /\ number[m] >= base
              /\ base' + Len(hasReceived') = (IF number[m] - base < Len(hasReceived)
                                              THEN base + Len(hasReceived) ELSE number[m] + 1)
              /\ \A j \in Nat : Got(j) <=> Received(j) \/ j = number[m]
    <2>1. PICK b \in Nat, e \in Nat : b = base' /\ e = base' + Len(hasReceived') /\ b >= base
                                      /\ e = (IF number[m] - base < Len(hasReceived)
                                              THEN base + Len(hasReceived) ELSE number[m] + 1)
      <3>1. base' \in Nat
        BY TypeParseMessage DEF Consistent, ResendBufferInv, TypeOK, ReceiverType
      <3>2. number[m] + 1 \in Nat /\ base + Len(hasReceived) \in Nat BY <1>4, <1>6, <1>13
      <3> QED BY <1>13, <3>1, <3>2
    <2>2. e <= sendIndex
      BY <1>4, <1>6, <1>13, <2>1 DEF Consistent, ReceiverInv
    <2>3. Start <= b BY <1>4, <2>1, BoundsAssumption DEF Consistent, ReceiverInv
    <2>4. ASSUME NEW x \in ReliableMessages
          PROVE delivered'[x] = IF number[x] # -1 /\ Got(number[x]) THEN 1 ELSE 0
      <3>1. x \in Messages /\ number[x] \in Nat \cup {-1} BY <1>4 DEF ReliableMessages
      <3>2. delivered[x] = IF number[x] # -1 /\ Received(number[x]) THEN 1 ELSE 0
        BY DEF Consistent, ReceiverInv
      <3>3. CASE x = m
        <4>1. delivered'[x] = 1 BY <1>4, <1>13, <3>1, <3>3
        <4>2. Got(number[x]) /\ number[x] # -1 BY <1>6, <1>13, <3>3
        <4> QED BY <4>1, <4>2
      <3>4. CASE x # m
        <4>1. delivered'[x] = delivered[x] BY <1>4, <1>13, <3>1, <3>4
        <4>2. number[x] # -1 => number[x] # number[m]
          BY <1>2, <3>1, <3>4 DEF Consistent, ResendBufferInv, NumberingInv
        <4>3. number[x] # -1 => (Got(number[x]) <=> Received(number[x]))
          BY <1>13, <3>1, <4>2
        <4> QED BY <3>2, <4>1, <4>3
      <3> QED BY <3>3, <3>4
    <2>5. ReceiverInv'
      <3>1. (Start <= base /\ base + Len(hasReceived) <= sendIndex)' BY <1>3, <2>1, <2>2, <2>3
      <3>2. \A x \in ReliableMessages :
              (delivered[x] = IF number[x] # -1 /\ Received(number[x]) THEN 1 ELSE 0)'
        BY <1>3, <2>4 DEF Received, Got
      <3> QED BY <1>13, <3>1, <3>2 DEF ReceiverInv
    <2>6. FlightInv'
      <3>1. ASSUME NEW x \in Elements(t), IsReliable(x)
            PROVE /\ number[x] # -1 /\ e - number[x] <= Lifetime
                  /\ \A n \in Elements(t) : IsReliable(n) => number[n] - number[x] < Lifetime
        <4>1. /\ number[x] # -1 /\ base + Len(hasReceived) - number[x] <= Lifetime
              /\ \A n \in Elements(socketData) : IsReliable(n) => number[n] - number[x] < Lifetime
          BY <1>2, <3>1 DEF Consistent, FlightInv
        <4>2. number[m] - number[x] < Lifetime BY <1>2, <1>13, <4>1
        <4>3. number[x] \in Nat
          <5>1. x \in Messages BY <1>1, <1>2, ElementsType
          <5> QED BY <1>4, <4>1, <5>1
        <4>4. e - number[x] <= Lifetime
          <5>1. e = base + Len(hasReceived) \/ e = number[m] + 1 BY <2>1
          <5>2. number[m] \in Nat BY <1>6, <1>13
          <5> QED BY <1>4, <4>1, <4>2, <4>3, <5>1, <5>2, BoundsAssumption
        <4> QED BY <1>2, <4>1, <4>4
      <3>2. \A x \in Elements(socketData)' : IsReliable(x) =>
              /\ number'[x] # -1 /\ base' + Len(hasReceived') - number'[x] <= Lifetime
              /\ \A n \in Elements(socketData)' : IsReliable(n) => number'[n] - number'[x] < Lifetime
        <4>1. e = base' + Len(hasReceived') /\ number' = number BY <1>3, <2>1
        <4> SUFFICES ASSUME NEW x \in Elements(t), IsReliable(x)
                     PROVE /\ number'[x] # -1 /\ base' + Len(hasReceived') - number'[x] <= Lifetime
                           /\ \A n \in Elements(t) : IsReliable(n) => number'[n] - number'[x] < Lifetime
          BY <1>7, Zenon
        <4>2. /\ number[x] # -1 /\ e - number[x] <= Lifetime
              /\ \A n \in Elements(t) : IsReliable(n) => number[n] - number[x] < Lifetime
          BY <3>1
        <4>3. base' + Len(hasReceived') - number'[x] <= Lifetime
          <5>1. number'[x] = number[x] BY <4>1
          <5>2. number[x] \in Int
            <6>1. x \in Messages BY ElementsType
            <6> QED BY <1>4, <6>1
          <5>3. PICK l \in Nat : l = Len(hasReceived')
            BY TypeParseMessage DEF Consistent, ResendBufferInv, TypeOK, ReceiverType
          <5>4. e = b + l BY <2>1, <4>1, <5>3
          <5>5. b + l - number[x] <= Lifetime BY <4>2, <5>2, <5>4, BoundsAssumption
          <5> QED BY <2>1, <5>1, <5>3, <5>5
        <4>4. number'[x] # -1 /\ \A n \in Elements(t) : IsReliable(n) => number'[n] - number'[x] < Lifetime
          BY <4>1, <4>2, Zenon
        <4> QED BY <4>3, <4>4
      <3> QED BY <1>3, <3>2 DEF Consistent, FlightInv, Recent, Fresh, Elements
    <2> QED BY <1>10, <1>11, <2>5, <2>6
  <1> QED BY <1>5, <1>12, <1>13

-----------------------------------------------------------------------------
(* Every action keeps every part.                                          *)
LEMMA DeliveryNext ==
  ASSUME NumbersAssigned, Consistent, Next
  PROVE UpdateInv' /\ ReceiverInv' /\ FlightInv' /\ HistoryInv' /\ AckInv' /\ KeptInv'
  <1> DEFINE Goal == UpdateInv' /\ ReceiverInv' /\ FlightInv' /\ HistoryInv' /\ AckInv' /\ KeptInv'
  <1>0. UpdateInv /\ ReceiverInv /\ FlightInv /\ HistoryInv /\ AckInv /\ KeptInv BY DEF Consistent
  <1>1. ASSUME NEW m \in Messages, Send(m) PROVE Goal
    BY <1>0, <1>1, DeliveryKept DEF Send, updateVars, resendVars, historyVars, receiverVars, netVars
  <1>2. ASSUME NEW m \in Messages, Timeout(m) PROVE Goal
    BY <1>0, <1>2, DeliveryKept DEF Timeout, updateVars, historyVars, receiverVars
  <1>3. CASE UpdateBegin
    <2>1. UpdateInv'
      <3>1. phase = "idle" /\ phase' \in {"idle", "resend"}
            /\ UNCHANGED <<datagram, ackWork, resendBuffer>>
        BY <1>3 DEF UpdateBegin, resendVars
      <3> QED BY <1>0, <3>1 DEF UpdateInv, Elements, Unacknowledged
    <2> QED BY <1>0, <1>3, <2>1, DeliveryKept
            DEF UpdateBegin, resendVars, historyVars, receiverVars, netVars
  <1>4. CASE AckTimeout
    BY <1>0, <1>4, DeliveryKept DEF AckTimeout, updateVars, resendVars, historyVars, receiverVars
  <1>5. CASE ResendMessage
    BY <1>0, <1>5, ResendMessageUpdate, DeliveryKept DEF ResendMessage, historyVars, receiverVars, netVars
  <1>6. CASE ResendDatagram
    <2>1. UpdateInv' /\ FlightInv' /\ HistoryInv' /\ AckInv'
      BY <1>6, EmitDelivery DEF ResendDatagram
    <2> QED BY <1>0, <1>6, <2>1, DeliveryKept DEF ResendDatagram, resendVars, receiverVars
  <1>7. CASE ResendDone
    <2>1. UpdateInv' BY <1>0, <1>7 DEF ResendDone, resendVars, UpdateInv, Elements, Unacknowledged
    <2> QED BY <1>0, <1>7, <2>1, DeliveryKept
            DEF ResendDone, resendVars, historyVars, receiverVars, netVars
  <1>8. CASE TransmitMessage BY <1>8, TransmitMessageDelivery
  <1>9. CASE TransmitDatagram
    <2>1. UpdateInv' /\ FlightInv' /\ HistoryInv' /\ AckInv'
      BY <1>9, EmitDelivery DEF TransmitDatagram
    <2> QED BY <1>0, <1>9, <2>1, DeliveryKept DEF TransmitDatagram, resendVars, receiverVars
  <1>10. CASE UpdateEnd
    <2>1. UpdateInv' BY <1>0, <1>10 DEF UpdateEnd, resendVars, UpdateInv, Elements, Unacknowledged
    <2> QED BY <1>0, <1>10, <2>1, DeliveryKept
            DEF UpdateEnd, resendVars, historyVars, receiverVars, netVars
  <1>11. CASE AckMessage
    BY <1>0, <1>11, AckMessageDelivery, DeliveryKept DEF AckMessage, historyVars, receiverVars, netVars
  <1>12. ASSUME NEW p \in ackNet, ReceiveAck(p) PROVE Goal
    BY <1>0, <1>12, ReceiveAckDelivery, DeliveryKept DEF ReceiveAck, resendVars, receiverVars
  <1>13. ASSUME NEW p \in nakNet, ReceiveNak(p) PROVE Goal
    BY <1>0, <1>13, DeliveryKept DEF ReceiveNak, updateVars, historyVars, receiverVars
  <1>14. ASSUME NEW d \in dataNet, ReceiveDatagram(d) PROVE Goal
    BY <1>0, <1>14, ReceiveDatagramDelivery, DeliveryKept
       DEF ReceiveDatagram, senderVars, updateVars, resendVars, historyVars
  <1>15. CASE ParseMessage
    BY <1>0, <1>15, ParseMessageDelivery, DeliveryKept
       DEF ParseMessage, senderVars, updateVars, resendVars, historyVars
  <1>16. CASE SendACKs
    BY <1>0, <1>16, SendACKsDelivery, DeliveryKept
       DEF SendACKs, senderVars, updateVars, resendVars, historyVars
  <1>17. CASE Lose
    BY <1>0, <1>17, LoseDelivery, DeliveryKept
       DEF Lose, senderVars, updateVars, resendVars, historyVars, receiverVars
  <1>18. CASE SenderLoop BY <1>5, <1>6, <1>7, <1>8, <1>9, <1>10, <1>11, <1>18 DEF SenderLoop
  <1> QED BY <1>1, <1>2, <1>3, <1>4, <1>12, <1>13, <1>14, <1>15, <1>16, <1>17, <1>18 DEF Next

(* Every step keeps the delivery invariant.                                *)
LEMMA DeliveryStep == DeliveryInv /\ [Next]_vars => DeliveryInv'
  <1> SUFFICES ASSUME DeliveryInv, [Next]_vars, NumbersAssigned PROVE Consistent'
    BY DEF DeliveryInv
  <1>1. Consistent BY DEF DeliveryInv
  <1>2. ResendBufferInv' BY <1>1, ResendBufferStep DEF Consistent
  <1>3. CASE Next BY <1>1, <1>2, <1>3, DeliveryNext DEF Consistent
  <1>4. CASE UNCHANGED vars
    BY <1>1, <1>2, <1>4, DeliveryKept
       DEF Consistent, vars, senderVars, updateVars, resendVars, historyVars, receiverVars, netVars
  <1> QED BY <1>3, <1>4

(* The invariant of delivery, for every value of the constants.            *)
THEOREM DeliveryCorrect == Spec => []DeliveryInv
  <1>1. Init => DeliveryInv BY DeliveryInit DEF DeliveryInv
  <1> QED BY <1>1, DeliveryStep, PTL DEF Spec

(* Duplicate removal: whatever is resent, duplicated or reordered, and     *)
(* however often the 24-bit numbers have wrapped, a reliable message       *)
(* reaches the output queue at most once.                                  *)
THEOREM ExactlyOnceCorrect == ASSUME NumbersAssigned PROVE Spec => []ExactlyOnce
  <1>1. DeliveryInv => ExactlyOnce
    <2> SUFFICES ASSUME DeliveryInv, NEW m \in ReliableMessages PROVE delivered[m] <= 1
      BY DEF ExactlyOnce
    <2>1. delivered[m] = 0 \/ delivered[m] = 1 BY DEF DeliveryInv, Consistent, ReceiverInv
    <2> QED BY <2>1
  <1> QED BY <1>1, DeliveryCorrect, PTL

(* The sender clears a reliable message only after it was delivered: no    *)
(* late or wrapped-around acknowledgement loses one.                       *)
THEOREM ReleaseCorrect == ASSUME NumbersAssigned PROVE Spec => []ReleasedOnlyWhenDelivered
  <1>1. DeliveryInv => ReleasedOnlyWhenDelivered
    <2> SUFFICES ASSUME DeliveryInv, NEW m \in sent, IsReliable(m), m \notin Elements(outgoing),
                        m \notin Unacknowledged
                 PROVE delivered[m] > 0
      BY DEF ReleasedOnlyWhenDelivered
    <2>1. m \in Messages /\ delivered[m] \in Nat
      BY DEF DeliveryInv, Consistent, ResendBufferInv, TypeOK, QueueType, ReceiverType
    <2>2. number[m] # -1 BY DEF DeliveryInv, Consistent, ResendBufferInv, NumberingInv
    <2>3. delivered[m] # 0 BY <2>1, <2>2 DEF DeliveryInv, Consistent, KeptInv
    <2> QED BY <2>1, <2>3
  <1> QED BY <1>1, DeliveryCorrect, PTL

(* The receiver's window never outgrows the sender's resend buffer, so the *)
(* drop of messages too far ahead of the window is never taken.            *)
THEOREM WindowCorrect == ASSUME NumbersAssigned PROVE Spec => []ReceiveWindow
  <1>1. DeliveryInv => ReceiveWindow BY WindowBound DEF DeliveryInv
  <1> QED BY <1>1, DeliveryCorrect, PTL

-----------------------------------------------------------------------------
(* ReliabilityLayer implements ReliableChannel, for every value of the     *)
(* constants, while no message is sent with UNRELIABLE_WITH_ACK_RECEIPT.   *)

(* The state of the channel as ReliabilityLayer keeps it.                  *)
accepted == sent \cap ReliableMessages
reached == [m \in ReliableMessages |-> delivered[m]]
released == {m \in sent : IsReliable(m) /\ m \notin Elements(outgoing) \cup Unacknowledged}

(* The channel's definitions, over that state.                             *)
LEMMA ChannelDefinitions ==
  /\ Channel!Init <=> accepted = {} /\ reached = [m \in ReliableMessages |-> 0] /\ released = {}
  /\ \A m : Channel!Accept(m) <=>
       /\ m \notin accepted /\ accepted' = accepted \cup {m}
       /\ UNCHANGED <<reached, released>>
  /\ \A m : Channel!Deliver(m) <=>
       /\ m \in accepted /\ reached[m] = 0 /\ reached' = [reached EXCEPT ![m] = 1]
       /\ UNCHANGED <<accepted, released>>
  /\ \A m : Channel!Release(m) <=>
       /\ reached[m] = 1 /\ m \notin released /\ released' = released \cup {m}
       /\ UNCHANGED <<accepted, reached>>
  /\ UNCHANGED Channel!vars <=> UNCHANGED <<accepted, reached, released>>
  BY DEF Channel!Init, Channel!Accept, Channel!Deliver, Channel!Release, Channel!vars,
         accepted, reached, released

(* Initially nothing is accepted, delivered or released.                   *)
LEMMA ChannelInit == Init => Channel!Init
  <1> SUFFICES ASSUME Init PROVE Channel!Init OBVIOUS
  <1>1. accepted = {} /\ released = {} BY DEF Init, accepted, released
  <1>2. reached = [m \in ReliableMessages |-> 0] BY DEF Init, reached, ReliableMessages
  <1> QED BY <1>1, <1>2, ChannelDefinitions

(* A step that leaves these alone is invisible to the application.         *)
LEMMA ChannelStutter ==
  ASSUME UNCHANGED <<sent, outgoing, resendBuffer, delivered>>
  PROVE UNCHANGED Channel!vars
  <1>1. UNCHANGED accepted BY DEF accepted, ReliableMessages
  <1>2. UNCHANGED reached BY DEF reached, ReliableMessages
  <1>3. UNCHANGED released BY DEF released, Elements, Unacknowledged
  <1> QED BY <1>1, <1>2, <1>3, ChannelDefinitions

(* A reliable message is accepted, any other is not the channel's.         *)
LEMMA ChannelSend ==
  ASSUME Consistent, NEW m \in Messages, Send(m) PROVE Channel!Next \/ UNCHANGED Channel!vars
  <1>1. /\ m \notin sent /\ sent' = sent \cup {m} /\ outgoing' = Append(outgoing, m)
        /\ UNCHANGED <<resendBuffer, delivered>>
    BY DEF Send, resendVars, receiverVars
  <1>2. outgoing \in Seq(Messages) BY DEF Consistent, ResendBufferInv, TypeOK, QueueType
  <1>3. Elements(outgoing)' = Elements(outgoing) \cup {m}
    <2>1. Elements(outgoing') = Elements(outgoing) \cup {m} BY <1>1, <1>2, AppendElements
    <2> QED BY <2>1 DEF Elements
  <1>4. Unacknowledged' = Unacknowledged BY <1>1 DEF Unacknowledged
  <1>5. m \notin Unacknowledged
    BY <1>1, UnacknowledgedNumber DEF Consistent, ResendBufferInv, NumberingInv, ResendInv
  <1>6. released' = released BY <1>1, <1>3, <1>4 DEF released
  <1>7. reached' = reached BY <1>1 DEF reached
  <1>8. CASE IsReliable(m)
    <2>1. accepted' = accepted \cup {m} /\ m \notin accepted /\ m \in ReliableMessages
      BY <1>1, <1>8 DEF accepted, ReliableMessages
    <2> QED BY <1>6, <1>7, <2>1, ChannelDefinitions DEF Channel!Next
  <1>9. CASE ~IsReliable(m)
    <2>1. accepted' = accepted BY <1>1, <1>9 DEF accepted, ReliableMessages
    <2> QED BY <1>6, <1>7, <2>1, ChannelDefinitions
  <1> QED BY <1>8, <1>9

(* A message moves from the queue to the resend buffer.                    *)
LEMMA ChannelTransmit == ASSUME Consistent, TransmitMessage PROVE UNCHANGED Channel!vars
  <1>1. UNCHANGED <<sent, delivered>> /\ outgoing' = Tail(outgoing)
    BY DEF TransmitMessage, receiverVars
  <1>2. outgoing \in Seq(Messages) /\ outgoing # <<>>
    BY DEF Consistent, ResendBufferInv, TypeOK, QueueType, TransmitMessage
  <1>3. PICK h : h = Head(outgoing) /\ Elements(outgoing) = Elements(Tail(outgoing)) \cup {h}
    BY <1>2, TailElements
  <1>4. h \notin Elements(Tail(outgoing))
    BY <1>2, <1>3, TailInjective DEF Consistent, ResendBufferInv, NumberingInv, Injective
  <1>5. Elements(outgoing)' = Elements(Tail(outgoing)) BY <1>1 DEF Elements
  <1>6. \/ IsReliable(h) /\ Unacknowledged' = Unacknowledged \cup {h}
        \/ ~IsReliable(h) /\ Unacknowledged' = Unacknowledged
    <2>1. CASE ~IsReliable(h)
      <3>1. UNCHANGED resendBuffer BY <1>3, <2>1 DEF TransmitMessage
      <3> QED BY <2>1, <3>1 DEF Unacknowledged
    <2>2. CASE IsReliable(h)
      <3>1. PICK m \in Messages : Unacknowledged' = Unacknowledged \cup {m} /\ IsReliable(m)
                                  /\ number' = [number EXCEPT ![m] = sendIndex]
                                  /\ number[m] = -1
        <4>1. sendIndex' = sendIndex + 1 BY <1>3, <2>2 DEF TransmitMessage
        <4>2. sendIndex' # sendIndex
          <5>1. sendIndex \in Nat BY DEF Consistent, ResendBufferInv, TypeOK, ResendType
          <5> QED BY <4>1, <5>1
        <4> QED BY <4>2, TransmitMessageEffect
      <3>2. number' = [number EXCEPT ![h] = sendIndex] BY <1>3, <2>2 DEF TransmitMessage
      <3>3. number \in [Messages -> Nat \cup {-1}] /\ sendIndex \in Nat
        BY DEF Consistent, ResendBufferInv, TypeOK, ResendType
      <3>4. m = h BY <3>1, <3>2, <3>3
      <3> QED BY <2>2, <3>1, <3>4
    <2> QED BY <2>1, <2>2
  <1>7. released' = released BY <1>1, <1>3, <1>4, <1>5, <1>6 DEF released
  <1>8. accepted' = accepted /\ reached' = reached BY <1>1 DEF accepted, reached, ReliableMessages
  <1> QED BY <1>7, <1>8, ChannelDefinitions

(* An acknowledgement releases a delivered message.                        *)
LEMMA ChannelAck == ASSUME Consistent, AckMessage PROVE Channel!Next \/ UNCHANGED Channel!vars
  <1>1. UNCHANGED <<sent, outgoing, delivered, number>> BY DEF AckMessage, queueVars, receiverVars
  <1>2. accepted' = accepted /\ reached' = reached BY <1>1 DEF accepted, reached, ReliableMessages
  <1>3. Elements(outgoing)' = Elements(outgoing) BY <1>1 DEF Elements
  <1>4. CASE UNCHANGED resendBuffer BY <1>1, <1>4, ChannelStutter
  <1>5. ASSUME NEW m \in Unacknowledged, Wire(number[m]) \in ackWork,
               Unacknowledged' = Unacknowledged \ {m}
        PROVE Channel!Next
    <2>1. delivered[m] > 0 BY <1>5 DEF Consistent, AckInv
    <2>2. m \in Messages /\ IsReliable(m) /\ number[m] \in Nat BY UnacknowledgedNumber DEF Consistent
    <2>3. m \in ReliableMessages BY <2>2 DEF ReliableMessages
    <2>4. delivered[m] = 0 \/ delivered[m] = 1 BY <2>3 DEF Consistent, ReceiverInv
    <2>5. reached[m] = 1 BY <2>1, <2>3, <2>4 DEF reached
    <2>6. m \in sent BY <2>2 DEF Consistent, ResendBufferInv, NumberingInv
    <2>7. m \notin Elements(outgoing)
      BY <2>2 DEF Consistent, ResendBufferInv, NumberingInv, Elements
    <2>8. m \notin released /\ released' = released \cup {m}
      BY <1>1, <1>3, <1>5, <2>2, <2>6, <2>7 DEF released
    <2> QED BY <1>2, <2>3, <2>5, <2>8, ChannelDefinitions DEF Channel!Next
  <1> QED BY <1>4, <1>5, AckMessageEffect DEF Consistent, ResendBufferInv

(* Parsing a reliable message delivers it, or drops what was delivered.    *)
LEMMA ChannelParse == ASSUME Consistent, ParseMessage PROVE Channel!Next \/ UNCHANGED Channel!vars
  <1>1. UNCHANGED <<sent, outgoing, resendBuffer>>
    BY DEF ParseMessage, senderVars, queueVars, resendVars
  <1>2. accepted' = accepted /\ released' = released
    BY <1>1 DEF accepted, released, ReliableMessages, Elements, Unacknowledged
  <1>3. socketData \in Seq(Messages) /\ socketData # <<>> /\ delivered \in [Messages -> Nat]
    BY DEF Consistent, ResendBufferInv, TypeOK, ReceiverType, ParseMessage
  <1>4. PICK m \in Elements(socketData) : m = Head(socketData) /\ m \in Messages
    BY <1>3, TailElements
  <1>5. \/ ~IsReliable(m) /\ delivered' = [delivered EXCEPT ![m] = @ + 1]
        \/ UNCHANGED delivered
        \/ IsReliable(m) /\ delivered[m] = 0 /\ delivered' = [delivered EXCEPT ![m] = @ + 1]
    BY <1>4, ParseMessageEffect
  <1>6. CASE ~IsReliable(m) /\ delivered' = [delivered EXCEPT ![m] = @ + 1]
    <2>1. reached' = reached BY <1>3, <1>6 DEF reached, ReliableMessages
    <2> QED BY <1>2, <2>1, ChannelDefinitions
  <1>7. CASE UNCHANGED delivered BY <1>1, <1>7, ChannelStutter
  <1>8. CASE IsReliable(m) /\ delivered[m] = 0 /\ delivered' = [delivered EXCEPT ![m] = @ + 1]
    <2>1. m \in ReliableMessages BY <1>4, <1>8 DEF ReliableMessages
    <2>2. reached[m] = 0 /\ reached' = [reached EXCEPT ![m] = 1]
      <3>1. \A x \in ReliableMessages : delivered'[x] = IF x = m THEN 1 ELSE delivered[x]
        BY <1>3, <1>8 DEF ReliableMessages
      <3>2. reached' = [x \in ReliableMessages |-> delivered'[x]] BY DEF reached, ReliableMessages
      <3>3. reached = [x \in ReliableMessages |-> delivered[x]] BY DEF reached
      <3>4. reached[m] = 0 BY <1>8, <2>1, <3>3
      <3>5. reached' = [reached EXCEPT ![m] = 1] BY <2>1, <3>1, <3>2, <3>3
      <3> QED BY <3>4, <3>5
    <2>3. m \in sent
      <3>1. number[m] \in Nat BY <1>8, HoleCount
      <3> QED BY <1>4, <3>1 DEF Consistent, ResendBufferInv, NumberingInv
    <2>4. m \in accepted BY <2>1, <2>3 DEF accepted
    <2> QED BY <1>2, <2>1, <2>2, <2>4, ChannelDefinitions DEF Channel!Next
  <1> QED BY <1>5, <1>6, <1>7, <1>8

(* Every step of the reliability layer is a step of the channel or none.   *)
LEMMA ChannelStep ==
  NumbersAssigned /\ DeliveryInv /\ [Next]_vars => [Channel!Next]_(Channel!vars)
  <1> SUFFICES ASSUME NumbersAssigned, DeliveryInv, [Next]_vars
               PROVE Channel!Next \/ UNCHANGED Channel!vars
    OBVIOUS
  <1>1. Consistent BY DEF DeliveryInv
  <1>2. \/ \E m \in Messages : Send(m)
        \/ TransmitMessage \/ AckMessage \/ ParseMessage
        \/ UNCHANGED <<sent, outgoing, resendBuffer, delivered>>
    <2>1. CASE Next
      <3>1. \A m \in Messages : Timeout(m) => UNCHANGED <<sent, outgoing, resendBuffer, delivered>>
        BY DEF Timeout, queueVars, receiverVars
      <3>2. UpdateBegin \/ AckTimeout => UNCHANGED <<sent, outgoing, resendBuffer, delivered>>
        BY DEF UpdateBegin, AckTimeout, queueVars, resendVars, receiverVars
      <3>3. ResendMessage \/ ResendDatagram \/ ResendDone \/ TransmitDatagram \/ UpdateEnd
              => UNCHANGED <<sent, outgoing, resendBuffer, delivered>>
        BY DEF ResendMessage, ResendDatagram, ResendDone, TransmitDatagram, UpdateEnd,
               queueVars, resendVars, receiverVars
      <3>4. \A p : ReceiveAck(p) \/ ReceiveNak(p)
              => UNCHANGED <<sent, outgoing, resendBuffer, delivered>>
        BY DEF ReceiveAck, ReceiveNak, queueVars, resendVars, receiverVars
      <3>5. \A d : ReceiveDatagram(d) => UNCHANGED <<sent, outgoing, resendBuffer, delivered>>
        BY DEF ReceiveDatagram, senderVars, queueVars, resendVars
      <3>6. SendACKs \/ Lose => UNCHANGED <<sent, outgoing, resendBuffer, delivered>>
        BY DEF SendACKs, Lose, senderVars, queueVars, resendVars, receiverVars
      <3> QED BY <2>1, <3>1, <3>2, <3>3, <3>4, <3>5, <3>6 DEF Next, SenderLoop
    <2>2. CASE UNCHANGED vars BY <2>2 DEF vars, senderVars, queueVars, resendVars, receiverVars
    <2> QED BY <2>1, <2>2
  <1> QED BY <1>1, <1>2, ChannelSend, ChannelTransmit, ChannelAck, ChannelParse, ChannelStutter

(* The reliability layer implements the reliable channel it promises the   *)
(* application.                                                            *)
THEOREM ChannelImplemented == ASSUME NumbersAssigned PROVE Spec => ImplementsChannel
  <1>1. DeliveryInv /\ [Next]_vars => [Channel!Next]_(Channel!vars) BY ChannelStep
  <1> QED BY <1>1, ChannelInit, DeliveryCorrect, PTL DEF Spec, ImplementsChannel, Channel!Spec

-----------------------------------------------------------------------------
(***************************************************************************)
(* The receipts: no receipt that was asked for is forgotten, none is given *)
(* twice, and an ACKED receipt means that the message was delivered.       *)
(***************************************************************************)

(* A receipt is owed, under one datagram, to an unreliable message that    *)
(* has left the queue and has none yet.                                    *)
OwedInv ==
  /\ \A r \in receiptHistory :
       /\ Reliability[r.message] = "UnreliableWithAckReceipt" /\ receipts[r.message] = NoReceipt
       /\ r.message \in sent /\ r.message \notin Elements(outgoing)
  /\ \A r, s \in receiptHistory : r.message = s.message => r = s

(* A receipt that was given is the only one; it ended a reliable message's *)
(* stay in the resend buffer.                                              *)
Given(k) == k = [ACKED |-> 1, LOSS |-> 0] \/ k = [ACKED |-> 0, LOSS |-> 1]
GivenInv ==
  \A m \in Messages : receipts[m] # NoReceipt =>
    /\ Given(receipts[m]) /\ WantsReceipt(m) /\ m \in sent /\ m \notin Elements(outgoing)
    /\ IsReliable(m) => receipts[m].LOSS = 0 /\ m \notin Unacknowledged
ReceiptInv == OwedInv /\ GivenInv /\ ReceiptKept

(* What travels under the number of a datagram that a receipt is owed      *)
(* under carries the message; once that number is acknowledged, the        *)
(* message was delivered or is about to be parsed.                         *)
TravelInv ==
  /\ \A d \in dataNet : Recent(d.number)
  /\ \A g \in acknowlegements : Recent(g)
  /\ \A p \in ackNet : \A g \in p : Recent(g)
RecordInv ==
  \A r \in receiptHistory :
    /\ r.datagram <= nextDatagram
    /\ r.datagram = nextDatagram => r.message \in Elements(datagram)
    /\ \A d \in dataNet : d.number = r.datagram => r.message \in Elements(d.messages)
    /\ r.datagram \in acknowlegements =>
         delivered[r.message] > 0 \/ r.message \in Elements(socketData)
    /\ \A p \in ackNet : r.datagram \in p => delivered[r.message] > 0

(* An ACKED receipt is the truth.                                          *)
AckedTruly(m) == receipts[m].ACKED > 0 => delivered[m] > 0
UnreliableTruth == \A m \in Messages : ~IsReliable(m) => AckedTruly(m)
TruthInv == TravelInv /\ RecordInv /\ UnreliableTruth

(* A receipt is settled, if only as LOSS by its timer, before the datagram *)
(* numbers come round to the one it is recorded under.                     *)
ReceiptsTimely == \A r \in receiptHistory : nextDatagram - r.datagram <= NumberSpan

-----------------------------------------------------------------------------
(* A given receipt is a receipt.                                           *)
LEMMA GivenReceipt == \A k : Given(k) => k # NoReceipt
  BY DEF Given, NoReceipt

(* Initially nothing was sent, and no receipt is owed or given.            *)
LEMMA ReceiptInit == Init => ReceiptInv
  BY DEF Init, ReceiptInv, OwedInv, GivenInv, ReceiptKept

(* What does not touch the queue, the resend buffer or the receipts.       *)
LEMMA ReceiptFrame ==
  ASSUME ReceiptInv, UNCHANGED <<sent, outgoing, culled, resendBuffer, receiptHistory, receipts>>
  PROVE ReceiptInv'
  BY DEF ReceiptInv, OwedInv, GivenInv, ReceiptKept, Elements, Unacknowledged, Given, WantsReceipt,
         IsReliable

(* Receipts are reported: the records of S go, and their messages, which   *)
(* had no receipt, get one.                                                *)
LEMMA ReceiptReport ==
  ASSUME TypeOK, ReceiptInv, NEW S \in SUBSET receiptHistory,
         receiptHistory' = receiptHistory \ S,
         \A m \in Messages : (\E r \in S : r.message = m) => Given(receipts'[m]),
         \A m \in Messages : ~(\E r \in S : r.message = m) => receipts'[m] = receipts[m],
         UNCHANGED <<sent, outgoing, resendBuffer>>, culled \subseteq culled'
  PROVE ReceiptInv'
  <1>1. Elements(outgoing)' = Elements(outgoing) /\ Unacknowledged' = Unacknowledged
    BY DEF Elements, Unacknowledged
  <1>2. \A r \in receiptHistory : r.message \in Messages BY DEF TypeOK, ReceiptType
  <1>3. OwedInv'
    <2>1. ASSUME NEW r \in receiptHistory'
          PROVE  receipts'[r.message] = receipts[r.message]
      <3>1. r \in receiptHistory /\ r \notin S OBVIOUS
      <3>2. ~(\E s \in S : s.message = r.message) BY <3>1 DEF ReceiptInv, OwedInv
      <3> QED BY <1>2, <3>1, <3>2
    <2> QED BY <1>1, <2>1 DEF ReceiptInv, OwedInv
  <1>4. GivenInv'
    <2> SUFFICES ASSUME NEW m \in Messages, receipts'[m] # NoReceipt
                 PROVE  /\ Given(receipts'[m]) /\ WantsReceipt(m) /\ m \in sent /\ m \notin Elements(outgoing)
                        /\ IsReliable(m) => receipts'[m].LOSS = 0 /\ m \notin Unacknowledged
      BY <1>1 DEF GivenInv, Given, WantsReceipt, IsReliable
    <2>1. CASE \E r \in S : r.message = m
      <3>1. PICK r \in S : r.message = m BY <2>1
      <3>2. r \in receiptHistory BY <3>1
      <3>3. Reliability[m] = "UnreliableWithAckReceipt" /\ m \in sent /\ m \notin Elements(outgoing)
        BY <3>1, <3>2 DEF ReceiptInv, OwedInv
      <3> QED BY <2>1, <3>3 DEF WantsReceipt, IsReliable
    <2>2. CASE ~(\E r \in S : r.message = m)
      BY <2>2 DEF ReceiptInv, GivenInv
    <2> QED BY <2>1, <2>2
  <1>5. ReceiptKept'
    <2> SUFFICES ASSUME NEW m \in sent, WantsReceipt(m), m \notin culled, receipts'[m] = NoReceipt,
                        m \notin Elements(outgoing) \cup Unacknowledged
                 PROVE  \E r \in receiptHistory' : r.message = m
      BY <1>1 DEF ReceiptKept, WantsReceipt
    <2>1. m \in Messages BY DEF TypeOK, QueueType
    <2>2. ~(\E r \in S : r.message = m) BY <2>1, GivenReceipt
    <2>3. receipts[m] = NoReceipt BY <2>1, <2>2
    <2>4. \E r \in receiptHistory : r.message = m BY <2>3 DEF ReceiptInv, ReceiptKept
    <2> QED BY <2>2, <2>4
  <1> QED BY <1>3, <1>4, <1>5 DEF ReceiptInv

(* A record's message has no receipt, so that the first one is its only    *)
(* one.                                                                    *)
LEMMA FirstReceipt ==
  ASSUME ReceiptInv, NEW r \in receiptHistory
  PROVE  /\ Given([receipts[r.message] EXCEPT !.LOSS = @ + 1])
         /\ Given([receipts[r.message] EXCEPT !.ACKED = @ + 1])
  <1>1. receipts[r.message] = NoReceipt BY DEF ReceiptInv, OwedInv
  <1> QED BY <1>1 DEF NoReceipt, Given

(* Sending asks for a receipt.                                             *)
LEMMA ReceiptSend ==
  ASSUME TypeOK, ReceiptInv, NEW m \in Messages, Send(m) PROVE ReceiptInv'
  <1>1. /\ m \notin sent /\ sent' = sent \cup {m} /\ outgoing' = Append(outgoing, m)
        /\ UNCHANGED <<culled, resendBuffer, receiptHistory, receipts>>
    BY DEF Send, resendVars, receiptVars
  <1>2. Elements(outgoing)' = Elements(outgoing) \cup {m}
    <2>1. Elements(outgoing') = Elements(outgoing) \cup {m}
      BY <1>1, AppendElements DEF TypeOK, QueueType
    <2> QED BY <2>1 DEF Elements
  <1>3. Unacknowledged' = Unacknowledged BY <1>1 DEF Unacknowledged
  <1>4. OwedInv' BY <1>1, <1>2 DEF ReceiptInv, OwedInv
  <1>5. GivenInv' BY <1>1, <1>2, <1>3 DEF ReceiptInv, GivenInv, Given, WantsReceipt, IsReliable
  <1>6. ReceiptKept' BY <1>1, <1>2, <1>3 DEF ReceiptInv, ReceiptKept, WantsReceipt
  <1> QED BY <1>4, <1>5, <1>6 DEF ReceiptInv

(* The receipts whose timer ran out are reported as LOSS.                  *)
LEMMA ReceiptUpdateBegin == ASSUME TypeOK, ReceiptInv, UpdateBegin PROVE ReceiptInv'
  <1>1. PICK late \in SUBSET receiptHistory :
          /\ receiptHistory' = receiptHistory \ late
          /\ receipts' = [m \in Messages |->
                            IF \E r \in late : r.message = m
                            THEN [receipts[m] EXCEPT !.LOSS = @ + 1] ELSE receipts[m]]
    BY DEF UpdateBegin, Unreported
  <1>2. culled \subseteq culled' /\ UNCHANGED <<sent, outgoing, resendBuffer>>
    BY DEF UpdateBegin, resendVars
  <1>3. \A m \in Messages : (\E r \in late : r.message = m) => Given(receipts'[m])
    BY <1>1, FirstReceipt
  <1>4. \A m \in Messages : ~(\E r \in late : r.message = m) => receipts'[m] = receipts[m]
    BY <1>1
  <1> QED BY <1>1, <1>2, <1>3, <1>4, ReceiptReport

(* The receipts of acknowledged datagrams are reported as ACKED.           *)
LEMMA ReceiptReceiveAck ==
  ASSUME TypeOK, ReceiptInv, NEW p \in ackNet, ReceiveAck(p) PROVE ReceiptInv'
  <1>1. PICK acked \in SUBSET receiptHistory :
          /\ receiptHistory' = receiptHistory \ acked
          /\ receipts' = [m \in Messages |->
                            IF \E r \in acked : r.message = m
                            THEN [receipts[m] EXCEPT !.ACKED = @ + 1] ELSE receipts[m]]
    <2> DEFINE acked == {r \in receiptHistory : Wire(r.datagram) \in {Wire(g) : g \in p}}
    <2>1. /\ receiptHistory' = receiptHistory \ acked
          /\ receipts' = [m \in Messages |->
                            IF \E r \in acked : r.message = m
                            THEN [receipts[m] EXCEPT !.ACKED = @ + 1] ELSE receipts[m]]
      BY DEF ReceiveAck, Unreported
    <2>2. acked \in SUBSET receiptHistory OBVIOUS
    <2> HIDE DEF acked
    <2> QED BY <2>1, <2>2
  <1>2. culled \subseteq culled' /\ UNCHANGED <<sent, outgoing, resendBuffer>>
    BY DEF ReceiveAck, queueVars, resendVars
  <1>3. \A m \in Messages : (\E r \in acked : r.message = m) => Given(receipts'[m])
    BY <1>1, FirstReceipt
  <1>4. \A m \in Messages : ~(\E r \in acked : r.message = m) => receipts'[m] = receipts[m]
    BY <1>1
  <1> QED BY <1>1, <1>2, <1>3, <1>4, ReceiptReport

(* A message leaves the queue: it enters the resend buffer, is recorded    *)
(* for a receipt, or needs none.                                           *)
LEMMA ReceiptTransmit == ASSUME ResendBufferInv, ReceiptInv, TransmitMessage PROVE ReceiptInv'
  <1> DEFINE m == Head(outgoing)
             t == Tail(outgoing)
             s == Slot(Wire(sendIndex))
  <1>1. outgoing \in Seq(Messages) /\ outgoing # <<>> /\ Injective(outgoing)
    BY DEF ResendBufferInv, TypeOK, QueueType, TransmitMessage, NumberingInv, Injective
  <1>2. m \in Messages /\ outgoing' = t /\ UNCHANGED <<sent, culled, receipts>>
    BY <1>1 DEF TransmitMessage
  <1>3. Elements(outgoing)' = Elements(outgoing) \ {m} /\ m \in Elements(outgoing) /\ m \in sent
    <2>1. Elements(outgoing) = Elements(t) \cup {m} /\ m \notin Elements(t)
      BY <1>1, TailElements, TailInjective
    <2>2. Elements(outgoing)' = Elements(t) BY <1>2 DEF Elements
    <2>3. m \in sent BY <2>1 DEF ResendBufferInv, NumberingInv, Elements
    <2> QED BY <2>1, <2>2, <2>3
  <1>4. Unacknowledged' = IF IsReliable(m) THEN Unacknowledged \cup {m} ELSE Unacknowledged
    <2>1. CASE ~IsReliable(m)
      <3>1. resendBuffer' = resendBuffer BY <2>1 DEF TransmitMessage
      <3> QED BY <2>1, <3>1 DEF Unacknowledged
    <2>2. CASE IsReliable(m)
      <3>1. resendBuffer' = [resendBuffer EXCEPT ![s] = m] /\ resendBuffer[s] = None
        BY <2>2 DEF TransmitMessage, ResendBufferOverflow
      <3>2. resendBuffer \in [0 .. ResendBufferLength - 1 -> Messages \cup {None}]
        BY DEF ResendBufferInv, TypeOK, ResendType
      <3>3. s \in 0 .. ResendBufferLength - 1
        <4>1. Wire(sendIndex) \in Int BY WireRange, BoundsAssumption DEF ResendBufferInv, TypeOK, ResendType
        <4> QED BY <4>1, SlotRange
      <3> HIDE DEF m, s
      <3>4. \A i \in 0 .. ResendBufferLength - 1 :
              resendBuffer'[i] = IF i = s THEN m ELSE resendBuffer[i]
        BY <3>1, <3>2, <3>3
      <3>5. DOMAIN resendBuffer' = 0 .. ResendBufferLength - 1 BY <3>1, <3>2
      <3>6. m # None BY <1>2, NoneAssumption
      <3>7. ASSUME NEW x \in Unacknowledged' PROVE x \in Unacknowledged \cup {m}
        BY <3>2, <3>4, <3>5 DEF Unacknowledged
      <3>8. ASSUME NEW x \in Unacknowledged \cup {m} PROVE x \in Unacknowledged'
        BY <3>1, <3>2, <3>3, <3>4, <3>5, <3>6 DEF Unacknowledged
      <3> QED BY <2>2, <3>7, <3>8
    <2> QED BY <2>1, <2>2
  <1> DEFINE e == [datagram |-> nextDatagram, message |-> m]
  <1>5. receiptHistory' = IF Reliability[m] = "UnreliableWithAckReceipt" /\ m \notin culled
                          THEN receiptHistory \cup {e} ELSE receiptHistory
    BY DEF TransmitMessage
  <1>6. e.message = m OBVIOUS
  <1>7. receipts[m] = NoReceipt BY <1>2, <1>3 DEF ReceiptInv, GivenInv
  <1> HIDE DEF m, t, s, e
  <1>8. OwedInv'
    <2>1. \A r \in receiptHistory : r.message # m BY <1>3 DEF ReceiptInv, OwedInv
    <2>2. \A r \in receiptHistory' :
            /\ Reliability[r.message] = "UnreliableWithAckReceipt" /\ receipts[r.message] = NoReceipt
            /\ r.message \in sent /\ r.message \notin Elements(outgoing) \ {m}
      BY <1>3, <1>5, <1>6, <1>7 DEF ReceiptInv, OwedInv
    <2>3. \A r, x \in receiptHistory' : r.message = x.message => r = x
      BY <1>5, <1>6, <2>1 DEF ReceiptInv, OwedInv
    <2> QED BY <1>2, <1>3, <2>2, <2>3 DEF OwedInv
  <1>9. GivenInv'
    BY <1>2, <1>3, <1>4, <1>7 DEF ReceiptInv, GivenInv, Given, WantsReceipt, IsReliable
  <1>10. ReceiptKept'
    <2> SUFFICES ASSUME NEW x \in sent, WantsReceipt(x), x \notin culled, receipts[x] = NoReceipt,
                        x \notin Elements(outgoing)' \cup Unacknowledged'
                 PROVE  \E r \in receiptHistory' : r.message = x
      BY <1>2 DEF ReceiptKept, WantsReceipt
    <2>1. CASE x = m
      <3>1. ~IsReliable(m) BY <1>4, <2>1
      <3>2. Reliability[m] = "UnreliableWithAckReceipt" BY <2>1, <3>1 DEF IsReliable, WantsReceipt
      <3> QED BY <1>5, <1>6, <2>1, <3>2
    <2>2. CASE x # m
      <3>1. x \notin Elements(outgoing) \cup Unacknowledged BY <1>3, <1>4, <2>2
      <3> QED BY <1>5, <3>1 DEF ReceiptInv, ReceiptKept
    <2> QED BY <2>1, <2>2
  <1> QED BY <1>8, <1>9, <1>10 DEF ReceiptInv

(* An acknowledged message leaves the resend buffer with its receipt.      *)
LEMMA ReceiptAckMessage == ASSUME ResendBufferInv, ReceiptInv, AckMessage PROVE ReceiptInv'
  <1>1. UNCHANGED <<sent, outgoing, culled, receiptHistory>> BY DEF AckMessage, queueVars
  <1>2. Elements(outgoing)' = Elements(outgoing) BY <1>1 DEF Elements
  <1>3. \/ UNCHANGED <<resendBuffer, receipts>>
        \/ \E m \in Unacknowledged :
             /\ Unacknowledged' = Unacknowledged \ {m}
             /\ receipts' = IF WantsReceipt(m)
                            THEN [receipts EXCEPT ![m].ACKED = @ + 1] ELSE receipts
    BY AckMessageEffect DEF ResendBufferInv
  <1>4. CASE UNCHANGED <<resendBuffer, receipts>> BY <1>1, <1>4, ReceiptFrame
  <1>5. ASSUME NEW m \in Unacknowledged, Unacknowledged' = Unacknowledged \ {m},
               receipts' = IF WantsReceipt(m) THEN [receipts EXCEPT ![m].ACKED = @ + 1] ELSE receipts
        PROVE  ReceiptInv'
    <2>1. m \in Messages /\ IsReliable(m) /\ number[m] # -1
      BY UnacknowledgedNumber DEF ResendBufferInv
    <2>2. m \in sent /\ m \notin Elements(outgoing)
      BY <2>1 DEF ResendBufferInv, NumberingInv, Elements
    <2>3. receipts[m] = NoReceipt BY <1>5, <2>1 DEF ReceiptInv, GivenInv
    <2>4. receipts \in [Messages -> [ACKED : Nat, LOSS : Nat]]
      BY DEF ResendBufferInv, TypeOK, ReceiptType
    <2>5. \A x \in Messages : x # m => receipts'[x] = receipts[x] BY <1>5, <2>4
    <2>6. WantsReceipt(m) => receipts'[m] = [ACKED |-> 1, LOSS |-> 0]
      BY <1>5, <2>1, <2>3, <2>4 DEF NoReceipt
    <2>7. ~WantsReceipt(m) => receipts'[m] = NoReceipt BY <1>5, <2>3
    <2>8. OwedInv'
      <3>1. \A r \in receiptHistory : r.message # m /\ r.message \in Messages
        BY <2>1 DEF ReceiptInv, OwedInv, IsReliable, ResendBufferInv, TypeOK, ReceiptType
      <3> QED BY <1>1, <1>2, <2>5, <3>1 DEF ReceiptInv, OwedInv
    <2>9. GivenInv'
      <3> SUFFICES ASSUME NEW x \in Messages, receipts'[x] # NoReceipt
                   PROVE  /\ Given(receipts'[x]) /\ WantsReceipt(x) /\ x \in sent /\ x \notin Elements(outgoing)
                          /\ IsReliable(x) => receipts'[x].LOSS = 0 /\ x \notin Unacknowledged'
        BY <1>1, <1>2 DEF GivenInv, Given, WantsReceipt, IsReliable
      <3>1. CASE x = m BY <1>5, <2>2, <2>6, <2>7, <3>1 DEF Given
      <3>2. CASE x # m BY <1>5, <2>5, <3>2 DEF ReceiptInv, GivenInv
      <3> QED BY <3>1, <3>2
    <2>10. ReceiptKept'
      <3> SUFFICES ASSUME NEW x \in sent, WantsReceipt(x), x \notin culled, receipts'[x] = NoReceipt,
                          x \notin Elements(outgoing) \cup (Unacknowledged \ {m})
                   PROVE  \E r \in receiptHistory : r.message = x
        BY <1>1, <1>2, <1>5 DEF ReceiptKept, WantsReceipt
      <3>1. x # m BY <2>6 DEF NoReceipt
      <3>2. x \in Messages BY DEF ResendBufferInv, TypeOK, QueueType
      <3>3. receipts[x] = NoReceipt BY <2>5, <3>1, <3>2
      <3> QED BY <3>1, <3>3 DEF ReceiptInv, ReceiptKept
    <2> QED BY <2>8, <2>9, <2>10 DEF ReceiptInv
  <1> QED BY <1>3, <1>4, <1>5

-----------------------------------------------------------------------------
(* Every step keeps the receipts in order.                                 *)
LEMMA ReceiptStep == ResendBufferInv /\ ReceiptInv /\ [Next]_vars => ReceiptInv'
  <1> SUFFICES ASSUME ResendBufferInv, ReceiptInv, [Next]_vars PROVE ReceiptInv' OBVIOUS
  <1>0. TypeOK BY DEF ResendBufferInv
  <1>1. ASSUME NEW m \in Messages, Send(m) PROVE ReceiptInv' BY <1>0, <1>1, ReceiptSend
  <1>2. CASE UpdateBegin BY <1>0, <1>2, ReceiptUpdateBegin
  <1>3. CASE TransmitMessage BY <1>3, ReceiptTransmit
  <1>4. CASE AckMessage BY <1>4, ReceiptAckMessage
  <1>5. ASSUME NEW p \in ackNet, ReceiveAck(p) PROVE ReceiptInv' BY <1>0, <1>5, ReceiptReceiveAck
  <1>6. ASSUME NEW m \in Messages, Timeout(m) PROVE ReceiptInv'
    BY <1>6, ReceiptFrame DEF Timeout, queueVars, receiptVars
  <1>7. CASE AckTimeout BY <1>7, ReceiptFrame DEF AckTimeout, queueVars, resendVars, receiptVars
  <1>8. CASE ResendMessage BY <1>8, ReceiptFrame DEF ResendMessage, queueVars, receiptVars
  <1>9. CASE ResendDatagram \/ ResendDone
    BY <1>9, ReceiptFrame DEF ResendDatagram, ResendDone, queueVars, resendVars, receiptVars
  <1>10. CASE TransmitDatagram \/ UpdateEnd
    BY <1>10, ReceiptFrame DEF TransmitDatagram, UpdateEnd, queueVars, resendVars, receiptVars
  <1>11. ASSUME NEW p \in nakNet, ReceiveNak(p) PROVE ReceiptInv'
    BY <1>11, ReceiptFrame DEF ReceiveNak, queueVars, receiptVars
  <1>12. CASE UNCHANGED senderVars
    BY <1>12, ReceiptFrame DEF senderVars, queueVars, resendVars, receiptVars
  <1>13. ASSUME NEW d \in dataNet, ReceiveDatagram(d) PROVE UNCHANGED senderVars
    BY <1>13 DEF ReceiveDatagram
  <1>14. ParseMessage \/ SendACKs \/ Lose => UNCHANGED senderVars BY DEF ParseMessage, SendACKs, Lose
  <1>15. UNCHANGED vars => UNCHANGED senderVars BY DEF vars
  <1> QED BY <1>1, <1>2, <1>3, <1>4, <1>5, <1>6, <1>7, <1>8, <1>9, <1>10, <1>11, <1>12, <1>13,
             <1>14, <1>15 DEF Next, SenderLoop

(* The records of owed receipts, the receipts given and the messages kept  *)
(* agree at all times, for every mix of reliabilities.                     *)
THEOREM ReceiptsCorrect == Spec => []ReceiptInv
  BY ReceiptInit, ReceiptStep, ResendBufferCorrect, PTL DEF Spec

(* A receipt that was asked for is given, or its message or its record is  *)
(* still there (UpdateInternal, the ACK branch,                            *)
(* RemovePacketFromResendListAndDeleteOlderReliableSequenced).             *)
THEOREM ReceiptKeptAlways == Spec => []ReceiptKept
  <1>1. ReceiptInv => ReceiptKept BY DEF ReceiptInv
  <1> QED BY <1>1, ReceiptsCorrect, PTL

-----------------------------------------------------------------------------
(* What was delivered stays delivered, and an unreliable message is        *)
(* delivered when it is parsed.                                            *)
LEMMA ParseDelivers ==
  ASSUME TypeOK, ParseMessage
  PROVE  \E m \in Messages :
           /\ Elements(socketData) = Elements(socketData)' \cup {m}
           /\ ~IsReliable(m) => delivered'[m] > 0
           /\ \A x \in Messages : delivered[x] > 0 => delivered'[x] > 0
  <1>1. socketData \in Seq(Messages) /\ socketData # <<>> /\ delivered \in [Messages -> Nat]
    BY DEF TypeOK, ReceiverType, ParseMessage
  <1>2. PICK m \in Messages :
          m = Head(socketData) /\ Elements(socketData) = Elements(Tail(socketData)) \cup {m}
    BY <1>1, TailElements
  <1>3. Elements(socketData)' = Elements(Tail(socketData)) BY DEF ParseMessage, Elements
  <1>4. \/ delivered' = [delivered EXCEPT ![m] = @ + 1]
        \/ IsReliable(m) /\ UNCHANGED delivered
    <2>1. CASE ~IsReliable(m) BY <1>2, <2>1 DEF ParseMessage, Deliver
    <2>2. CASE IsReliable(m)
      <3>1. UNCHANGED delivered \/ Deliver(Head(socketData)) BY <1>2, <2>2 DEF ParseMessage
      <3> QED BY <1>2, <2>2, <3>1 DEF Deliver
    <2> QED BY <2>1, <2>2
  <1>5. ~IsReliable(m) => delivered'[m] > 0 BY <1>1, <1>4
  <1>6. \A x \in Messages : delivered[x] > 0 => delivered'[x] > 0 BY <1>1, <1>4
  <1> QED BY <1>2, <1>3, <1>5, <1>6

(* A step only of the receiver's parser changes what was delivered, and    *)
(* none takes it back.                                                     *)
LEMMA DeliveredStays ==
  ASSUME TypeOK, Next PROVE \A x \in Messages : delivered[x] > 0 => delivered'[x] > 0
  <1>1. ParseMessage \/ UNCHANGED delivered
    <2>1. \A m \in Messages : Send(m) \/ Timeout(m) => UNCHANGED delivered
      BY DEF Send, Timeout, receiverVars
    <2>2. UpdateBegin \/ AckTimeout => UNCHANGED delivered
      BY DEF UpdateBegin, AckTimeout, receiverVars
    <2>3. SenderLoop => UNCHANGED delivered
      BY DEF SenderLoop, ResendMessage, ResendDatagram, ResendDone, TransmitMessage, TransmitDatagram,
             UpdateEnd, AckMessage, receiverVars
    <2>4. \A p : ReceiveAck(p) \/ ReceiveNak(p) => UNCHANGED delivered
      BY DEF ReceiveAck, ReceiveNak, receiverVars
    <2>5. \A d : ReceiveDatagram(d) => UNCHANGED delivered BY DEF ReceiveDatagram
    <2>6. SendACKs \/ Lose => UNCHANGED delivered BY DEF SendACKs, Lose, receiverVars
    <2> QED BY <2>1, <2>2, <2>3, <2>4, <2>5, <2>6 DEF Next
  <1> QED BY <1>1, ParseDelivers

(* Which receipts a step gives as ACKED: none, those of a received         *)
(* acknowledgement, or that of a message the acknowledgement released.     *)
LEMMA AckedEffect ==
  ASSUME ResendBufferInv, ReceiptInv, Next, NEW m \in Messages
  PROVE  \/ receipts'[m].ACKED = receipts[m].ACKED
         \/ \E p \in ackNet, r \in receiptHistory :
              ReceiveAck(p) /\ r.message = m /\ Wire(r.datagram) \in {Wire(g) : g \in p}
         \/ m \in Unacknowledged /\ Wire(number[m]) \in ackWork /\ AckMessage
  <1>0. receipts \in [Messages -> [ACKED : Nat, LOSS : Nat]]
    BY DEF ResendBufferInv, TypeOK, ReceiptType
  <1>1. CASE UNCHANGED receipts BY <1>1
  <1>2. CASE UpdateBegin
    <2>1. PICK late \in SUBSET receiptHistory :
            receipts' = [x \in Messages |->
                           IF \E r \in late : r.message = x
                           THEN [receipts[x] EXCEPT !.LOSS = @ + 1] ELSE receipts[x]]
      BY <1>2 DEF UpdateBegin
    <2> QED BY <1>0, <2>1
  <1>3. ASSUME NEW p \in ackNet, ReceiveAck(p)
        PROVE  \/ receipts'[m].ACKED = receipts[m].ACKED
               \/ \E r \in receiptHistory : r.message = m /\ Wire(r.datagram) \in {Wire(g) : g \in p}
    <2> DEFINE acked == {r \in receiptHistory : Wire(r.datagram) \in {Wire(g) : g \in p}}
    <2>1. receipts' = [x \in Messages |->
                         IF \E r \in acked : r.message = x
                         THEN [receipts[x] EXCEPT !.ACKED = @ + 1] ELSE receipts[x]]
      BY <1>3 DEF ReceiveAck
    <2>2. CASE \E r \in acked : r.message = m BY <2>2
    <2>3. CASE ~(\E r \in acked : r.message = m)
      <3> HIDE DEF acked
      <3> QED BY <2>1, <2>3
    <2> QED BY <2>2, <2>3
  <1>4. CASE AckMessage
    <2>1. \/ UNCHANGED receipts
          \/ \E x \in Unacknowledged :
               /\ Wire(number[x]) \in ackWork
               /\ receipts' = IF WantsReceipt(x)
                              THEN [receipts EXCEPT ![x].ACKED = @ + 1] ELSE receipts
      BY <1>4, AckMessageEffect DEF ResendBufferInv
    <2> QED BY <1>0, <1>4, <2>1
  <1>5. \A x \in Messages : Send(x) \/ Timeout(x) => UNCHANGED receipts
    BY DEF Send, Timeout, receiptVars
  <1>6. AckTimeout \/ ResendMessage \/ ResendDatagram \/ ResendDone \/ TransmitMessage \/ TransmitDatagram
          \/ UpdateEnd => UNCHANGED receipts
    BY DEF AckTimeout, ResendMessage, ResendDatagram, ResendDone, TransmitMessage, TransmitDatagram,
           UpdateEnd, receiptVars
  <1>7. \A p : ReceiveNak(p) => UNCHANGED receipts BY DEF ReceiveNak, receiptVars
  <1>8. \A d : ReceiveDatagram(d) => UNCHANGED receipts BY DEF ReceiveDatagram, senderVars, receiptVars
  <1>9. ParseMessage \/ SendACKs \/ Lose => UNCHANGED receipts
    BY DEF ParseMessage, SendACKs, Lose, senderVars, receiptVars
  <1> QED BY <1>1, <1>2, <1>3, <1>4, <1>5, <1>6, <1>7, <1>8, <1>9 DEF Next, SenderLoop

(* While every number is assigned, no receipt is owed under a datagram,    *)
(* and a message is acknowledged only when it was delivered.               *)
LEMMA AckedStep ==
  ASSUME NumbersAssigned, DeliveryInv, ReceiptInv, \A m \in Messages : AckedTruly(m), [Next]_vars
  PROVE  \A m \in Messages : AckedTruly(m)'
  <1>1. Consistent BY DEF DeliveryInv
  <1>2. receiptHistory = {}
    BY <1>1 DEF NumbersAssigned, ReceiptInv, OwedInv, Consistent, ResendBufferInv, TypeOK, ReceiptType
  <1>3. CASE Next
    <2> SUFFICES ASSUME NEW m \in Messages PROVE AckedTruly(m)' OBVIOUS
    <2>1. delivered[m] > 0 => delivered'[m] > 0
      BY <1>1, <1>3, DeliveredStays DEF Consistent, ResendBufferInv
    <2>2. \/ receipts'[m].ACKED = receipts[m].ACKED
          \/ m \in Unacknowledged /\ Wire(number[m]) \in ackWork
      BY <1>1, <1>2, <1>3, AckedEffect DEF Consistent
    <2>3. m \in Unacknowledged /\ Wire(number[m]) \in ackWork => delivered[m] > 0
      BY <1>1 DEF Consistent, AckInv
    <2> QED BY <2>1, <2>2, <2>3 DEF AckedTruly
  <1>4. CASE UNCHANGED vars BY <1>4 DEF AckedTruly, vars, senderVars, receiptVars, receiverVars
  <1> QED BY <1>3, <1>4

(* A message gets at most one receipt, only when it asked for one, and     *)
(* never LOSS when it is reliable.                                         *)
LEMMA OneReceipt ==
  ASSUME ReceiptInv, NEW m \in Messages
  PROVE  /\ receipts[m].ACKED + receipts[m].LOSS <= (IF WantsReceipt(m) THEN 1 ELSE 0)
         /\ receipts[m].LOSS > 0 => ~IsReliable(m)
  <1>1. CASE receipts[m] = NoReceipt BY <1>1 DEF NoReceipt
  <1>2. CASE receipts[m] # NoReceipt
    <2>1. Given(receipts[m]) /\ WantsReceipt(m) /\ (IsReliable(m) => receipts[m].LOSS = 0)
      BY <1>2 DEF ReceiptInv, GivenInv
    <2> QED BY <2>1 DEF Given
  <1> QED BY <1>1, <1>2

(* Receipts tell the truth while no message is sent with                   *)
(* UNRELIABLE_WITH_ACK_RECEIPT: an ACKED receipt means the message was     *)
(* delivered, each message gets one at most and a reliable one never LOSS. *)
THEOREM ReceiptsTruthfulAlways == ASSUME NumbersAssigned PROVE Spec => []ReceiptsTruthful
  <1> DEFINE Truth == \A m \in Messages : AckedTruly(m)
  <1>1. Init => Truth BY DEF Init, AckedTruly, NoReceipt
  <1>2. DeliveryInv /\ ReceiptInv /\ Truth /\ [Next]_vars => Truth'
    <2> SUFFICES ASSUME DeliveryInv, ReceiptInv, Truth, [Next]_vars PROVE Truth' OBVIOUS
    <2>1. \A m \in Messages : AckedTruly(m)' BY AckedStep
    <2> QED BY <2>1
  <1>3. ReceiptInv /\ Truth => ReceiptsTruthful
    BY OneReceipt DEF ReceiptsTruthful, AckedTruly
  <1> HIDE DEF Truth
  <1> QED BY <1>1, <1>2, <1>3, ReceiptsCorrect, DeliveryCorrect, PTL DEF Spec

-----------------------------------------------------------------------------
(* Unreliable messages, in any mix.                                        *)

(* Initially nothing travels.                                              *)
LEMMA TruthInit == Init => TruthInv
  BY DEF Init, TruthInv, TravelInv, RecordInv, UnreliableTruth, AckedTruly, NoReceipt

(* A step that takes packets and records away, and adds to the datagram    *)
(* being filled at most.                                                   *)
LEMMA RecordsShrink ==
  ASSUME TravelInv, RecordInv, receiptHistory' \subseteq receiptHistory,
         dataNet' \subseteq dataNet, ackNet' \subseteq ackNet,
         Elements(datagram) \subseteq Elements(datagram)',
         UNCHANGED <<nextDatagram, acknowlegements, socketData, delivered>>
  PROVE  TravelInv' /\ RecordInv'
  <1>1. TravelInv' BY DEF TravelInv, Recent, Fresh
  <1>2. RecordInv'
    <2> SUFFICES ASSUME NEW r \in receiptHistory'
                 PROVE  /\ r.datagram <= nextDatagram
                        /\ r.datagram = nextDatagram => r.message \in Elements(datagram)'
                        /\ \A d \in dataNet' : d.number = r.datagram => r.message \in Elements(d.messages)
                        /\ r.datagram \in acknowlegements =>
                             delivered[r.message] > 0 \/ r.message \in Elements(socketData)
                        /\ \A p \in ackNet' : r.datagram \in p => delivered[r.message] > 0
      BY DEF RecordInv, Elements
    <2>1. r \in receiptHistory OBVIOUS
    <2> QED BY <2>1 DEF RecordInv
  <1> QED BY <1>1, <1>2

(* The message taken from the queue is recorded under the number of the    *)
(* datagram it is put into.                                                *)
LEMMA RecordsTransmit ==
  ASSUME TypeOK, TravelInv, RecordInv, TransmitMessage PROVE TravelInv' /\ RecordInv'
  <1>1. /\ outgoing \in Seq(Messages) /\ outgoing # <<>> /\ datagram \in Seq(Messages)
        /\ nextDatagram \in Nat
    BY DEF TypeOK, QueueType, UpdateType, HistoryType, TransmitMessage
  <1>2. PICK m \in Messages : m = Head(outgoing) BY <1>1
  <1>3. Elements(Append(datagram, m)) = Elements(datagram) \cup {m} BY <1>1, AppendElements
  <1>4. UNCHANGED <<nextDatagram, dataNet, ackNet, acknowlegements, socketData, delivered>>
    BY DEF TransmitMessage, historyVars, receiverVars, netVars
  <1>5. /\ Elements(datagram) \subseteq Elements(datagram)'
        /\ m \notin culled => m \in Elements(datagram)'
    <2>1. datagram' = IF m \in culled THEN datagram ELSE Append(datagram, m)
      BY <1>2 DEF TransmitMessage
    <2>2. Elements(datagram)' = Elements(datagram') BY DEF Elements
    <2> QED BY <1>3, <2>1, <2>2
  <1>6. TravelInv' BY <1>4 DEF TravelInv, Recent, Fresh
  <1>7. RecordInv'
    <2> SUFFICES ASSUME NEW r \in receiptHistory'
                 PROVE  /\ r.datagram <= nextDatagram
                        /\ r.datagram = nextDatagram => r.message \in Elements(datagram)'
                        /\ \A d \in dataNet : d.number = r.datagram => r.message \in Elements(d.messages)
                        /\ r.datagram \in acknowlegements =>
                             delivered[r.message] > 0 \/ r.message \in Elements(socketData)
                        /\ \A p \in ackNet : r.datagram \in p => delivered[r.message] > 0
      BY <1>4 DEF RecordInv, Elements
    <2>1. CASE r \in receiptHistory BY <1>5, <2>1 DEF RecordInv
    <2>2. CASE r \notin receiptHistory
      <3>1. r = [datagram |-> nextDatagram, message |-> m] /\ m \notin culled
        BY <1>2, <2>2 DEF TransmitMessage
      <3>2. r.datagram = nextDatagram /\ r.message = m BY <3>1
      <3>3. \A g : Recent(g) => g # nextDatagram BY <1>1 DEF Recent
      <3> QED BY <1>1, <1>5, <3>1, <3>2, <3>3 DEF TravelInv
    <2> QED BY <2>1, <2>2
  <1> QED BY <1>6, <1>7

(* A datagram leaves with the messages recorded under its number.          *)
LEMMA RecordsEmit ==
  ASSUME TypeOK, TravelInv, RecordInv, EmitDatagram, UNCHANGED <<receiptVars, receiverVars>>
  PROVE  TravelInv' /\ RecordInv'
  <1>1. /\ nextDatagram \in Nat /\ acknowlegements \subseteq Nat /\ \A p \in ackNet : p \subseteq Nat
        /\ \A d \in dataNet : d.number \in Nat
        /\ \A r \in receiptHistory : r.datagram \in Nat
    BY DEF TypeOK, HistoryType, ReceiverType, NetType, ReceiptType, Datagrams
  <1>2. PICK e : e.number = nextDatagram /\ e.messages = datagram /\ dataNet' \subseteq dataNet \cup {e}
    <2> DEFINE e == [number |-> nextDatagram, messages |-> datagram]
    <2>1. dataNet' \subseteq dataNet \cup {e} BY DEF EmitDatagram
    <2>2. e.number = nextDatagram /\ e.messages = datagram OBVIOUS
    <2> HIDE DEF e
    <2> QED BY <2>1, <2>2
  <1>3. /\ nextDatagram' = nextDatagram + 1 /\ ackNet' \subseteq ackNet
        /\ \A d \in dataNet' : Fresh(d.number, nextDatagram + 1)
        /\ \A g \in acknowlegements : Fresh(g, nextDatagram + 1)
        /\ \A p \in ackNet' : \A g \in p : Fresh(g, nextDatagram + 1)
    BY DEF EmitDatagram, FreshDatagram, FreshPacket
  <1>4. UNCHANGED <<receiptHistory, acknowlegements, socketData, delivered>>
    BY DEF receiptVars, receiverVars
  <1>5. \A g \in Nat : g < nextDatagram + 1 /\ Fresh(g, nextDatagram + 1) => Recent(g)'
    BY <1>1, <1>3 DEF Recent, Fresh
  <1>6. \A g \in Nat : Recent(g) => g < nextDatagram + 1 BY <1>1 DEF Recent
  <1>7. TravelInv'
    <2>1. ASSUME NEW d \in dataNet' PROVE Recent(d.number)'
      <3>1. CASE d \in dataNet BY <1>1, <1>3, <1>5, <1>6, <3>1 DEF TravelInv
      <3>2. CASE d = e BY <1>1, <1>2, <1>3, <1>5, <3>2
      <3> QED BY <1>2, <3>1, <3>2
    <2>2. ASSUME NEW g \in acknowlegements PROVE Recent(g)'
      BY <1>1, <1>3, <1>5, <1>6 DEF TravelInv
    <2>3. ASSUME NEW p \in ackNet', NEW g \in p PROVE Recent(g)'
      <3>1. p \in ackNet /\ g \in Nat BY <1>1, <1>3
      <3> QED BY <1>3, <1>5, <1>6, <3>1 DEF TravelInv
    <2> QED BY <1>4, <2>1, <2>2, <2>3 DEF TravelInv
  <1>8. RecordInv'
    <2> SUFFICES ASSUME NEW r \in receiptHistory
                 PROVE  /\ r.datagram <= nextDatagram + 1 /\ r.datagram # nextDatagram + 1
                        /\ \A d \in dataNet' : d.number = r.datagram => r.message \in Elements(d.messages)
                        /\ r.datagram \in acknowlegements =>
                             delivered[r.message] > 0 \/ r.message \in Elements(socketData)
                        /\ \A p \in ackNet' : r.datagram \in p => delivered[r.message] > 0
      BY <1>3, <1>4 DEF RecordInv, Elements
    <2>1. r.datagram <= nextDatagram /\ r.datagram \in Nat BY <1>1 DEF RecordInv
    <2>2. ASSUME NEW d \in dataNet', d.number = r.datagram PROVE r.message \in Elements(d.messages)
      <3>1. CASE d \in dataNet BY <2>2, <3>1 DEF RecordInv
      <3>2. CASE d = e BY <1>2, <2>2, <3>2 DEF RecordInv
      <3> QED BY <1>2, <3>1, <3>2
    <2>3. /\ r.datagram \in acknowlegements =>
               delivered[r.message] > 0 \/ r.message \in Elements(socketData)
          /\ \A p \in ackNet' : r.datagram \in p => delivered[r.message] > 0
      BY <1>3 DEF RecordInv
    <2> QED BY <1>1, <2>1, <2>2, <2>3
  <1> QED BY <1>7, <1>8

(* A received datagram is acknowledged, and its messages are about to be   *)
(* parsed.                                                                 *)
LEMMA RecordsReceive ==
  ASSUME TypeOK, TravelInv, RecordInv, NEW d \in dataNet, ReceiveDatagram(d)
  PROVE  TravelInv' /\ RecordInv'
  <1>1. /\ UNCHANGED <<receiptHistory, nextDatagram, datagram, ackNet, delivered>>
        /\ socketData = <<>> /\ dataNet' \subseteq dataNet
    BY DEF ReceiveDatagram, senderVars, receiptVars, historyVars, updateVars, Consume
  <1>2. \/ UNCHANGED <<acknowlegements, socketData>>
        \/ acknowlegements' = acknowlegements \cup {d.number} /\ socketData' = d.messages
    BY DEF ReceiveDatagram
  <1>3. TravelInv' BY <1>1, <1>2 DEF TravelInv, Recent, Fresh
  <1>4. Elements(socketData) = {} BY <1>1 DEF Elements
  <1>5. ASSUME NEW r \in receiptHistory, r.datagram \in acknowlegements'
        PROVE  delivered[r.message] > 0 \/ r.message \in Elements(socketData')
    <2>1. CASE r.datagram \in acknowlegements BY <1>4, <2>1 DEF RecordInv
    <2>2. CASE r.datagram \notin acknowlegements
      <3>1. d.number = r.datagram /\ socketData' = d.messages BY <1>2, <1>5, <2>2
      <3> QED BY <3>1 DEF RecordInv
    <2> QED BY <2>1, <2>2
  <1>6. RecordInv'
    <2>1. Elements(socketData)' = Elements(socketData') /\ Elements(datagram)' = Elements(datagram)
      BY <1>1 DEF Elements
    <2> QED BY <1>1, <1>5, <2>1 DEF RecordInv, Elements
  <1> QED BY <1>3, <1>6

(* Parsing delivers the unreliable messages of the datagram.               *)
LEMMA RecordsParse ==
  ASSUME TypeOK, ReceiptInv, TravelInv, RecordInv, ParseMessage PROVE TravelInv' /\ RecordInv'
  <1>1. UNCHANGED <<receiptHistory, nextDatagram, datagram, dataNet, ackNet, acknowlegements>>
    BY DEF ParseMessage, senderVars, receiptVars, historyVars, updateVars, netVars
  <1>2. PICK m \in Messages :
           /\ Elements(socketData) = Elements(socketData)' \cup {m}
           /\ ~IsReliable(m) => delivered'[m] > 0
           /\ \A x \in Messages : delivered[x] > 0 => delivered'[x] > 0
    BY ParseDelivers
  <1>3. \A r \in receiptHistory : r.message \in Messages /\ ~IsReliable(r.message)
    BY DEF TypeOK, ReceiptType, ReceiptInv, OwedInv, IsReliable
  <1>4. TravelInv' BY <1>1 DEF TravelInv, Recent, Fresh
  <1>5. RecordInv'
    <2> SUFFICES ASSUME NEW r \in receiptHistory
                 PROVE  /\ r.datagram \in acknowlegements =>
                             delivered'[r.message] > 0 \/ r.message \in Elements(socketData)'
                        /\ \A p \in ackNet : r.datagram \in p => delivered'[r.message] > 0
      BY <1>1 DEF RecordInv, Elements
    <2> QED BY <1>2, <1>3 DEF RecordInv
  <1> QED BY <1>4, <1>5

(* The acknowledgements leave once everything was parsed.                  *)
LEMMA RecordsSendACKs ==
  ASSUME TypeOK, TravelInv, RecordInv, SendACKs PROVE TravelInv' /\ RecordInv'
  <1>1. /\ UNCHANGED <<receiptHistory, nextDatagram, datagram, dataNet, socketData, delivered>>
        /\ socketData = <<>> /\ ackNet' \subseteq ackNet \cup {acknowlegements} /\ acknowlegements' = {}
    BY DEF SendACKs, senderVars, receiptVars, historyVars, updateVars
  <1>2. TravelInv' BY <1>1 DEF TravelInv, Recent, Fresh
  <1>3. Elements(socketData) = {} BY <1>1 DEF Elements
  <1>4. ASSUME NEW r \in receiptHistory, NEW p \in ackNet', r.datagram \in p
        PROVE  delivered[r.message] > 0
    BY <1>1, <1>3, <1>4 DEF RecordInv
  <1>5. RecordInv' BY <1>1, <1>4 DEF RecordInv, Elements
  <1> QED BY <1>2, <1>5

(* What each step does to the records and to what travels.                 *)
LEMMA RecordsStep ==
  ASSUME TypeOK, ReceiptInv, TravelInv, RecordInv, Next PROVE TravelInv' /\ RecordInv'
  <1>1. CASE TransmitMessage BY <1>1, RecordsTransmit
  <1>2. CASE ResendDatagram \/ TransmitDatagram
    BY <1>2, RecordsEmit DEF ResendDatagram, TransmitDatagram
  <1>3. ASSUME NEW d \in dataNet, ReceiveDatagram(d) PROVE TravelInv' /\ RecordInv'
    BY <1>3, RecordsReceive
  <1>4. CASE ParseMessage BY <1>4, RecordsParse
  <1>5. CASE SendACKs BY <1>5, RecordsSendACKs
  <1>6. CASE ResendMessage
    <2>1. Elements(datagram)' = Elements(datagram) \cup {Head(resendList)}
      <3>1. Head(resendList) \in Messages /\ datagram \in Seq(Messages)
        BY <1>6 DEF TypeOK, ResendType, UpdateType, ResendMessage, HeadIsDue
      <3>2. datagram' = Append(datagram, Head(resendList)) BY <1>6 DEF ResendMessage
      <3>3. Elements(datagram') = Elements(datagram) \cup {Head(resendList)}
        BY <3>1, <3>2, AppendElements
      <3> QED BY <3>3 DEF Elements
    <2> QED BY <1>6, <2>1, RecordsShrink DEF ResendMessage, receiptVars, historyVars, receiverVars, netVars
  <1> DEFINE Same == UNCHANGED <<datagram, nextDatagram, acknowlegements, socketData, delivered>>
             Less == /\ receiptHistory' \subseteq receiptHistory /\ dataNet' \subseteq dataNet
                     /\ ackNet' \subseteq ackNet
  <1>7. CASE Same /\ Less
    <2>1. Elements(datagram) \subseteq Elements(datagram)' BY <1>7 DEF Elements
    <2> QED BY <1>7, <2>1, RecordsShrink
  <1>8. \A m \in Messages : Send(m) \/ Timeout(m) => Same /\ Less
    BY DEF Send, Timeout, updateVars, historyVars, receiptVars, receiverVars, netVars
  <1>9. UpdateBegin => Same /\ Less
    BY DEF UpdateBegin, Unreported, historyVars, receiverVars, netVars
  <1>10. AckTimeout \/ ResendDone \/ UpdateEnd \/ AckMessage => Same /\ Less
    BY DEF AckTimeout, ResendDone, UpdateEnd, AckMessage, updateVars, historyVars, receiptVars,
           receiverVars, netVars
  <1>11. \A p : ReceiveAck(p) => Same /\ Less
    BY DEF ReceiveAck, Unreported, Consume, receiverVars
  <1>12. \A p : ReceiveNak(p) => Same /\ Less
    BY DEF ReceiveNak, updateVars, historyVars, receiptVars, receiverVars
  <1>13. Lose => Same /\ Less
    BY DEF Lose, senderVars, updateVars, historyVars, receiptVars, receiverVars
  <1> HIDE DEF Same, Less
  <1> QED BY <1>1, <1>2, <1>3, <1>4, <1>5, <1>6, <1>7, <1>8, <1>9, <1>10, <1>11, <1>12, <1>13
          DEF Next, SenderLoop

(* An acknowledgement names the datagram a receipt is recorded under by    *)
(* its own number, never by that of another round.                         *)
LEMMA AckNamesRecord ==
  ASSUME TypeOK, TravelInv, RecordInv, ReceiptsTimely, NEW r \in receiptHistory,
         NEW p \in ackNet, Wire(r.datagram) \in {Wire(g) : g \in p}
  PROVE  r.datagram \in p
  <1>1. PICK g \in p : Wire(r.datagram) = Wire(g) OBVIOUS
  <1>2. /\ nextDatagram \in Nat /\ g \in Nat /\ r.datagram \in Nat
        /\ NumberSpan \in Nat \ {0} /\ Lifetime \in Nat /\ 2 * Lifetime <= NumberSpan
    <2>1. NumberSpan \in Nat \ {0} /\ Lifetime \in Nat /\ 2 * Lifetime <= NumberSpan
      BY BoundsAssumption, SpanAssumption
    <2>2. p \in SUBSET Nat BY DEF TypeOK, NetType
    <2>3. nextDatagram \in Nat /\ r.datagram \in Nat BY DEF TypeOK, HistoryType, ReceiptType
    <2> QED BY <2>1, <2>2, <2>3
  <1>3. g < nextDatagram /\ nextDatagram - g <= Lifetime BY DEF TravelInv, Recent, Fresh
  <1>4. r.datagram <= nextDatagram /\ nextDatagram - r.datagram <= NumberSpan
    BY DEF RecordInv, ReceiptsTimely
  <1>5. r.datagram - g \in 1 - NumberSpan .. NumberSpan - 1 BY <1>2, <1>3, <1>4
  <1>6. r.datagram = g BY <1>1, <1>2, <1>5, WireEqual
  <1> QED BY <1>6

(* Every step keeps the receipts of unreliable messages truthful, while    *)
(* receipts are settled in time.                                           *)
LEMMA TruthStep ==
  ResendBufferInv /\ ReceiptInv /\ ReceiptsTimely /\ TruthInv /\ [Next]_vars => TruthInv'
  <1> SUFFICES ASSUME ResendBufferInv, ReceiptInv, ReceiptsTimely, TruthInv, [Next]_vars PROVE TruthInv'
    OBVIOUS
  <1>0. TypeOK BY DEF ResendBufferInv
  <1>1. CASE Next
    <2>1. TravelInv' /\ RecordInv' BY <1>0, <1>1, RecordsStep DEF TruthInv
    <2>2. ASSUME NEW m \in Messages, ~IsReliable(m) PROVE AckedTruly(m)'
      <3>1. delivered[m] > 0 => delivered'[m] > 0 BY <1>0, <1>1, DeliveredStays
      <3>2. CASE receipts'[m].ACKED = receipts[m].ACKED
        BY <2>2, <3>1, <3>2 DEF TruthInv, UnreliableTruth, AckedTruly
      <3>3. ASSUME NEW p \in ackNet, NEW r \in receiptHistory, r.message = m,
                   Wire(r.datagram) \in {Wire(g) : g \in p}
            PROVE  AckedTruly(m)'
        <4>1. r.datagram \in p BY <1>0, <3>3, AckNamesRecord DEF TruthInv
        <4>2. delivered[m] > 0 BY <3>3, <4>1 DEF TruthInv, RecordInv
        <4> QED BY <3>1, <4>2 DEF AckedTruly
      <3>4. CASE m \in Unacknowledged BY <2>2, <3>4, UnacknowledgedNumber
      <3> QED BY <1>1, <3>2, <3>3, <3>4, AckedEffect
    <2>3. UnreliableTruth' BY <2>2 DEF UnreliableTruth, IsReliable
    <2> QED BY <2>1, <2>3 DEF TruthInv
  <1>2. CASE UNCHANGED vars
    <2>1. /\ UNCHANGED <<receiptHistory, receipts, nextDatagram, datagram, dataNet, ackNet,
                         acknowlegements, socketData, delivered>>
      BY <1>2 DEF vars, senderVars, updateVars, historyVars, receiptVars, receiverVars, netVars
    <2>2. Elements(datagram)' = Elements(datagram) BY <2>1 DEF Elements
    <2>3. TravelInv' /\ RecordInv' BY <2>1, <2>2, RecordsShrink DEF TruthInv
    <2>4. UnreliableTruth' BY <2>1 DEF TruthInv, UnreliableTruth, AckedTruly, IsReliable
    <2> QED BY <2>3, <2>4 DEF TruthInv
  <1> QED BY <1>1, <1>2

(* ACKED for an UNRELIABLE_WITH_ACK_RECEIPT message is true in any mix of  *)
(* reliabilities, as long as a receipt is settled before 2^24 further      *)
(* datagrams have left.                                                    *)
THEOREM UnreliableReceiptsTruthful == Spec /\ []ReceiptsTimely => []UnreliableTruth
  <1>1. TruthInv => UnreliableTruth BY DEF TruthInv
  <1> QED BY <1>1, TruthInit, TruthStep, ReceiptsCorrect, ResendBufferCorrect, PTL DEF Spec
=============================================================================
