-------------------------- MODULE ReliabilityLayer --------------------------
(***************************************************************************)
(* The acknowledgement, retransmission and duplicate-removal core of       *)
(* ReliabilityLayer (Source/src/reliability_layer.cpp), one direction of   *)
(* one connection: the peer that sends, the UDP path, the peer that        *)
(* receives.  Ordering, splitting and congestion control are other         *)
(* modules.                                                                *)
(*                                                                         *)
(* Datagram and message numbers are uint24_t in the program.  The model    *)
(* keeps the unwrapped number, and every comparison the code makes goes    *)
(* through Wire, Sub and GreaterThan, which work modulo NumberSpan.        *)
(***************************************************************************)
EXTENDS Integers, Sequences, FiniteSets

CONSTANTS
  Messages,            \* what the application hands to Send, each one once
  None,                \* an empty slot of resendBuffer
  Reliability,         \* Messages -> Reliabilities
  NumberSpan,          \* 2^24, the range of uint24_t
  ResendBufferLength,  \* RESEND_BUFFER_ARRAY_LENGTH
  HistoryLength,       \* DATAGRAM_MESSAGE_ID_ARRAY_LENGTH
  MaxPerDatagram,      \* how many messages the MTU lets into one datagram
  NakLimit,            \* 1000: most datagrams one arrival may report missing
  SkipLimit,           \* 50000: a larger jump of the datagram number is refused
  HoleLimit,           \* 1000000: a larger jump of the message number is refused
  Start,               \* numbers used up before the modelled stretch begins
  Lifetime,            \* a packet and its acknowledgement take fewer sends than this
  MaxFaults            \* losses, duplications, overtakings and early timeouts

Reliabilities == {"Unreliable", "UnreliableWithAckReceipt",
                  "Reliable", "ReliableWithAckReceipt"}

ASSUME ReliabilityAssumption == Reliability \in [Messages -> Reliabilities]
ASSUME NoneAssumption == None \notin Messages
ASSUME BoundsAssumption ==
  /\ NumberSpan \in Nat /\ ResendBufferLength \in Nat \ {0}
  /\ HistoryLength \in Nat /\ MaxPerDatagram \in Nat \ {0}
  /\ NakLimit \in Nat /\ SkipLimit \in Nat /\ HoleLimit \in Nat
  /\ Start \in Nat /\ Lifetime \in Nat /\ MaxFaults \in Nat
(* The masks of the code are powers of two, and the windows are small next *)
(* to the 2^24 numbers.                                                    *)
ASSUME SpanAssumption ==
  /\ NumberSpan % ResendBufferLength = 0
  /\ 2 * ResendBufferLength <= NumberSpan
  /\ 2 * Lifetime <= NumberSpan
  /\ Lifetime + HistoryLength + 1 <= NumberSpan
  /\ (Lifetime + 1) * MaxPerDatagram + ResendBufferLength <= NumberSpan
  /\ ResendBufferLength <= HoleLimit + 1

VARIABLES
  (* the sending peer *)
  sent,            \* messages Send accepted
  outgoing,        \* outgoingPacketBuffer
  culled,          \* tombstones: messages whose data the unreliable timeout freed
  number,          \* InternalPacket::reliableMessageNumber, -1 until assigned
  sendIndex,       \* sendReliableMessageNumberIndex
  resendBuffer,    \* the array of unacknowledged messages
  resendList,      \* the same messages, in the order of resendLinkedListHead
  due,             \* unacknowledged messages whose nextActionTime has passed
  phase,           \* where UpdateInternal or the ACK loop stands
  datagram,        \* packetsToSendThisUpdate since the last boundary
  ackWork,         \* message numbers of the acknowledged datagrams still to clear
  nextDatagram,    \* CCRakNetSlidingWindow::nextDatagramSequenceNumber
  popCount,        \* datagramHistoryPopCount
  history,         \* datagramHistory: the message numbers of each datagram
  receiptHistory,  \* unreliableWithAckReceiptHistory
  receipts,        \* receipts handed to the application, per message
  deadConnection,
  (* the receiving peer *)
  expected,        \* CCRakNetSlidingWindow::expectedNextSequenceNumber
  acknowlegements, \* datagrams to acknowledge
  NAKs,            \* datagrams to report missing
  socketData,      \* messages of the datagram being parsed
  base,            \* receivedPacketsBaseIndex
  hasReceived,     \* hasReceivedPacketQueue: TRUE marks a hole
  delivered,       \* how often each message reached outputQueue
  (* the path *)
  dataNet, ackNet, nakNet,
  lastSent,        \* the last datagram that carried each message
  faults

updateVars == <<phase, datagram>>
queueVars == <<sent, outgoing, culled>>
resendVars == <<number, sendIndex, resendBuffer, resendList, due>>
historyVars == <<nextDatagram, popCount, history>>
receiptVars == <<receiptHistory, receipts>>
receiverVars == <<expected, acknowlegements, NAKs, socketData, base, hasReceived, delivered>>
netVars == <<dataNet, ackNet, nakNet, lastSent, faults>>
senderVars == <<updateVars, queueVars, resendVars, historyVars, receiptVars, ackWork, deadConnection>>
vars == <<senderVars, receiverVars, netVars>>

-----------------------------------------------------------------------------
(* 24-bit arithmetic.                                                      *)

Unwrapped(n) == n
Wire(n) == n % NumberSpan
Sub(a, b) == (a - b) % NumberSpan
HalfSpan == (NumberSpan - 1) \div 2
GreaterThan(a, b) == b # a /\ Sub(b, a) > HalfSpan
Slot(w) == w % ResendBufferLength

Elements(s) == {s[i] : i \in DOMAIN s}
Without(s, i) == [j \in 1 .. Len(s) - 1 |-> IF j < i THEN s[j] ELSE s[j + 1]]

IsReliable(m) == Reliability[m] \in {"Reliable", "ReliableWithAckReceipt"}
WantsReceipt(m) == Reliability[m] \in {"UnreliableWithAckReceipt", "ReliableWithAckReceipt"}

NoReceipt == [ACKED |-> 0, LOSS |-> 0]
Datagrams == [number : Nat, messages : Seq(Messages)]
Unacknowledged == {resendBuffer[i] : i \in DOMAIN resendBuffer} \ {None}
NeverOverflow == FALSE
ResendBufferOverflow == resendBuffer[Slot(Wire(sendIndex))] # None

-----------------------------------------------------------------------------
Init ==
  /\ sent = {} /\ outgoing = <<>> /\ culled = {}
  /\ number = [m \in Messages |-> -1]
  /\ sendIndex = Start
  /\ resendBuffer = [i \in 0 .. ResendBufferLength - 1 |-> None]
  /\ resendList = <<>> /\ due = {}
  /\ phase = "idle" /\ datagram = <<>> /\ ackWork = {}
  /\ nextDatagram = Start
  /\ history = [i \in 1 .. (IF Start <= HistoryLength THEN Start ELSE HistoryLength + 1) |-> {}]
  /\ popCount = Start - Len(history)
  /\ receiptHistory = {} /\ receipts = [m \in Messages |-> NoReceipt]
  /\ deadConnection = FALSE
  /\ expected = Start /\ acknowlegements = {} /\ NAKs = {}
  /\ socketData = <<>> /\ base = Start /\ hasReceived = <<>>
  /\ delivered = [m \in Messages |-> 0]
  /\ dataNet = {} /\ ackNet = {} /\ nakNet = {}
  /\ lastSent = [m \in Messages |-> -1] /\ faults = 0

-----------------------------------------------------------------------------
(* The sending peer.                                                       *)

(* ReliabilityLayer::Send of a message that needs no split: it joins       *)
(* outgoingPacketBuffer without a message number.                          *)
Send(m) ==
  /\ phase = "idle" /\ ~deadConnection /\ m \notin sent
  /\ sent' = sent \cup {m}
  /\ outgoing' = Append(outgoing, m)
  /\ UNCHANGED <<culled, updateVars, resendVars, historyVars, receiptVars, ackWork,
                 deadConnection, receiverVars, netVars>>

(* The receipts still owed once the given ones were reported.              *)
UnreportedAll(reported) == receiptHistory
UnreportedNone(reported) == {}
Unreported(reported) == receiptHistory \ reported

(* The part of UpdateInternal before the send loops.  The unreliable       *)
(* timeout frees the oldest queued unreliable messages, receipts whose     *)
(* timer ran out report LOSS, and the loops run if there is anything to    *)
(* send or resend.                                                         *)
UpdateBegin ==
  /\ phase = "idle" /\ ~deadConnection
  /\ \E k \in 0 .. Len(outgoing), late \in SUBSET receiptHistory :
       /\ culled' = culled \cup {outgoing[i] : i \in {j \in 1 .. k : ~IsReliable(outgoing[j])}}
       /\ receiptHistory' = Unreported(late)
       /\ receipts' = [m \in Messages |->
                         IF \E r \in late : r.message = m
                         THEN [receipts[m] EXCEPT !.LOSS = @ + 1] ELSE receipts[m]]
  /\ phase' = IF resendList # <<>> \/ outgoing # <<>> THEN "resend" ELSE "idle"
  /\ UNCHANGED <<sent, outgoing, datagram, resendVars, historyVars, ackWork, deadConnection,
                 receiverVars, netVars>>

(* AckTimeout: nothing arrived for timeoutTime while messages wait for an  *)
(* acknowledgement; UpdateInternal gives the connection up and returns.    *)
AckTimeout ==
  /\ phase = "idle" /\ ~deadConnection
  /\ resendList # <<>> /\ faults < MaxFaults
  /\ deadConnection' = TRUE
  /\ faults' = faults + 1
  /\ UNCHANGED <<updateVars, queueVars, resendVars, historyVars, receiptVars, ackWork,
                 receiverVars, dataNet, ackNet, nakNet, lastSent>>

NothingDue == FALSE
HeadIsDue == resendList # <<>> /\ Head(resendList) \in due

(* The resend loop takes the head of the list while it is due, and puts it *)
(* back at the tail with a new timer.                                      *)
ResendMessage ==
  /\ phase = "resend" /\ HeadIsDue /\ Len(datagram) < MaxPerDatagram
  /\ datagram' = Append(datagram, Head(resendList))
  /\ resendList' = Append(Tail(resendList), Head(resendList))
  /\ due' = due \ {Head(resendList)}
  /\ UNCHANGED <<phase, queueVars, number, sendIndex, resendBuffer, historyVars, receiptVars,
                 ackWork, deadConnection, receiverVars, netVars>>

(* The path drops what is older than Lifetime sends, and the receiver      *)
(* acknowledges a datagram before that many sends have gone by.            *)
Fresh(g, next) == next - g <= Lifetime
FreshDatagram(d, next) ==
  /\ Fresh(d.number, next)
  /\ \A m \in Elements(d.messages) :
        IsReliable(m) => sendIndex - number[m] <= Lifetime
FreshPacket(p, next) == \A g \in p : Fresh(g, next)

HistoryFull == Len(history) > HistoryLength
PopCountKept == popCount
PopCountAfterPush == IF HistoryFull THEN popCount + 1 ELSE popCount

(* Datagram emission: the datagram gets the next number, the numbers of    *)
(* the messages it carries are pushed on datagramHistory (an empty node    *)
(* when none needs an acknowledgement) and it leaves for the network.      *)
EmitDatagram ==
  /\ FreshPacket(acknowlegements, nextDatagram + 1)
  /\ nextDatagram' = nextDatagram + 1
  /\ dataNet' = {d \in dataNet \cup {[number |-> nextDatagram, messages |-> datagram]} :
                   FreshDatagram(d, nextDatagram + 1)}
  /\ ackNet' = {p \in ackNet : FreshPacket(p, nextDatagram + 1)}
  /\ nakNet' = {p \in nakNet : FreshPacket(p, nextDatagram + 1)}
  /\ lastSent' = [m \in Messages |-> IF m \in Elements(datagram) THEN nextDatagram ELSE lastSent[m]]
  /\ LET node == {Wire(number[m]) : m \in {x \in Elements(datagram) : Reliability[x] # "Unreliable"}}
     IN history' = Append(IF HistoryFull THEN Tail(history) ELSE history, node)
  /\ popCount' = PopCountAfterPush
  /\ datagram' = <<>>

ResendDatagram ==
  /\ phase = "resend" /\ datagram # <<>>
  /\ Len(datagram) = MaxPerDatagram \/ ~HeadIsDue
  /\ EmitDatagram
  /\ UNCHANGED <<phase, queueVars, resendVars, receiptVars, ackWork, deadConnection,
                 receiverVars, faults>>

ResendDone ==
  /\ phase = "resend" /\ datagram = <<>> /\ ~HeadIsDue
  /\ phase' = "transmit"
  /\ UNCHANGED <<datagram, queueVars, resendVars, historyVars, receiptVars, ackWork,
                 deadConnection, receiverVars, netVars>>

(* One pass of the transmit loop: a tombstone is dropped, a reliable       *)
(* message gets its number and its slot, a message with an unreliable      *)
(* receipt is remembered under the number its datagram will have.          *)
TransmitMessage ==
  /\ phase \in {"transmit", "more"} /\ outgoing # <<>>
  /\ ~ResendBufferOverflow /\ Len(datagram) < MaxPerDatagram
  /\ LET m == Head(outgoing) IN
       /\ outgoing' = Tail(outgoing)
       /\ datagram' = IF m \in culled THEN datagram ELSE Append(datagram, m)
       /\ IF IsReliable(m)
          THEN /\ number' = [number EXCEPT ![m] = sendIndex]
               /\ sendIndex' = sendIndex + 1
               /\ resendBuffer' = [resendBuffer EXCEPT ![Slot(Wire(sendIndex))] = m]
               /\ resendList' = Append(resendList, m)
          ELSE UNCHANGED <<number, sendIndex, resendBuffer, resendList>>
       /\ receiptHistory' =
            IF Reliability[m] = "UnreliableWithAckReceipt" /\ m \notin culled
            THEN receiptHistory \cup {[datagram |-> nextDatagram, message |-> m]}
            ELSE receiptHistory
  /\ UNCHANGED <<phase, sent, culled, due, historyVars, receipts, ackWork, deadConnection,
                 receiverVars, netVars>>

TransmitDatagram ==
  /\ phase \in {"transmit", "more"} /\ datagram # <<>>
  /\ Len(datagram) = MaxPerDatagram \/ outgoing = <<>> \/ ResendBufferOverflow
  /\ EmitDatagram
  /\ phase' = "more"
  /\ UNCHANGED <<queueVars, resendVars, receiptVars, ackWork, deadConnection,
                 receiverVars, faults>>

(* The transmit loop ends with nothing left, with a full resend buffer, or *)
(* when the congestion window is used up; the window always has room for   *)
(* one datagram while nothing is unacknowledged.                           *)
UpdateEnd ==
  /\ phase \in {"transmit", "more"} /\ datagram = <<>>
  /\ outgoing = <<>> \/ ResendBufferOverflow \/ resendList # <<>> \/ phase = "more"
  /\ phase' = "idle"
  /\ UNCHANGED <<datagram, queueVars, resendVars, historyVars, receiptVars, ackWork,
                 deadConnection, receiverVars, netVars>>

(* The retransmission timer of m runs out.  It is early, and counted as a  *)
(* fault, while its last datagram or the acknowledgement of it is still    *)
(* under way.                                                              *)
UnderWay(m) ==
  \/ \E d \in dataNet : d.number = lastSent[m]
  \/ m \in Elements(socketData)
  \/ lastSent[m] \in acknowlegements \cup UNION ackNet

Timeout(m) ==
  /\ phase = "idle" /\ ~deadConnection
  /\ m \in Unacknowledged \ due
  /\ UnderWay(m) => faults < MaxFaults
  /\ due' = due \cup {m}
  /\ faults' = IF UnderWay(m) THEN faults + 1 ELSE faults
  /\ UNCHANGED <<updateVars, queueVars, number, sendIndex, resendBuffer, resendList, historyVars,
                 receiptVars, ackWork, deadConnection, receiverVars, dataNet, ackNet, nakNet, lastSent>>

-----------------------------------------------------------------------------
(* The path.  A delivered packet may be kept for another delivery, a       *)
(* datagram may overtake older ones, and a packet may be lost, each at the *)
(* cost of a fault.                                                        *)

Spend(n) == faults + n <= MaxFaults /\ faults' = faults + n
Consume(net, p, n) ==
  \/ net' = net \ {p} /\ Spend(n)
  \/ net' = net /\ Spend(n + 1)
Overtakes(d) == IF \E c \in dataNet : c.number < d.number THEN 1 ELSE 0

Lose ==
  /\ Spend(1)
  /\ \/ \E d \in dataNet : dataNet' = dataNet \ {d} /\ UNCHANGED <<ackNet, nakNet>>
     \/ \E p \in ackNet : ackNet' = ackNet \ {p} /\ UNCHANGED <<dataNet, nakNet>>
     \/ \E p \in nakNet : nakNet' = nakNet \ {p} /\ UNCHANGED <<dataNet, ackNet>>
  /\ UNCHANGED <<senderVars, receiverVars, lastSent>>

-----------------------------------------------------------------------------
(* The sending peer receives acknowledgements.                             *)

Offset(w) == Sub(w, Wire(popCount))

(* The numbers an ACK or NAK packet is processed for.  Ranges come in      *)
(* ascending wire order; the range that ends in the largest number is      *)
(* refused with everything after it, and so is everything after the first  *)
(* number outside datagramHistory.  RangeList may keep adjacent ranges     *)
(* apart, so the refused range starts anywhere in the run (cut).           *)
Cuts(wires) ==
  IF NumberSpan - 1 \in wires
  THEN {c \in wires : \A v \in c .. NumberSpan - 1 : v \in wires}
  ELSE {NumberSpan}
Processed(wires, cut) ==
  {w \in wires : w < cut /\ \A v \in wires : v <= w => Offset(v) < Len(history)}

(* The ACK branch of HandleSocketReceiveFromConnectedPlayer.               *)
ReceiveAck(p) ==
  /\ phase = "idle" /\ ~deadConnection
  /\ p \in ackNet
  /\ Consume(ackNet, p, 0)
  /\ LET wires == {Wire(g) : g \in p}
         acked == {r \in receiptHistory : Wire(r.datagram) \in wires}
     IN /\ receiptHistory' = Unreported(acked)
        /\ receipts' = [m \in Messages |->
                          IF \E r \in acked : r.message = m
                          THEN [receipts[m] EXCEPT !.ACKED = @ + 1] ELSE receipts[m]]
        /\ \E cut \in Cuts(wires) :
             LET done == {Offset(w) + 1 : w \in Processed(wires, cut)}
             IN /\ ackWork' = UNION {history[i] : i \in done}
                /\ history' = [i \in DOMAIN history |-> IF i \in done THEN {} ELSE history[i]]
  /\ phase' = IF ackWork' = {} THEN "idle" ELSE "ack"
  /\ UNCHANGED <<datagram, queueVars, resendVars, nextDatagram, popCount, deadConnection,
                 receiverVars, dataNet, nakNet, lastSent>>

(* The slot may have been cleared, or hold a later message by now.         *)
HoldsAnything(m, w) == m # None
HoldsNumber(m, w) == m # None /\ Wire(number[m]) = w

(* RemovePacketFromResendListAndDeleteOlderReliableSequenced, for one      *)
(* message number of the acknowledged datagrams.                           *)
AckMessage ==
  /\ phase = "ack"
  /\ \E w \in ackWork :
       /\ ackWork' = ackWork \ {w}
       /\ LET m == resendBuffer[Slot(w)] IN
          IF HoldsNumber(m, w)
          THEN /\ resendBuffer' = [resendBuffer EXCEPT ![Slot(w)] = None]
               /\ \E i \in DOMAIN resendList :
                    resendList[i] = m /\ resendList' = Without(resendList, i)
               /\ due' = due \ {m}
               /\ receipts' = IF WantsReceipt(m)
                              THEN [receipts EXCEPT ![m].ACKED = @ + 1] ELSE receipts
          ELSE UNCHANGED <<resendBuffer, resendList, due, receipts>>
  /\ phase' = IF ackWork' = {} THEN "idle" ELSE "ack"
  /\ UNCHANGED <<datagram, queueVars, number, sendIndex, historyVars, receiptHistory,
                 deadConnection, receiverVars, netVars>>

(* The NAK branch: the messages in the slots of the reported datagrams     *)
(* become due, whichever messages the slots hold by now.                   *)
ReceiveNak(p) ==
  /\ phase = "idle" /\ ~deadConnection
  /\ p \in nakNet
  /\ Consume(nakNet, p, 0)
  /\ LET wires == {Wire(g) : g \in p}
     IN \E cut \in Cuts(wires) :
          due' = due \cup
                 ({resendBuffer[Slot(w)] :
                     w \in UNION {history[Offset(v) + 1] : v \in Processed(wires, cut)}} \ {None})
  /\ UNCHANGED <<updateVars, queueVars, number, sendIndex, resendBuffer, resendList, historyVars,
                 receiptVars, ackWork, deadConnection, receiverVars, dataNet, ackNet, lastSent>>

-----------------------------------------------------------------------------
(* The receiving peer.                                                     *)

(* The data branch up to the first message: OnGotPacket compares the       *)
(* datagram number with the expected one, skipped datagrams are reported   *)
(* missing, and the datagram is acknowledged before it is parsed.          *)
ReceiveDatagram(d) ==
  /\ socketData = <<>>
  /\ d \in dataNet /\ FreshDatagram(d, nextDatagram)
  /\ Consume(dataNet, d, Overtakes(d))
  /\ LET w == Wire(d.number)
         e == Wire(expected)
         skipped == IF GreaterThan(w, e) THEN Sub(w, e) ELSE 0
         reported == IF skipped > NakLimit THEN NakLimit ELSE skipped
     IN IF skipped > SkipLimit
        THEN UNCHANGED <<expected, acknowlegements, NAKs, socketData>>
        ELSE /\ expected' = IF w = e \/ GreaterThan(w, e) THEN d.number + 1 ELSE expected
             /\ NAKs' = NAKs \cup {d.number - k : k \in 1 .. reported}
             /\ acknowlegements' = acknowlegements \cup {d.number}
             /\ socketData' = d.messages
  /\ UNCHANGED <<base, hasReceived, delivered, senderVars, ackNet, nakNet, lastSent>>

(* hasReceivedPacketQueue once the message at distance h is marked as got. *)
MarkedAsHole(h) ==
  IF h < Len(hasReceived) THEN hasReceived
  ELSE [i \in 1 .. h + 1 |-> IF i <= Len(hasReceived) THEN hasReceived[i] ELSE TRUE]
Marked(h) ==
  IF h < Len(hasReceived) THEN [hasReceived EXCEPT ![h + 1] = FALSE]
  ELSE [i \in 1 .. h + 1 |-> IF i <= Len(hasReceived) THEN hasReceived[i] ELSE i <= h]

Deliver(m) == delivered' = [delivered EXCEPT ![m] = @ + 1]

(* One message of the datagram.  A reliable message whose number was seen  *)
(* is dropped; otherwise the queue marks it, and the base moves over       *)
(* everything received without a gap.                                      *)
ParseMessage ==
  /\ socketData # <<>>
  /\ socketData' = Tail(socketData)
  /\ LET m == Head(socketData)
         h == Sub(Wire(number[m]), Wire(base))
     IN IF ~IsReliable(m)
        THEN Deliver(m) /\ UNCHANGED <<base, hasReceived>>
        ELSE IF \/ h > HalfSpan
                \/ h > 0 /\ h < Len(hasReceived) /\ ~hasReceived[h + 1]
                \/ h > 0 /\ h >= Len(hasReceived) /\ h > HoleLimit
        THEN UNCHANGED <<base, hasReceived, delivered>>
        ELSE /\ Deliver(m)
             /\ \E k \in 0 .. Len(Marked(h)) :
                  /\ \A i \in 1 .. k : ~Marked(h)[i]
                  /\ k < Len(Marked(h)) => Marked(h)[k + 1]
                  /\ hasReceived' = SubSeq(Marked(h), k + 1, Len(Marked(h)))
                  /\ base' = base + k
  /\ UNCHANGED <<expected, acknowlegements, NAKs, senderVars, netVars>>

(* UpdateInternal of the receiving peer: SendACKs empties acknowlegements, *)
(* and the missing datagrams are reported.                                 *)
SendACKs ==
  /\ socketData = <<>>
  /\ acknowlegements # {} \/ NAKs # {}
  /\ ackNet' = IF acknowlegements = {} THEN ackNet ELSE ackNet \cup {acknowlegements}
  /\ nakNet' = IF NAKs = {} THEN nakNet ELSE nakNet \cup {NAKs}
  /\ acknowlegements' = {} /\ NAKs' = {}
  /\ UNCHANGED <<expected, socketData, base, hasReceived, delivered, senderVars, dataNet, lastSent, faults>>

-----------------------------------------------------------------------------
SenderLoop == ResendMessage \/ ResendDatagram \/ ResendDone \/ TransmitMessage
              \/ TransmitDatagram \/ UpdateEnd \/ AckMessage

Next ==
  \/ \E m \in Messages : Send(m) \/ Timeout(m)
  \/ UpdateBegin \/ AckTimeout
  \/ SenderLoop
  \/ \E p \in ackNet : ReceiveAck(p)
  \/ \E p \in nakNet : ReceiveNak(p)
  \/ \E d \in dataNet : ReceiveDatagram(d)
  \/ ParseMessage \/ SendACKs \/ Lose

Spec == Init /\ [][Next]_vars

(* The network thread of each peer repeats: handle every queued packet,    *)
(* then Update.  A handler or loop that has begun finishes, Update and the *)
(* acknowledgements run again and again, and a packet or a timer that      *)
(* waits while Update runs gets its turn between two Updates.              *)
Fairness ==
  /\ WF_vars(UpdateBegin) /\ WF_vars(SenderLoop)
  /\ SF_vars(\E p \in ackNet : ReceiveAck(p))
  /\ \A m \in Messages : SF_vars(Timeout(m) /\ ~UnderWay(m))
  /\ WF_vars(\E d \in dataNet : ReceiveDatagram(d))
  /\ WF_vars(ParseMessage) /\ WF_vars(SendACKs)
FairSpec == Spec /\ Fairness

-----------------------------------------------------------------------------
ReliableMessages == {m \in Messages : IsReliable(m)}

WireNumbers == 0 .. NumberSpan - 1
QueueType ==
  /\ sent \subseteq Messages /\ outgoing \in Seq(Messages) /\ culled \subseteq Messages
UpdateType ==
  /\ phase \in {"idle", "resend", "transmit", "more", "ack"} /\ datagram \in Seq(Messages)
  /\ ackWork \subseteq WireNumbers /\ deadConnection \in BOOLEAN
ResendType ==
  /\ number \in [Messages -> Nat \cup {-1}] /\ sendIndex \in Nat
  /\ resendBuffer \in [0 .. ResendBufferLength - 1 -> Messages \cup {None}]
  /\ resendList \in Seq(Messages) /\ due \subseteq Messages
HistoryType ==
  /\ nextDatagram \in Nat /\ popCount \in Nat /\ history \in Seq(SUBSET WireNumbers)
ReceiptType ==
  /\ receiptHistory \subseteq [datagram : Nat, message : Messages]
  /\ receipts \in [Messages -> [ACKED : Nat, LOSS : Nat]]
ReceiverType ==
  /\ expected \in Nat /\ acknowlegements \subseteq Nat /\ NAKs \subseteq Int
  /\ socketData \in Seq(Messages) /\ base \in Nat /\ hasReceived \in Seq(BOOLEAN)
  /\ delivered \in [Messages -> Nat]
NetType ==
  /\ dataNet \subseteq Datagrams /\ ackNet \subseteq SUBSET Nat /\ nakNet \subseteq SUBSET Int
  /\ lastSent \in [Messages -> Nat \cup {-1}] /\ faults \in Nat

(* The type of every variable: datagramHistory and the ACK loop hold       *)
(* uint24_t numbers, the receipt counters and indices never go negative.   *)
TypeOK ==
  /\ QueueType /\ UpdateType /\ ResendType /\ HistoryType
  /\ ReceiptType /\ ReceiverType /\ NetType

(* Duplicate removal: however often datagrams are resent, duplicated or    *)
(* reordered, a reliable message reaches the output queue at most once     *)
(* (HandleSocketReceiveFromConnectedPlayer, holeCount and                  *)
(* hasReceivedPacketQueue).                                                *)
ExactlyOnce == \A m \in ReliableMessages : delivered[m] <= 1

(* The sender forgets a reliable message only after the receiver has       *)
(* delivered it: no acknowledgement, however late, reordered or wrapped    *)
(* around, clears a message that did not arrive                            *)
(* (RemovePacketFromResendListAndDeleteOlderReliableSequenced).            *)
ReleasedOnlyWhenDelivered ==
  \A m \in sent : IsReliable(m) =>
     m \in Elements(outgoing) \cup Unacknowledged \/ delivered[m] > 0

(* The numbers in use span at most the resend buffer, so the receiver's    *)
(* queue of holes stays that short and the holeCount > 1000000 drop, which *)
(* would lose an already acknowledged message, is never taken.             *)
ReceiveWindow ==
  /\ sendIndex - base \in 0 .. ResendBufferLength
  /\ Len(hasReceived) <= ResendBufferLength

(* datagramHistory holds exactly the datagrams from datagramHistoryPopCount *)
(* to the newest: the assertion that AddFirstToDatagramHistory has         *)
(* commented out, on which every ACK and NAK lookup relies.                *)
HistoryAligned ==
  popCount + Len(history) = nextDatagram /\ Len(history) <= HistoryLength + 1

(* The linked list and the array hold the same messages, each once, in the *)
(* slot of its number: what ValidateResendList would compare.              *)
ResendListMatchesBuffer ==
  /\ Elements(resendList) = Unacknowledged
  /\ \A i, j \in DOMAIN resendList : resendList[i] = resendList[j] => i = j
  /\ \A i \in DOMAIN resendBuffer :
       resendBuffer[i] # None => Slot(Wire(number[resendBuffer[i]])) = i

(* A message gets at most one receipt, and an ACKED receipt only once it   *)
(* was delivered; a reliable message never gets LOSS.                      *)
ReceiptsTruthful ==
  \A m \in Messages :
    /\ receipts[m].ACKED + receipts[m].LOSS <= (IF WantsReceipt(m) THEN 1 ELSE 0)
    /\ receipts[m].ACKED > 0 => delivered[m] > 0
    /\ receipts[m].LOSS > 0 => ~IsReliable(m)

(* A receipt that was asked for is never forgotten: until it is given, the *)
(* message waits in the queue, in unreliableWithAckReceiptHistory or in    *)
(* the resend buffer.  The one exception is a message that the unreliable  *)
(* timeout freed while it was queued.                                      *)
ReceiptKept ==
  \A m \in sent : WantsReceipt(m) /\ m \notin culled =>
    \/ receipts[m] # NoReceipt
    \/ m \in Elements(outgoing) \cup Unacknowledged
    \/ \E r \in receiptHistory : r.message = m

(* Every reliable message is delivered in the end, unless the connection   *)
(* is given up: losses of data, of acknowledgements and of NAKs, refused   *)
(* acknowledgement ranges and forgotten datagrams are all repaired by the  *)
(* retransmission timer.                                                   *)
EventuallyDelivered ==
  \A m \in ReliableMessages : m \in sent ~> delivered[m] > 0 \/ deadConnection

(* ... and its acknowledgement finally frees its slot in the resend        *)
(* buffer, so that the buffer cannot stay full.                            *)
EventuallyReleased ==
  \A m \in ReliableMessages :
    m \in sent ~> m \notin Elements(outgoing) \cup Unacknowledged \/ deadConnection

-----------------------------------------------------------------------------
(* What the application is promised (ReliableChannel), with a message      *)
(* released when the sender no longer keeps it.                            *)
Channel == INSTANCE ReliableChannel WITH
  Messages <- ReliableMessages,
  accepted <- sent \cap ReliableMessages,
  delivered <- [m \in ReliableMessages |-> delivered[m]],
  released <- {m \in sent : IsReliable(m) /\ m \notin Elements(outgoing) \cup Unacknowledged}
ImplementsChannel == Channel!Spec
=============================================================================
