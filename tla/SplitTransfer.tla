---------------------------- MODULE SplitTransfer ----------------------------
(***************************************************************************)
(* Large messages in ReliabilityLayer: Send splits what does not fit a     *)
(* datagram, the receiver reassembles the fragments, and when a large      *)
(* packet is never acknowledged the sender takes the path for an MTU black *)
(* hole, steps its MTU down and re-splits what it has queued               *)
(* (Source/src/reliability_layer.cpp, mtu_black_hole.cpp).                 *)
(*                                                                         *)
(* Every message is ReliableWithAckReceipt.  A datagram carries one packet *)
(* and is acknowledged by its message number: datagram numbers, ACK ranges *)
(* and number wrap are in ReliabilityLayer.  Sizes count small blocks.     *)
(***************************************************************************)
EXTENDS Integers, Sequences, SequencesExt

CONSTANTS
  Messages,
  Size,                \* Messages -> blocks
  Ladder,              \* MTU_LADDER, as blocks of data that fit: decreasing
  PathSizes,           \* the sizes a path may be limited to
  Threshold,           \* MTU_BLACKHOLE_RESEND_THRESHOLD
  IdSpan,              \* 2^16, the range of SplitPacketIdType
  StartId,             \* split messages sent before the modelled stretch
  HoleLimit,           \* 1000000: a larger jump of the message number is refused
  ResendBufferLength,  \* RESEND_BUFFER_ARRAY_LENGTH
  MaxFaults            \* bound: losses and early timeouts

ASSUME SplitAssumption ==
  /\ Size \in [Messages -> Nat \ {0}]
  /\ Ladder \in Seq(Nat \ {0}) /\ Ladder # <<>>
  /\ \A i, j \in DOMAIN Ladder : i < j => Ladder[j] < Ladder[i]
  /\ PathSizes \subseteq Nat /\ \A s \in PathSizes : Ladder[Len(Ladder)] <= s
  /\ Threshold \in Nat \ {0} /\ IdSpan \in Nat \ {0} /\ StartId \in Nat
  /\ HoleLimit \in Nat /\ ResendBufferLength \in 1 .. HoleLimit /\ MaxFaults \in Nat

VARIABLES
  (* the sending peer *)
  sent,
  outgoing,        \* outgoingPacketBuffer
  resendList,      \* [number, packet, timesSent], from resendLinkedListHead
  due,             \* message numbers whose nextActionTime has passed
  sendIndex,       \* sendReliableMessageNumberIndex
  splitPacketId,
  mtu,             \* the rung of Ladder in use (currentMtuBytes)
  sending,         \* UpdateInternal is in its send loops
  receipts,        \* ID_SND_RECEIPT_ACKED handed to the application
  (* the receiving peer *)
  base,            \* receivedPacketsBaseIndex
  got,             \* the numbers above base marked in hasReceivedPacketQueue
  channels,        \* splitPacketChannelList: [id, count, fragments]
  delivered,       \* how often each message came out whole
  garbled,         \* a message was put together from parts of two
  (* the path *)
  pathMax,         \* what this path really carries
  net, acks, faults

queueVars == <<sent, outgoing, sendIndex, splitPacketId, mtu>>
senderVars == <<queueVars, resendList, due, sending, receipts>>
receiverVars == <<base, got, channels, delivered, garbled>>
vars == <<senderVars, receiverVars, pathMax, net, acks, faults>>

Packets == [message : Messages, id : Nat, index : Nat, count : Nat, size : Nat]
Elements(s) == {s[i] : i \in DOMAIN s}
UnwrappedId(id) == id
WireId(id) == id % IdSpan

(* The entries of s at the places in S, in order.                          *)
Only(s, S) == FlattenSeq([i \in DOMAIN s |-> IF i \in S THEN <<s[i]>> ELSE <<>>])

Init ==
  /\ sent = {} /\ outgoing = <<>> /\ resendList = <<>> /\ due = {}
  /\ sendIndex = 0 /\ splitPacketId = StartId /\ mtu = 1 /\ sending = FALSE
  /\ receipts = [m \in Messages |-> 0]
  /\ base = 0 /\ got = {} /\ channels = {}
  /\ delivered = [m \in Messages |-> 0] /\ garbled = FALSE
  /\ pathMax \in PathSizes /\ net = {} /\ acks = {} /\ faults = 0

-----------------------------------------------------------------------------
(* Sending.                                                                *)

(* SplitPacket: count fragments of a full block, the last one shorter.     *)
SplitPacketCount(m, rung) == (Size[m] - 1) \div Ladder[rung] + 1
SplitPacket(m, id, rung) ==
  LET count == SplitPacketCount(m, rung)
      block == Ladder[rung]
  IN [i \in 1 .. count |->
       [message |-> m, id |-> id, index |-> i - 1, count |-> count,
        size |-> IF i < count THEN block ELSE Size[m] - (count - 1) * block]]
Whole(m) == <<[message |-> m, id |-> 0, index |-> 0, count |-> 0, size |-> Size[m]]>>

Send(m) ==
  /\ ~sending /\ m \notin sent
  /\ sent' = sent \cup {m}
  /\ LET split == Size[m] > Ladder[mtu]
     IN /\ outgoing' = outgoing \o IF split THEN SplitPacket(m, splitPacketId, mtu) ELSE Whole(m)
        /\ splitPacketId' = IF split THEN splitPacketId + 1 ELSE splitPacketId
  /\ UNCHANGED <<sendIndex, mtu, resendList, due, sending, receipts, receiverVars, pathMax, net, acks, faults>>

(* ReSplitOversizedMessages.  The first packet too large for the new rung  *)
(* marks its message; all packets of a marked message leave both queues,   *)
(* whatever part was acknowledged, and the message is split again under a  *)
(* fresh id.                                                               *)
Queued == [i \in 1 .. Len(resendList) |-> resendList[i].packet] \o outgoing
Oversized(p, rung) == p.size > Ladder[rung]
SameMessage(p, q) ==
  IF p.count > 0 /\ q.count > 0 THEN WireId(p.id) = WireId(q.id) ELSE p = q
Stale(q, rung) == \E p \in Elements(Queued) : Oversized(p, rung) /\ SameMessage(p, q)
FirstOversized(rung) ==
  {i \in DOMAIN Queued : /\ Oversized(Queued[i], rung)
                         /\ \A j \in 1 .. i - 1 :
                              Oversized(Queued[j], rung) => ~SameMessage(Queued[j], Queued[i])}
Rebuilt(rung) ==
  LET marked == Only(Queued, FirstOversized(rung))
  IN [i \in DOMAIN marked |-> marked[i].message]

(* The id of the i-th rebuilt message.                                     *)
LastId(i) == splitPacketId - 1
FreshId(i) == splitPacketId + i - 1

StepDownMtuAfterBlackHole ==
  LET rung == mtu + 1
      rebuilt == Rebuilt(rung)
  IN /\ mtu' = rung
     /\ resendList' = Only(resendList, {i \in DOMAIN resendList : ~Stale(resendList[i].packet, rung)})
     /\ due' = {n \in due : \E r \in Elements(resendList') : r.number = n}
     /\ outgoing' = Only(outgoing, {i \in DOMAIN outgoing : ~Stale(outgoing[i], rung)})
                    \o FlattenSeq([i \in DOMAIN rebuilt |->
                                     SplitPacket(rebuilt[i], FreshId(i), rung)])
     /\ splitPacketId' = splitPacketId + Len(rebuilt)

NeverStepDown(r) == FALSE
ShouldStepDownMtu(r) ==
  /\ r.timesSent >= Threshold
  /\ mtu < Len(Ladder) /\ r.packet.size > Ladder[mtu + 1]

(* UpdateInternal looks for a black hole at the head of the resend list,   *)
(* then enters its send loops.                                             *)
UpdateBegin ==
  /\ ~sending
  /\ resendList # <<>> \/ outgoing # <<>>
  /\ sending' = TRUE
  /\ IF resendList # <<>> /\ Head(resendList).number \in due /\ ShouldStepDownMtu(Head(resendList))
     THEN StepDownMtuAfterBlackHole
     ELSE UNCHANGED <<resendList, due, outgoing, splitPacketId, mtu>>
  /\ UNCHANGED <<sent, sendIndex, receipts, receiverVars, pathMax, net, acks, faults>>

(* A packet larger than the path carries disappears on the way.            *)
Emit(number, p) ==
  net' = IF p.size <= pathMax THEN net \cup {[number |-> number, packet |-> p]} ELSE net

HeadIsDue == resendList # <<>> /\ Head(resendList).number \in due

Resend ==
  /\ sending /\ HeadIsDue
  /\ LET r == Head(resendList)
         times == IF r.timesSent < Threshold THEN r.timesSent + 1 ELSE Threshold
     IN /\ Emit(r.number, r.packet)
        /\ resendList' = Append(Tail(resendList), [r EXCEPT !.timesSent = times])
        /\ due' = due \ {r.number}
  /\ UNCHANGED <<queueVars, sending, receipts, receiverVars, pathMax, acks, faults>>

ResendBufferOverflow ==
  \E r \in Elements(resendList) : (sendIndex - r.number) % ResendBufferLength = 0

Transmit ==
  /\ sending /\ ~HeadIsDue
  /\ outgoing # <<>> /\ ~ResendBufferOverflow
  /\ Emit(sendIndex, Head(outgoing))
  /\ resendList' = Append(resendList, [number |-> sendIndex, packet |-> Head(outgoing), timesSent |-> 1])
  /\ sendIndex' = sendIndex + 1
  /\ outgoing' = Tail(outgoing)
  /\ UNCHANGED <<sent, splitPacketId, mtu, due, sending, receipts, receiverVars, pathMax, acks, faults>>

UpdateEnd ==
  /\ sending /\ ~HeadIsDue
  /\ outgoing = <<>> \/ ResendBufferOverflow
  /\ sending' = FALSE
  /\ UNCHANGED <<queueVars, resendList, due, receipts, receiverVars, pathMax, net, acks, faults>>

(* The retransmission timer; early, at the cost of a fault, while the      *)
(* packet or its acknowledgement is under way.                             *)
UnderWay(n) == n \in acks \/ \E x \in net : x.number = n
Timeout(r) ==
  /\ ~sending /\ r.number \notin due
  /\ UnderWay(r.number) => faults < MaxFaults
  /\ due' = due \cup {r.number}
  /\ faults' = IF UnderWay(r.number) THEN faults + 1 ELSE faults
  /\ UNCHANGED <<queueVars, resendList, sending, receipts, receiverVars, pathMax, net, acks>>

(* RemovePacketFromResendListAndDeleteOlderReliableSequenced: the receipt  *)
(* of a split message goes out with the acknowledgement of its last        *)
(* fragment.                                                               *)
EarnsReceipt(p) == p.count = 0 \/ p.index + 1 = p.count
ReceiveAck(n) ==
  /\ ~sending
  /\ acks' = acks \ {n}
  /\ LET cleared == {r \in Elements(resendList) : r.number = n}
     IN /\ resendList' = Only(resendList, {i \in DOMAIN resendList : resendList[i].number # n})
        /\ receipts' = [m \in Messages |->
                          IF \E r \in cleared : r.packet.message = m /\ EarnsReceipt(r.packet)
                          THEN receipts[m] + 1 ELSE receipts[m]]
  /\ due' = due \ {n}
  /\ UNCHANGED <<queueVars, sending, receiverVars, pathMax, net, faults>>

-----------------------------------------------------------------------------
(* Receiving.                                                              *)

(* The length of hasReceivedPacketQueue: up to the highest number seen.    *)
QueueSize == IF got = {} THEN 0 ELSE (CHOOSE n \in got : \A k \in got : k <= n) - base + 1
Accepted(n) ==
  /\ n >= base /\ n \notin got
  /\ n - base < QueueSize \/ n - base <= HoleLimit

(* receivedPacketsBaseIndex moves over the numbers received without a gap. *)
MarkReceived(n) ==
  \E k \in base .. base + QueueSize + 1 :
    /\ \A i \in base .. k - 1 : i \in got \cup {n}
    /\ k \notin got \cup {n}
    /\ base' = k
    /\ got' = {i \in got \cup {n} : i > k}

Deliver(m) == delivered' = [delivered EXCEPT ![m] = @ + 1]

(* InsertIntoSplitPacketList and BuildPacketFromSplitPacketList.  Add      *)
(* refuses a fragment that disagrees with the channel's count or whose     *)
(* index is taken; the fragment is then dropped.                           *)
FitsButLast(c, p) == p.count = c.count /\ p.index + 1 < c.count
Fits(c, p) == p.count = c.count /\ \A q \in c.fragments : q.index # p.index
Insert(p) ==
  LET open == {c \in channels : c.id = WireId(p.id)}
      old == IF open = {} THEN [id |-> WireId(p.id), count |-> p.count, fragments |-> {}]
             ELSE CHOOSE c \in open : TRUE
      new == [old EXCEPT !.fragments = @ \cup {p}]
      whole == \E rung \in DOMAIN Ladder : new.fragments = Elements(SplitPacket(p.message, p.id, rung))
      complete == \A i \in 0 .. new.count - 1 : \E q \in new.fragments : q.index = i
  IN IF ~Fits(old, p) THEN UNCHANGED <<channels, delivered, garbled>>
     ELSE IF ~complete
     THEN channels' = (channels \ open) \cup {new} /\ UNCHANGED <<delivered, garbled>>
     ELSE /\ channels' = channels \ open
          /\ IF whole THEN Deliver(p.message) /\ UNCHANGED garbled
             ELSE garbled' = TRUE /\ UNCHANGED delivered

(* A packet is acknowledged before the receiver looks at its number.       *)
ReceivePacket(x) ==
  /\ net' = net \ {x} /\ acks' = acks \cup {x.number}
  /\ IF ~Accepted(x.number)
     THEN UNCHANGED receiverVars
     ELSE /\ MarkReceived(x.number)
          /\ IF x.packet.count = 0
             THEN Deliver(x.packet.message) /\ UNCHANGED <<channels, garbled>>
             ELSE Insert(x.packet)
  /\ UNCHANGED <<senderVars, pathMax, faults>>

Lose ==
  /\ faults < MaxFaults /\ faults' = faults + 1
  /\ \/ \E x \in net : net' = net \ {x} /\ UNCHANGED acks
     \/ \E n \in acks : acks' = acks \ {n} /\ UNCHANGED net
  /\ UNCHANGED <<senderVars, receiverVars, pathMax>>

-----------------------------------------------------------------------------
SenderLoop == Resend \/ Transmit \/ UpdateEnd
Next ==
  \/ \E m \in Messages : Send(m)
  \/ UpdateBegin \/ SenderLoop
  \/ \E r \in Elements(resendList) : Timeout(r)
  \/ \E n \in acks : ReceiveAck(n)
  \/ \E x \in net : ReceivePacket(x)
  \/ Lose
Spec == Init /\ [][Next]_vars

(* As in ReliabilityLayer: loops finish, Update runs again and again, what *)
(* waits while Update runs gets its turn between two Updates.              *)
FairSpec ==
  /\ Spec
  /\ WF_vars(UpdateBegin) /\ WF_vars(SenderLoop)
  /\ SF_vars(\E n \in acks : ReceiveAck(n))
  /\ SF_vars(\E r \in Elements(resendList) : ~UnderWay(r.number) /\ Timeout(r))
  /\ WF_vars(\E x \in net : ReceivePacket(x))

-----------------------------------------------------------------------------
(* The type of every variable.                                             *)
TypeOK ==
  /\ sent \subseteq Messages /\ outgoing \in Seq(Packets)
  /\ resendList \in Seq([number : Nat, packet : Packets, timesSent : 1 .. Threshold])
  /\ due \subseteq Nat /\ sendIndex \in Nat /\ splitPacketId \in Nat
  /\ mtu \in DOMAIN Ladder /\ sending \in BOOLEAN /\ receipts \in [Messages -> Nat]
  /\ base \in Nat /\ got \subseteq Nat
  /\ channels \subseteq [id : 0 .. IdSpan - 1, count : Nat, fragments : SUBSET Packets]
  /\ delivered \in [Messages -> Nat] /\ garbled \in BOOLEAN
  /\ net \subseteq [number : Nat, packet : Packets] /\ acks \subseteq Nat /\ faults \in Nat

(* No reassembled message mixes fragments of two messages or of two        *)
(* splittings of one message.                                              *)
NeverGarbled == ~garbled

(* A re-split message "slots into the stream where the original stalled", *)
(* and "the receiver's partial channel for the old id never completes"    *)
(* (ReSplitOversizedMessages): so a message comes out once, whatever is    *)
(* lost, resent or split again.                                            *)
DeliveredOnce == \A m \in Messages : delivered[m] <= 1

(* As long as a message is not delivered, every part of it the receiver    *)
(* still lacks is kept by the sender: some split of it is complete between *)
(* the sender's queues and the receiver's channel.                         *)
NothingMissing ==
  \A m \in sent : delivered[m] = 0 =>
    \E p \in Elements(Queued) :
      /\ p.message = m
      /\ \A i \in 0 .. p.count - 1 :
           \/ \E q \in Elements(Queued) : q.message = m /\ q.id = p.id /\ q.index = i
           \/ \E c \in channels : \E q \in c.fragments : q.message = m /\ q.id = p.id /\ q.index = i

(* The resend queue drains, also when the path drops large datagrams from  *)
(* the start: the step-down finds a size that gets through, no packet that *)
(* cannot arrive is resent for ever, and the application gets its receipt. *)
(* With NothingMissing every message is then delivered.                    *)
EventuallyAcknowledged ==
  \A m \in Messages :
    m \in sent ~> receipts[m] > 0 /\ ~\E p \in Elements(Queued) : p.message = m
=============================================================================
