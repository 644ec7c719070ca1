------------------------ MODULE ReliabilityInvariant ------------------------
(***************************************************************************)
(* The inductive invariant behind the safety properties of                 *)
(* ReliabilityLayer.  ResendBuffer holds whatever is sent.  Delivery       *)
(* needs messages whose number is assigned before it is recorded in the    *)
(* datagram history, which UNRELIABLE_WITH_ACK_RECEIPT messages have not.  *)
(***************************************************************************)
EXTENDS ReliabilityLayer

NumbersAssigned == \A m \in Messages : Reliability[m] # "UnreliableWithAckReceipt"

(* Queued messages have no number, every number below sendIndex belongs to *)
(* exactly one message, and no reliable message is lost between the queue  *)
(* and its number.                                                         *)
NumberingInv ==
  /\ \A i, j \in DOMAIN outgoing : outgoing[i] = outgoing[j] => i = j
  /\ \A i \in DOMAIN outgoing : outgoing[i] \in sent /\ number[outgoing[i]] = -1
  /\ \A m \in Messages : number[m] # -1 => m \in sent /\ IsReliable(m) /\ number[m] < sendIndex
  /\ \A m, n \in Messages : number[m] # -1 /\ number[m] = number[n] => m = n
  /\ \A k \in Start .. sendIndex - 1 : \E m \in Messages : number[m] = k
  /\ \A m \in sent : IsReliable(m) => number[m] # -1 \/ m \in Elements(outgoing)
  /\ \A m \in culled : ~IsReliable(m)

(* The unacknowledged numbers lie within one buffer length of the next     *)
(* one, so no two of them share a slot.                                    *)
ResendInv ==
  /\ ResendListMatchesBuffer
  /\ \A m \in Unacknowledged : number[m] # -1 /\ sendIndex - number[m] <= ResendBufferLength

ResendBufferInv == TypeOK /\ NumberingInv /\ ResendInv /\ HistoryAligned

(* Between two updates nothing is half done, and a datagram is assembled   *)
(* from unacknowledged messages.                                           *)
UpdateInv ==
  /\ phase \in {"idle", "ack"} => datagram = <<>>
  /\ phase # "ack" => ackWork = {}
  /\ Len(datagram) <= MaxPerDatagram
  /\ \A m \in Elements(datagram) : IsReliable(m) => m \in Unacknowledged

(* The receiver's window says of every number whether it was delivered.    *)
Received(k) == k < base \/ (k < base + Len(hasReceived) /\ ~hasReceived[k - base + 1])
ReceiverInv ==
  /\ hasReceived # <<>> => hasReceived[1]
  /\ Start <= base /\ base + Len(hasReceived) <= sendIndex
  /\ \A m \in ReliableMessages :
       delivered[m] = IF number[m] # -1 /\ Received(number[m]) THEN 1 ELSE 0

(* What travels is recent, and so are the messages being parsed.           *)
Recent(g) == g < nextDatagram /\ Fresh(g, nextDatagram)
FlightInv ==
  /\ \A d \in dataNet : /\ Recent(d.number)
                        /\ \A m \in Elements(d.messages) : IsReliable(m) => number[m] # -1
  /\ \A g \in acknowlegements : Recent(g)
  /\ \A p \in ackNet : \A g \in p : Recent(g)
  /\ \A m \in Elements(socketData) : IsReliable(m) =>
       /\ number[m] # -1
       /\ base + Len(hasReceived) - number[m] <= Lifetime
       /\ \A n \in Elements(socketData) : IsReliable(n) => number[n] - number[m] < Lifetime

(* The numbers recorded for a recent datagram are less than a span old.    *)
Listed(g) == history[g - popCount + 1]
HistoryInv ==
  \A g \in popCount .. nextDatagram - 1 : \A w \in Listed(g) : \E k \in 0 .. sendIndex - 1 :
    /\ w = Wire(k)
    /\ sendIndex - k <= ResendBufferLength + (nextDatagram - g - 1) * MaxPerDatagram + Len(datagram)

(* The record of a datagram in flight names only unacknowledged messages   *)
(* it carries; the record of an acknowledged one only messages that were   *)
(* delivered, or are about to be parsed.                                   *)
Covered(g, parsing) ==
  g >= popCount => \A m \in Unacknowledged :
                     Wire(number[m]) \in Listed(g) => delivered[m] > 0 \/ m \in parsing
AckInv ==
  /\ \A d \in dataNet : Covered(d.number, Elements(d.messages))
  /\ \A g \in acknowlegements : Covered(g, Elements(socketData))
  /\ \A p \in ackNet : \A g \in p : Covered(g, {})
  /\ \A m \in Unacknowledged : Wire(number[m]) \in ackWork => delivered[m] > 0

KeptInv == \A m \in Messages : number[m] # -1 /\ delivered[m] = 0 => m \in Unacknowledged

Consistent ==
  /\ ResendBufferInv /\ UpdateInv /\ ReceiverInv /\ FlightInv
  /\ HistoryInv /\ AckInv /\ KeptInv

(* While every recorded number is assigned, the resend buffer, the         *)
(* history, the packets in flight and the receiver's window agree: a       *)
(* number is acknowledged only for a datagram whose messages were          *)
(* delivered, and a number is either delivered or still kept.              *)
DeliveryInv == NumbersAssigned => Consistent
=============================================================================
