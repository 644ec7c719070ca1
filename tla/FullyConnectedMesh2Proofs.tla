---------------------- MODULE FullyConnectedMesh2Proofs ----------------------
(***************************************************************************)
(* Proofs about the host election of FullyConnectedMesh2: the type         *)
(* invariant, and that a settled mesh agrees on its host, for any set of   *)
(* peers, any order of connections, losses and resets and any bounds.      *)
(***************************************************************************)
EXTENDS FullyConnectedMesh2, WireArithmetic, FiniteSetTheorems

-----------------------------------------------------------------------------
(* The inductive invariant                                                 *)

(* The numbers a peer may give itself: no two peers share one, because the *)
(* random parts differ, and none is Unassigned, because the count is not 0. *)
Numbers(q) == {g \in Nat : \E n \in Nat \ {0}, r \in Chance[q] : g = n * RandomSpan + r}

(* A message from q.                                                       *)
MessageOf(q) ==
  {m \in Message : /\ m.guid # Unassigned => m.guid \in Numbers(q) /\ m.type # "RESPOND"
                   /\ m.type = "INFORM" => m.guid # Unassigned
                   /\ m.type # "REQUEST" => m.count # 0}

Typed ==
  /\ list \in [Peer -> [Peer -> Nat \cup {Absent}]]
  /\ guid \in [Peer -> Nat] /\ total \in [Peer -> Nat] /\ started \in [Peer -> Nat]
  /\ host \in [Peer -> Peer \cup {NoHost}] /\ pushed \in [Peer -> Peer \cup {NoHost}]
  /\ linked \in [Peer -> SUBSET Peer] /\ dialing \subseteq Peer \X Peer
  /\ wire \in [Peer -> [Peer -> Seq(Message)]]

(* Numbers and messages are those of the peer they are about.              *)
Numbered ==
  /\ \A p \in Peer : guid[p] # Unassigned => guid[p] \in Numbers(p) /\ total[p] # 0
  /\ \A p, q \in Peer : list[p][q] \notin {Absent, Unassigned} => list[p][q] \in Numbers(q)
  /\ \A p, q \in Peer : \A i \in DOMAIN wire[q][p] : wire[q][p][i] \in MessageOf(q)

(* A peer's participants are the peers it is connected to.                 *)
Participating ==
  /\ \A p, q \in Peer : list[p][q] # Absent <=> q \in linked[p]
  /\ \A p, q \in Peer : q \in linked[p] => q # p /\ <<p, q>> \notin dialing
  /\ \A p \in Peer : <<p, p>> \notin dialing

(* The host a peer's list and number give.                                 *)
Lower(l, g) == {q \in Peer : l[q] # Absent /\ l[q] # Unassigned /\ l[q] < g}
HostOf(l, g, p) ==
  IF Lower(l, g) = {} THEN p
  ELSE CHOOSE q \in Lower(l, g) : \A r \in Lower(l, g) : l[q] <= l[r]
Complete(l) == \A q \in Peer : l[q] # Unassigned
HostRight(l, g, p, h, u) ==
  h = u /\ (g # Unassigned /\ Complete(l) => h = HostOf(l, g, p))
HostKept ==
  \A p \in Peer : p \notin excused => HostRight(list[p], guid[p], p, host[p], pushed[p])

(* q is connected to p, and what it sends p will reach it.                 *)
Reaches(q, p) == p \in linked[q] /\ Listens(p, q)
(* p has the number of q, unless a message on its way changes that; the    *)
(* last message that tells a number tells the current one.                 *)
Silent(w, n) == \A j \in DOMAIN w : j > n => w[j].guid = Unassigned
Knows(l, w, g) ==
  \/ l = g /\ Silent(w, 0)
  \/ \E i \in DOMAIN w : w[i].guid = g /\ Silent(w, i)
Told ==
  \A p, q \in Peer :
    Reaches(q, p) /\ guid[q] # Unassigned => Knows(list[p][q], wire[q][p], guid[q])

(* A peer without a number has asked for a count, or an answer that makes  *)
(* it draw one is on its way.                                              *)
Asks(w) == \E i \in DOMAIN w : w[i].type = "REQUEST" /\ w[i].guid = Unassigned
Answers(w) == \E i \in DOMAIN w : w[i].type # "REQUEST" \/ w[i].guid # Unassigned
Awaited ==
  \A p, q \in Peer :
    Reaches(q, p) /\ guid[q] = Unassigned => Asks(wire[q][p]) \/ Answers(wire[p][q])

MeshInv == Typed /\ Numbered /\ Participating /\ HostKept /\ Told /\ Awaited

-----------------------------------------------------------------------------
(* Numbers                                                                 *)

(* The assumptions on the constants, one by one.                           *)
LEMMA Constants ==
  /\ IsFiniteSet(Peer) /\ Elder \in [Peer -> Nat]
  /\ Dials \subseteq Peer \X Peer /\ \A d \in Dials : d[1] # d[2]
  /\ RandomSpan \in Nat \ {0} /\ Resetter \subseteq Peer
  /\ \A p \in Peer : Chance[p] \subseteq 0 .. RandomSpan - 1
  /\ \A p, q \in Peer : p # q => Chance[p] \cap Chance[q] = {}
  BY MeshAssumption

(* A number drawn with a count other than 0.                               *)
LEMMA DrawnNumber ==
  ASSUME NEW p \in Peer, NEW n \in Nat \ {0}, NEW r \in Chance[p]
  PROVE  n * RandomSpan + r \in Numbers(p)
  <1>1. r \in Nat /\ RandomSpan \in Nat BY Constants
  <1>2. n * RandomSpan + r \in Nat BY <1>1
  <1> QED BY <1>2 DEF Numbers

(* A number is at least a span of the random part.                         *)
LEMMA NumberRange ==
  ASSUME NEW p \in Peer, NEW g \in Numbers(p) PROVE g \in Nat /\ g >= RandomSpan
  <1>1. g \in Nat /\ \E n \in Nat \ {0}, r \in Chance[p] : g = n * RandomSpan + r
    BY DEF Numbers
  <1>2. PICK n \in Nat \ {0}, r \in Chance[p] : g = n * RandomSpan + r BY <1>1
  <1>3. r \in Nat /\ RandomSpan \in Nat \ {0} BY Constants
  <1>4. n * RandomSpan >= RandomSpan BY <1>3
  <1> QED BY <1>1, <1>2, <1>3, <1>4

(* Two peers never draw the same number.                                   *)
LEMMA NumbersDiffer ==
  ASSUME NEW p \in Peer, NEW q \in Peer, p # q, NEW g \in Numbers(p), NEW h \in Numbers(q)
  PROVE  g # h
  <1>1. g \in Nat /\ \E n \in Nat \ {0}, r \in Chance[p] : g = n * RandomSpan + r
    BY DEF Numbers
  <1>2. PICK n \in Nat \ {0}, r \in Chance[p] : g = n * RandomSpan + r BY <1>1
  <1>3. h \in Nat /\ \E m \in Nat \ {0}, s \in Chance[q] : h = m * RandomSpan + s
    BY DEF Numbers
  <1>4. PICK m \in Nat \ {0}, s \in Chance[q] : h = m * RandomSpan + s BY <1>3
  <1>5. RandomSpan \in Nat \ {0} /\ r \in 0 .. RandomSpan - 1 /\ s \in 0 .. RandomSpan - 1
    BY Constants
  <1>a. g \in Int /\ h \in Int /\ n \in Int /\ m \in Int BY <1>1, <1>3
  <1>6. g % RandomSpan = r BY <1>a, <1>2, <1>5, ModUnique, Zenon
  <1>7. h % RandomSpan = s BY <1>a, <1>4, <1>5, ModUnique, Zenon
  <1>8. r # s BY Constants
  <1> QED BY <1>6, <1>7, <1>8

-----------------------------------------------------------------------------
(* The host of a list                                                      *)

(* A nonempty set of peers below g has one with the least number.          *)
LEMMA LeastLower ==
  ASSUME NEW l \in [Peer -> Nat \cup {Absent}], NEW g \in Nat, Lower(l, g) # {}
  PROVE  \E q \in Lower(l, g) : \A r \in Lower(l, g) : l[q] <= l[r]
  <1> DEFINE T == {l[q] : q \in Lower(l, g)}
  <1>1. T \in SUBSET Nat /\ T # {} BY DEF Lower, Absent
  <1>2. \E n \in T : \A m \in T : n <= m
    <2> HIDE DEF T
    <2> QED BY <1>1, LeastNumber
  <1> QED BY <1>2

(* What HostOf gives: the peer with the least number below g, or p.        *)
LEMMA HostOfLeast ==
  ASSUME NEW l \in [Peer -> Nat \cup {Absent}], NEW g \in Nat, NEW p \in Peer
  PROVE  /\ HostOf(l, g, p) \in Peer
         /\ Lower(l, g) = {} => HostOf(l, g, p) = p
         /\ Lower(l, g) # {} =>
              /\ HostOf(l, g, p) \in Lower(l, g)
              /\ \A r \in Lower(l, g) : l[HostOf(l, g, p)] <= l[r]
  <1>1. CASE Lower(l, g) = {} BY <1>1 DEF HostOf
  <1>2. CASE Lower(l, g) # {}
    <2>1. HostOf(l, g, p) = CHOOSE q \in Lower(l, g) : \A r \in Lower(l, g) : l[q] <= l[r]
      BY <1>2 DEF HostOf
    <2>2. \E q \in Lower(l, g) : \A r \in Lower(l, g) : l[q] <= l[r] BY <1>2, LeastLower
    <2>3. /\ HostOf(l, g, p) \in Lower(l, g)
          /\ \A r \in Lower(l, g) : l[HostOf(l, g, p)] <= l[r]
      BY <2>1, <2>2, Zenon
    <2>4. Lower(l, g) \subseteq Peer BY DEF Lower
    <2> QED BY <1>2, <2>3, <2>4
  <1> QED BY <1>1, <1>2

(* CalculateHost looks at the list and the number only.                    *)
LEMMA CalculateHostIs ==
  ASSUME NEW f, NEW p
  PROVE  CalculateHost(f, p) = HostOf(f.list, f.guid, p)
  <1> DEFINE lower == {q \in Participants(f) : f.list[q] # Unassigned /\ f.list[q] < f.guid}
  <1>1. lower = Lower(f.list, f.guid) BY DEF Participants, Lower
  <1>2. CalculateHost(f, p) = IF lower = {} THEN p
                              ELSE CHOOSE q \in lower : \A r \in lower : f.list[q] <= f.list[r]
    BY DEF CalculateHost
  <1> HIDE DEF lower
  <1> QED BY <1>1, <1>2, Zenon DEF HostOf

(* A list is complete when no participant's number is unknown.             *)
LEMMA CompleteIs ==
  ASSUME NEW f PROVE ParticipantListComplete(f) <=> Complete(f.list)
  BY DEF ParticipantListComplete, Complete, Participants, Absent, Unassigned

(* The host stays when another participant leaves.                         *)
LEMMA HostStays ==
  ASSUME NEW l \in [Peer -> Nat \cup {Absent}], NEW g \in Nat, NEW p \in Peer, NEW q \in Peer,
         \A r \in Peer : l[r] \notin {Absent, Unassigned} => l[r] \in Numbers(r),
         HostOf(l, g, p) # q
  PROVE  HostOf([l EXCEPT ![q] = Absent], g, p) = HostOf(l, g, p)
  <1> DEFINE k == [l EXCEPT ![q] = Absent]
             h == HostOf(l, g, p)
             i == HostOf(k, g, p)
  <1>1. k \in [Peer -> Nat \cup {Absent}] OBVIOUS
  <1>2. Lower(k, g) = Lower(l, g) \ {q} BY DEF Lower
  <1>3. \A r \in Lower(k, g) : k[r] = l[r] BY DEF Lower
  <1>4. /\ Lower(l, g) = {} => h = p
        /\ Lower(l, g) # {} => h \in Lower(l, g) /\ \A r \in Lower(l, g) : l[h] <= l[r]
    BY HostOfLeast
  <1>5. /\ Lower(k, g) = {} => i = p
        /\ Lower(k, g) # {} => i \in Lower(k, g) /\ \A r \in Lower(k, g) : k[i] <= k[r]
    <2> HIDE DEF k
    <2> QED BY <1>1, HostOfLeast
  <1> HIDE DEF k, h, i
  <1>6. h # q BY DEF h
  <1>7. CASE Lower(l, g) = {} BY <1>7, <1>2, <1>4, <1>5 DEF h, i, k
  <1>8. CASE Lower(l, g) # {}
    <2>1. h \in Lower(k, g) BY <1>8, <1>4, <1>2, <1>6
    <2>2. i \in Lower(k, g) /\ k[i] <= k[h] BY <2>1, <1>5
    <2>3. l[i] <= l[h] /\ l[h] <= l[i] BY <2>1, <2>2, <1>2, <1>3, <1>4
    <2>4. l[i] = l[h] BY <2>3, <2>1, <2>2, <1>2 DEF Lower, Absent
    <2>5. i \in Peer /\ h \in Peer /\ l[i] \in Numbers(i) /\ l[h] \in Numbers(h)
      BY <2>1, <2>2, <1>2 DEF Lower
    <2>6. i = h BY <2>4, <2>5, NumbersDiffer
    <2> QED BY <2>6 DEF i, h, k
  <1> QED BY <1>7, <1>8

-----------------------------------------------------------------------------
(* A peer while one of its handlers runs                                   *)

LocalState ==
  [list : [Peer -> Nat \cup {Absent}], guid : Nat, total : Nat,
   host : Peer \cup {NoHost}, pushed : Peer \cup {NoHost}, since : Nat,
   excused : BOOLEAN, out : [Peer -> Seq(Message)]]

(* A handler starts from a well-typed state with nothing sent.             *)
LEMMA SelfState ==
  ASSUME Typed, NEW p \in Peer
  PROVE  /\ Self(p) \in LocalState
         /\ Self(p).list = list[p] /\ Self(p).guid = guid[p] /\ Self(p).total = total[p]
         /\ Self(p).host = host[p] /\ Self(p).pushed = pushed[p]
         /\ Self(p).since = started[p] /\ Self(p).excused = (p \in excused)
         /\ Self(p).out = [q \in Peer |-> <<>>]
  BY DEF Self, LocalState, Typed

(* The messages are well typed.                                            *)
LEMMA MsgType ==
  ASSUME NEW t \in {"REQUEST", "RESPOND", "INFORM"}, NEW g \in Nat, NEW n \in Nat, NEW s \in Nat
  PROVE  /\ Msg(t, g, n, s) \in Message
         /\ Msg(t, g, n, s).type = t /\ Msg(t, g, n, s).guid = g /\ Msg(t, g, n, s).count = n
  BY DEF Msg, Message

(* Say appends the message to what goes to the addressees.                 *)
LEMMA SayState ==
  ASSUME NEW f \in LocalState, NEW whom, NEW m \in Message
  PROVE  /\ Say(f, whom, m) \in LocalState
         /\ Say(f, whom, m).list = f.list /\ Say(f, whom, m).guid = f.guid
         /\ Say(f, whom, m).total = f.total /\ Say(f, whom, m).host = f.host
         /\ Say(f, whom, m).pushed = f.pushed /\ Say(f, whom, m).excused = f.excused
         /\ \A q \in Peer : Say(f, whom, m).out[q]
                              = IF q \in whom THEN Append(f.out[q], m) ELSE f.out[q]
  <1> DEFINE o == [q \in Peer |-> IF q \in whom THEN Append(f.out[q], m) ELSE f.out[q]]
  <1>1. Say(f, whom, m) = [f EXCEPT !.out = o] BY DEF Say
  <1>2. o \in [Peer -> Seq(Message)] BY DEF LocalState
  <1>3. \A q \in Peer : o[q] = IF q \in whom THEN Append(f.out[q], m) ELSE f.out[q] OBVIOUS
  <1> HIDE DEF o
  <1> QED BY <1>1, <1>2, <1>3 DEF LocalState

(* IncrementTotalConnectionCount changes the count only, never downwards.  *)
LEMMA IncrementState ==
  ASSUME NEW f \in LocalState, NEW n \in Nat
  PROVE  LET g == IncrementTotalConnectionCount(f, n) IN
         /\ g \in LocalState
         /\ g.list = f.list /\ g.guid = f.guid /\ g.host = f.host /\ g.pushed = f.pushed
         /\ g.excused = f.excused /\ g.out = f.out /\ g.total >= n /\ g.total >= f.total
  <1>1. CASE n > f.total
    <2>1. IncrementTotalConnectionCount(f, n) = [f EXCEPT !.total = n]
      BY <1>1 DEF IncrementTotalConnectionCount
    <2> DEFINE e == [f EXCEPT !.total = n]
    <2>2. /\ e \in LocalState /\ e.list = f.list /\ e.guid = f.guid /\ e.host = f.host
          /\ e.pushed = f.pushed /\ e.excused = f.excused /\ e.out = f.out /\ e.total = n
      BY DEF LocalState
    <2>3. f.total \in Nat BY DEF LocalState
    <2> HIDE DEF e
    <2> QED BY <1>1, <2>1, <2>2, <2>3 DEF e
  <1>2. CASE ~(n > f.total)
    <2>1. IncrementTotalConnectionCount(f, n) = f BY <1>2 DEF IncrementTotalConnectionCount
    <2>2. f.total \in Nat /\ f.total >= n BY <1>2 DEF LocalState
    <2> QED BY <2>1, <2>2
  <1> QED BY <1>1, <1>2

(* What AddParticipantInternal does with a participant already there.      *)
LEMMA AddKnown ==
  ASSUME NEW f \in LocalState, NEW q \in Peer, NEW n \in Nat, f.list[q] # Absent
  PROVE  LET g == AddParticipantInternal(f, q, n) IN
         /\ g \in LocalState
         /\ g.list = IF n # Unassigned THEN [f.list EXCEPT ![q] = n] ELSE f.list
         /\ g.guid = f.guid /\ g.total = f.total /\ g.host = f.host /\ g.pushed = f.pushed
         /\ g.excused = f.excused /\ g.out = f.out
  <1>1. CASE n # Unassigned
    <2>1. AddParticipantInternal(f, q, n) = [f EXCEPT !.list[q] = n]
      BY <1>1 DEF AddParticipantInternal
    <2> QED BY ZenonT(40), <1>1, <2>1 DEF LocalState
  <1>2. CASE n = Unassigned
    <2>1. AddParticipantInternal(f, q, n) = f BY <1>2 DEF AddParticipantInternal
    <2> QED BY <1>2, <2>1
  <1> QED BY <1>1, <1>2

(* What it does with a new one: its number is unknown, ours is told.       *)
LEMMA AddNew ==
  ASSUME NEW f \in LocalState, NEW q \in Peer, f.list[q] = Absent
  PROVE  LET g == AddParticipantInternal(f, q, Unassigned) IN
         /\ g \in LocalState /\ g.list = [f.list EXCEPT ![q] = Unassigned]
         /\ g.guid = f.guid /\ g.total = f.total /\ g.host = f.host /\ g.pushed = f.pushed
         /\ g.excused = f.excused
         /\ \A r \in Peer :
              g.out[r] = IF r = q THEN Append(f.out[r], FCMGuidRequest(f)) ELSE f.out[r]
  <1> DEFINE e == [f EXCEPT !.list[q] = Unassigned]
             m == FCMGuidRequest(f)
  <1>1. AddParticipantInternal(f, q, Unassigned) = Say(e, {q}, m)
    BY DEF AddParticipantInternal
  <1>2. e \in LocalState /\ e.list = [f.list EXCEPT ![q] = Unassigned] /\ e.guid = f.guid
        /\ e.total = f.total /\ e.host = f.host /\ e.pushed = f.pushed
        /\ e.excused = f.excused /\ e.out = f.out
    BY DEF LocalState, Unassigned
  <1>3. m \in Message BY DEF FCMGuidRequest, Msg, Message, LocalState, Unassigned
  <1> HIDE DEF e, m
  <1>4. \A r : r \in {q} <=> r = q OBVIOUS
  <1> QED BY <1>1, <1>2, <1>3, <1>4, SayState DEF m

(* A peer that is not excused announced the host it has.                   *)
Fresh(f) == ~f.excused => f.host = f.pushed
(* ... and it is the one its list gives.                                   *)
Right(f, p) == ~f.excused => HostRight(f.list, f.guid, p, f.host, f.pushed)

(* PushNewHost announces the host.                                         *)
LEMMA PushState ==
  ASSUME NEW f \in LocalState, NEW h \in Peer
  PROVE  LET g == PushNewHost(f, h) IN
         /\ g \in LocalState
         /\ g.list = f.list /\ g.guid = f.guid /\ g.total = f.total /\ g.out = f.out
         /\ g.host = h /\ g.pushed = h /\ g.excused = FALSE
  BY DEF PushNewHost, LocalState

(* After CalculateAndPushHost the host is the one the list gives.          *)
LEMMA CalculateState ==
  ASSUME NEW f \in LocalState, NEW p \in Peer, Fresh(f)
  PROVE  LET g == CalculateAndPushHost(f, p) IN
         /\ g \in LocalState
         /\ g.list = f.list /\ g.guid = f.guid /\ g.total = f.total /\ g.out = f.out
         /\ Right(g, p)
  <1> DEFINE h == HostOf(f.list, f.guid, p)
             e == PushNewHost(f, h)
  <1>1. CalculateHost(f, p) = h BY CalculateHostIs
  <1>2. ParticipantListComplete(f) <=> Complete(f.list) BY CompleteIs
  <1>3. CalculateAndPushHost(f, p) = IF Complete(f.list) /\ h # f.pushed THEN e ELSE f
    BY <1>1, <1>2 DEF CalculateAndPushHost
  <1>4. h \in Peer BY HostOfLeast DEF LocalState
  <1>5. /\ e \in LocalState
        /\ e.list = f.list /\ e.guid = f.guid /\ e.total = f.total /\ e.out = f.out
        /\ e.host = h /\ e.pushed = h /\ e.excused = FALSE
    <2> HIDE DEF h
    <2> QED BY <1>4, PushState
  <1> HIDE DEF e
  <1>6. CASE Complete(f.list) /\ h # f.pushed
    BY <1>3, <1>5, <1>6 DEF Right, HostRight
  <1>7. CASE ~(Complete(f.list) /\ h # f.pushed)
    BY <1>3, <1>7 DEF Right, HostRight, Fresh
  <1> QED BY <1>6, <1>7

-----------------------------------------------------------------------------
(* Messages on their way                                                   *)

(* One more message, which tells nothing or the current number.            *)
LEMMA KnowsAppend ==
  ASSUME NEW l, NEW w \in Seq(Message), NEW g, g # Unassigned, NEW x \in Message,
         Knows(l, w, g), x.guid # Unassigned => x.guid = g
  PROVE  Knows(l, w \o <<x>>, g)
  <1> DEFINE v == w \o <<x>>
  <1>1. /\ v \in Seq(Message) /\ Len(v) = Len(w) + 1 /\ v[Len(w) + 1] = x
        /\ \A i \in DOMAIN w : v[i] = w[i] /\ i \in DOMAIN v
        /\ \A i \in DOMAIN v : i \in DOMAIN w \/ i = Len(w) + 1
        /\ Len(w) \in Nat /\ Len(w) + 1 \in DOMAIN v
        /\ \A i \in DOMAIN v : i \in Nat /\ i <= Len(w) + 1
    OBVIOUS
  <1> HIDE DEF v
  <1>2. CASE x.guid = g
    <2>1. Silent(v, Len(w) + 1) BY <1>1 DEF Silent
    <2> QED BY <1>1, <1>2, <2>1 DEF Knows, v
  <1>3. CASE x.guid = Unassigned
    <2>1. \A n \in Nat : Silent(w, n) => Silent(v, n) BY <1>1, <1>3 DEF Silent
    <2>2. CASE l = g /\ Silent(w, 0) BY <2>1, <2>2 DEF Knows, v
    <2>3. CASE \E i \in DOMAIN w : w[i].guid = g /\ Silent(w, i)
      <3>1. PICK i \in DOMAIN w : w[i].guid = g /\ Silent(w, i) BY <2>3
      <3>2. Silent(v, i) BY <3>1, <2>1
      <3> QED BY <3>1, <3>2, <1>1 DEF Knows, v
    <2> QED BY <2>2, <2>3 DEF Knows
  <1> QED BY <1>2, <1>3

(* One more message, which tells the number.                               *)
LEMMA KnowsTold ==
  ASSUME NEW l, NEW w \in Seq(Message), NEW x \in Message PROVE Knows(l, w \o <<x>>, x.guid)
  <1> DEFINE v == w \o <<x>>
  <1>1. /\ v[Len(w) + 1] = x /\ Len(w) + 1 \in DOMAIN v
        /\ \A i \in DOMAIN v : ~(i > Len(w) + 1)
    OBVIOUS
  <1> HIDE DEF v
  <1>2. Silent(v, Len(w) + 1) BY <1>1 DEF Silent
  <1> QED BY <1>1, <1>2 DEF Knows, v

(* The first message is handled: a number it tells goes to the list.       *)
LEMMA KnowsTail ==
  ASSUME NEW l, NEW w \in Seq(Message), NEW g, g # Unassigned, w # <<>>, Knows(l, w, g)
  PROVE  Knows(IF Head(w).guid # Unassigned THEN Head(w).guid ELSE l, Tail(w), g)
  <1> DEFINE t == Tail(w)
             k == IF Head(w).guid # Unassigned THEN Head(w).guid ELSE l
  <1>1. /\ Head(w) = w[1] /\ 1 \in DOMAIN w /\ DOMAIN w = 1 .. Len(w) /\ Len(w) \in Nat
        /\ \A j \in DOMAIN t : j \in Nat \ {0} /\ t[j] = w[j + 1] /\ j + 1 \in DOMAIN w
        /\ \A i \in DOMAIN w : i # 1 => i - 1 \in DOMAIN t /\ t[i - 1] = w[i]
    OBVIOUS
  <1> HIDE DEF t
  <1>2. ASSUME NEW i \in Nat, Silent(w, i + 1) PROVE Silent(t, i) BY <1>1, <1>2 DEF Silent
  <1>3. CASE l = g /\ Silent(w, 0)
    <2>1. Silent(w, 1) /\ w[1].guid = Unassigned BY <1>1, <1>3 DEF Silent
    <2>2. Silent(t, 0) BY <2>1, <1>2
    <2> QED BY <1>1, <1>3, <2>1, <2>2 DEF Knows, t
  <1>4. CASE \E i \in DOMAIN w : w[i].guid = g /\ Silent(w, i)
    <2>1. PICK i \in DOMAIN w : w[i].guid = g /\ Silent(w, i) BY <1>4
    <2>2. CASE i = 1
      <3>1. Silent(t, 0) BY <2>1, <2>2, <1>2
      <3>2. k = g BY <1>1, <2>1, <2>2
      <3> QED BY <3>1, <3>2 DEF Knows, t
    <2>3. CASE i # 1
      <3>1. i - 1 \in Nat /\ i - 1 \in DOMAIN t /\ t[i - 1].guid = g BY <1>1, <2>1, <2>3
      <3>2. Silent(t, i - 1) BY <2>1, <3>1, <1>2
      <3> QED BY <3>1, <3>2 DEF Knows, t
    <2> QED BY <2>2, <2>3
  <1> QED BY <1>3, <1>4 DEF Knows

(* A request or an answer on its way stays when a message is added ...     *)
LEMMA WaitingAppend ==
  ASSUME NEW w \in Seq(Message), NEW x \in Message
  PROVE  /\ Asks(w) => Asks(w \o <<x>>)
         /\ Answers(w) => Answers(w \o <<x>>)
         /\ x.type = "REQUEST" /\ x.guid = Unassigned => Asks(w \o <<x>>)
         /\ x.type # "REQUEST" \/ x.guid # Unassigned => Answers(w \o <<x>>)
  <1> DEFINE v == w \o <<x>>
  <1>1. /\ v[Len(w) + 1] = x /\ Len(w) + 1 \in DOMAIN v
        /\ \A i \in DOMAIN w : v[i] = w[i] /\ i \in DOMAIN v
    OBVIOUS
  <1> HIDE DEF v
  <1> QED BY <1>1 DEF Asks, Answers, v

(* ... and when another one is handled.                                    *)
LEMMA WaitingTail ==
  ASSUME NEW w \in Seq(Message), w # <<>>
  PROVE  /\ Asks(w) => Asks(Tail(w)) \/ (Head(w).type = "REQUEST" /\ Head(w).guid = Unassigned)
         /\ Answers(w) => Answers(Tail(w)) \/ Head(w).type # "REQUEST" \/ Head(w).guid # Unassigned
  <1> DEFINE t == Tail(w)
  <1>1. /\ Head(w) = w[1]
        /\ \A i \in DOMAIN w : i # 1 => i - 1 \in DOMAIN t /\ t[i - 1] = w[i]
    OBVIOUS
  <1> HIDE DEF t
  <1> QED BY <1>1 DEF Asks, Answers, t

-----------------------------------------------------------------------------
(* The end of a handler                                                    *)

(* A handler sends a peer at most one message, with no number or its own.  *)
OneMessage(o, p, g) ==
  \/ o = <<>>
  \/ \E x \in MessageOf(p) : o = <<x>> /\ (x.guid # Unassigned => x.guid = g)
(* What a handler of p leaves in order.                                    *)
Well(p, f) ==
  /\ f \in LocalState
  /\ f.guid # Unassigned => f.guid \in Numbers(p) /\ f.total # 0
  /\ \A r \in Peer : f.list[r] \notin {Absent, Unassigned} => f.list[r] \in Numbers(r)
  /\ \A r \in Peer : OneMessage(f.out[r], p, f.guid)
  /\ Right(f, p)
(* A wire with messages of the peers they come from.                       *)
Carries(w) ==
  /\ w \in [Peer -> [Peer -> Seq(Message)]]
  /\ \A p, q \in Peer : \A i \in DOMAIN w[q][p] : w[q][p][i] \in MessageOf(q)

(* Become, value by value.                                                 *)
Gets(r, p) == r \in linked'[p] /\ (Listens(r, p) \/ <<r, p>> \in dialing')
Became(p, f, w) ==
  /\ list' \in [Peer -> [Peer -> Nat \cup {Absent}]] /\ guid' \in [Peer -> Nat]
  /\ total' \in [Peer -> Nat] /\ host' \in [Peer -> Peer \cup {NoHost}]
  /\ pushed' \in [Peer -> Peer \cup {NoHost}] /\ wire' \in [Peer -> [Peer -> Seq(Message)]]
  /\ list'[p] = f.list /\ guid'[p] = f.guid /\ total'[p] = f.total /\ host'[p] = f.host
  /\ pushed'[p] = f.pushed /\ (p \in excused' <=> f.excused)
  /\ \A r \in Peer : r # p => /\ list'[r] = list[r] /\ guid'[r] = guid[r]
                              /\ total'[r] = total[r] /\ host'[r] = host[r]
                              /\ pushed'[r] = pushed[r] /\ (r \in excused' <=> r \in excused)
                              /\ wire'[r] = w[r]
  /\ \A r \in Peer : wire'[p][r] = IF Gets(r, p) THEN w[p][r] \o f.out[r] ELSE w[p][r]

(* A handler's new state is written back at its peer alone, and what it    *)
(* sent is appended to the links of that peer.                             *)
LEMMA BecomeEffect ==
  ASSUME Typed, NEW p \in Peer, NEW f \in LocalState,
         NEW w \in [Peer -> [Peer -> Seq(Message)]], Become(p, f, w)
  PROVE  Became(p, f, w)
  <1> USE DEF Typed
  <1>1. /\ list' = [list EXCEPT ![p] = f.list] /\ guid' = [guid EXCEPT ![p] = f.guid]
        /\ total' = [total EXCEPT ![p] = f.total] /\ host' = [host EXCEPT ![p] = f.host]
        /\ pushed' = [pushed EXCEPT ![p] = f.pushed]
    BY DEF Become
  <1>2. f.list \in [Peer -> Nat \cup {Absent}] /\ f.guid \in Nat /\ f.total \in Nat
        /\ f.host \in Peer \cup {NoHost} /\ f.pushed \in Peer \cup {NoHost}
        /\ f.excused \in BOOLEAN /\ f.out \in [Peer -> Seq(Message)]
    BY DEF LocalState
  <1>3. excused' = IF f.excused THEN excused \cup {p} ELSE excused \ {p} BY DEF Become
  <1> DEFINE o == [q \in Peer |-> w[p][q] \o IF Gets(q, p) THEN f.out[q] ELSE <<>>]
  <1>4. wire' = [w EXCEPT ![p] = o] BY DEF Become, Gets
  <1>5. \A q \in Peer : o[q] = w[p][q] \o IF Gets(q, p) THEN f.out[q] ELSE <<>> OBVIOUS
  <1>6. o \in [Peer -> Seq(Message)]
    <2> SUFFICES ASSUME NEW q \in Peer
                 PROVE  w[p][q] \o (IF Gets(q, p) THEN f.out[q] ELSE <<>>) \in Seq(Message)
      OBVIOUS
    <2>1. w[p][q] \in Seq(Message) /\ f.out[q] \in Seq(Message) BY <1>2
    <2>2. <<>> \in Seq(Message) OBVIOUS
    <2> QED BY <2>1, <2>2
  <1> HIDE DEF o
  <1>7. wire' \in [Peer -> [Peer -> Seq(Message)]] /\ wire'[p] = o
        /\ \A r \in Peer : r # p => wire'[r] = w[r]
    BY <1>4, <1>6
  <1>8. ASSUME NEW r \in Peer
        PROVE  wire'[p][r] = IF Gets(r, p) THEN w[p][r] \o f.out[r] ELSE w[p][r]
    <2>1. w[p][r] \in Seq(Message) OBVIOUS
    <2>2. w[p][r] \o <<>> = w[p][r] BY <2>1
    <2> QED BY <1>5, <1>7, <2>2
  <1>9. list' \in [Peer -> [Peer -> Nat \cup {Absent}]] /\ list'[p] = f.list
        /\ \A r \in Peer : r # p => list'[r] = list[r]
    BY <1>1, <1>2
  <1>10. guid' \in [Peer -> Nat] /\ guid'[p] = f.guid /\ total' \in [Peer -> Nat]
         /\ total'[p] = f.total /\ \A r \in Peer : r # p => guid'[r] = guid[r] /\ total'[r] = total[r]
    BY <1>1, <1>2
  <1>11. host' \in [Peer -> Peer \cup {NoHost}] /\ pushed' \in [Peer -> Peer \cup {NoHost}]
         /\ host'[p] = f.host /\ pushed'[p] = f.pushed
         /\ \A r \in Peer : r # p => host'[r] = host[r] /\ pushed'[r] = pushed[r]
    BY <1>1, <1>2
  <1>12. (p \in excused' <=> f.excused) /\ \A r \in Peer : r # p => (r \in excused' <=> r \in excused)
    BY <1>2, <1>3
  <1> QED BY <1>7, <1>8, <1>9, <1>10, <1>11, <1>12 DEF Became

(* A handler that leaves things in order keeps the parts of the invariant  *)
(* that look at one peer, one list or one message.                         *)
LEMMA BecameKeeps ==
  ASSUME Typed, Numbered, HostKept, NEW p \in Peer, NEW f, Well(p, f), NEW w, Carries(w),
         Became(p, f, w), linked' \in [Peer -> SUBSET Peer], dialing' \subseteq Peer \X Peer,
         started' \in [Peer -> Nat]
  PROVE  Typed' /\ Numbered' /\ HostKept'
  <1>1. Typed' BY DEF Typed, Became
  <1>2. ASSUME NEW r \in Peer, guid'[r] # Unassigned PROVE guid'[r] \in Numbers(r) /\ total'[r] # 0
    <2>1. CASE r = p BY <1>2, <2>1 DEF Became, Well
    <2>2. CASE r # p BY <1>2, <2>2 DEF Became, Numbered
    <2> QED BY <2>1, <2>2
  <1>3. ASSUME NEW r \in Peer, NEW q \in Peer, list'[r][q] \notin {Absent, Unassigned}
        PROVE  list'[r][q] \in Numbers(q)
    <2>1. CASE r = p BY <1>3, <2>1 DEF Became, Well
    <2>2. CASE r # p BY <1>3, <2>2 DEF Became, Numbered
    <2> QED BY <2>1, <2>2
  <1>4. ASSUME NEW r \in Peer, NEW q \in Peer, NEW i \in DOMAIN wire'[q][r]
        PROVE  wire'[q][r][i] \in MessageOf(q)
    <2>1. CASE q # p BY <2>1 DEF Became, Carries
    <2>2. CASE q = p
      <3>1. w[p][r] \in Seq(Message) /\ \A j \in DOMAIN w[p][r] : w[p][r][j] \in MessageOf(p)
        BY DEF Carries
      <3>2. wire'[p][r] = w[p][r] \/ wire'[p][r] = w[p][r] \o f.out[r] BY DEF Became
      <3>3. CASE wire'[p][r] = w[p][r] BY <2>2, <3>1, <3>3
      <3>4. CASE wire'[p][r] = w[p][r] \o f.out[r]
        <4>1. CASE f.out[r] = <<>> BY <2>2, <3>1, <3>4, <4>1
        <4>2. CASE \E x \in MessageOf(p) : f.out[r] = <<x>>
          <5>1. PICK x \in MessageOf(p) : f.out[r] = <<x>> BY <4>2
          <5>2. \A j \in DOMAIN (w[p][r] \o <<x>>) :
                  (j \in DOMAIN w[p][r] /\ (w[p][r] \o <<x>>)[j] = w[p][r][j])
                  \/ (w[p][r] \o <<x>>)[j] = x
            BY <3>1
          <5> QED BY <2>2, <3>1, <3>4, <5>1, <5>2
        <4> QED BY <4>1, <4>2 DEF Well, OneMessage
      <3> QED BY <3>2, <3>3, <3>4
    <2> QED BY <2>1, <2>2
  <1>5. Numbered' BY <1>2, <1>3, <1>4 DEF Numbered
  <1>6. ASSUME NEW r \in Peer, r \notin excused'
        PROVE  HostRight(list'[r], guid'[r], r, host'[r], pushed'[r])
    <2>1. CASE r = p
      <3>1. list'[p] = f.list /\ guid'[p] = f.guid /\ host'[p] = f.host /\ pushed'[p] = f.pushed
            /\ ~f.excused
        BY <1>6, <2>1 DEF Became
      <3>2. HostRight(f.list, f.guid, p, f.host, f.pushed) BY <3>1 DEF Well, Right
      <3> QED BY <2>1, <3>1, <3>2
    <2>2. CASE r # p
      <3>1. list'[r] = list[r] /\ guid'[r] = guid[r] /\ host'[r] = host[r] /\ pushed'[r] = pushed[r]
            /\ r \notin excused
        BY <1>6, <2>2 DEF Became
      <3>2. HostRight(list[r], guid[r], r, host[r], pushed[r]) BY <3>1 DEF HostKept
      <3> QED BY <3>1, <3>2
    <2> QED BY <2>1, <2>2
  <1>7. HostKept'
    <2>1. \A r \in Peer : r \notin excused' =>
            HostRight(list'[r], guid'[r], r, host'[r], pushed'[r])
      BY <1>6
    <2> QED BY <2>1, Zenon DEF HostKept
  <1> QED BY <1>1, <1>5, <1>7

-----------------------------------------------------------------------------
(* The answer to a message                                                 *)

(* A handler that has sent nothing yet, its numbers in order.              *)
Ready(p, f) ==
  /\ f \in LocalState /\ Fresh(f)
  /\ f.guid # Unassigned => f.guid \in Numbers(p) /\ f.total # 0
  /\ \A r \in Peer : f.list[r] \notin {Absent, Unassigned} => f.list[r] \in Numbers(r)
  /\ \A r \in Peer : f.out[r] = <<>>

(* It says one thing to some peers and calculates the host.                *)
LEMMA SayWell ==
  ASSUME NEW p \in Peer, NEW f, Ready(p, f), NEW whom, NEW x \in MessageOf(p),
         x.guid # Unassigned => x.guid = f.guid
  PROVE  LET e == CalculateAndPushHost(Say(f, whom, x), p) IN
         /\ Well(p, e) /\ e.list = f.list /\ e.guid = f.guid
         /\ \A r \in Peer : r \in whom => e.out[r] = <<x>>
  <1> DEFINE s == Say(f, whom, x)
             e == CalculateAndPushHost(s, p)
  <1>1. f \in LocalState /\ x \in Message /\ Fresh(f) BY DEF Ready, MessageOf
  <1>2. /\ s \in LocalState /\ s.list = f.list /\ s.guid = f.guid /\ s.total = f.total
        /\ s.host = f.host /\ s.pushed = f.pushed /\ s.excused = f.excused
        /\ \A q \in Peer : s.out[q] = IF q \in whom THEN Append(f.out[q], x) ELSE f.out[q]
    BY <1>1, SayState
  <1> HIDE DEF s
  <1>3. Fresh(s) BY <1>1, <1>2 DEF Fresh
  <1>4. /\ e \in LocalState /\ e.list = s.list /\ e.guid = s.guid /\ e.total = s.total
        /\ e.out = s.out /\ Right(e, p)
    BY <1>2, <1>3, CalculateState
  <1> HIDE DEF e
  <1>5. \A q \in Peer : e.out[q] = IF q \in whom THEN <<x>> ELSE <<>>
    <2>1. Append(<<>>, x) = <<x>> OBVIOUS
    <2> QED BY <1>2, <1>4, <2>1, Zenon DEF Ready
  <1>6. \A q \in Peer : OneMessage(e.out[q], p, e.guid) BY <1>2, <1>4, <1>5 DEF OneMessage
  <1>7. e.guid # Unassigned => e.guid \in Numbers(p) /\ e.total # 0 BY <1>2, <1>4 DEF Ready
  <1>8. \A r \in Peer : e.list[r] \notin {Absent, Unassigned} => e.list[r] \in Numbers(r)
    BY <1>2, <1>4 DEF Ready
  <1>9. Well(p, e) BY <1>4, <1>6, <1>7, <1>8 DEF Well
  <1> QED BY <1>2, <1>4, <1>5, <1>9 DEF e, s

(* Drawing a number.                                                       *)
LEMMA DrawReady ==
  ASSUME NEW p \in Peer, NEW f, Ready(p, f), f.total # 0, NEW g \in Draws(f, p)
  PROVE  Ready(p, g) /\ g.list = f.list /\ g.total = f.total /\ g.guid \in Numbers(p)
  <1>1. PICK r \in Chance[p] : g = AssignOurFCMGuid(f, r) BY DEF Draws
  <1> DEFINE n == f.total * RandomSpan + r
  <1>2. f \in LocalState /\ f.total \in Nat \ {0} BY DEF Ready, LocalState
  <1>3. n \in Numbers(p) BY <1>2, DrawnNumber
  <1>4. n \in Nat BY <1>3 DEF Numbers
  <1>5. g = [f EXCEPT !.guid = n] BY <1>1 DEF AssignOurFCMGuid
  <1> HIDE DEF n
  <1>6. /\ g \in LocalState /\ g.guid = n /\ g.list = f.list /\ g.total = f.total
        /\ g.host = f.host /\ g.pushed = f.pushed /\ g.excused = f.excused /\ g.out = f.out
    BY <1>2, <1>4, <1>5 DEF LocalState
  <1> QED BY <1>2, <1>3, <1>6 DEF Ready, Fresh

(* Counting up.                                                            *)
LEMMA IncrementReady ==
  ASSUME NEW p \in Peer, NEW f, Ready(p, f), NEW n \in Nat
  PROVE  LET g == IncrementTotalConnectionCount(f, n) IN
         /\ Ready(p, g) /\ g.list = f.list /\ g.guid = f.guid
         /\ g.total \in Nat /\ g.total >= n /\ (f.total # 0 => g.total # 0)
         /\ g.host = f.host /\ g.pushed = f.pushed /\ g.excused = f.excused
  <1> DEFINE g == IncrementTotalConnectionCount(f, n)
  <1>1. f \in LocalState BY DEF Ready
  <1>2. /\ g \in LocalState
        /\ g.list = f.list /\ g.guid = f.guid /\ g.host = f.host /\ g.pushed = f.pushed
        /\ g.excused = f.excused /\ g.out = f.out /\ g.total >= n /\ g.total >= f.total
    BY <1>1, IncrementState
  <1>3. g.total \in Nat /\ f.total \in Nat BY <1>1, <1>2 DEF LocalState
  <1> HIDE DEF g
  <1>4. f.total # 0 => g.total # 0 BY <1>2, <1>3
  <1> QED BY <1>2, <1>3, <1>4 DEF Ready, Fresh, g

(* Taking over a number a participant tells.                               *)
LEMMA AddReady ==
  ASSUME NEW p \in Peer, NEW f, Ready(p, f), NEW q \in Peer, NEW n \in Nat, f.list[q] # Absent,
         n # Unassigned => n \in Numbers(q)
  PROVE  LET g == AddParticipantInternal(f, q, n) IN
         /\ Ready(p, g) /\ g.guid = f.guid /\ g.total = f.total
         /\ g.list = IF n # Unassigned THEN [f.list EXCEPT ![q] = n] ELSE f.list
  <1> DEFINE g == AddParticipantInternal(f, q, n)
  <1>1. f \in LocalState /\ f.list \in [Peer -> Nat \cup {Absent}] BY DEF Ready, LocalState
  <1>2. /\ g \in LocalState
        /\ g.list = IF n # Unassigned THEN [f.list EXCEPT ![q] = n] ELSE f.list
        /\ g.guid = f.guid /\ g.total = f.total /\ g.host = f.host /\ g.pushed = f.pushed
        /\ g.excused = f.excused /\ g.out = f.out
    BY <1>1, AddKnown
  <1> HIDE DEF g
  <1>3. \A r \in Peer : g.list[r] \notin {Absent, Unassigned} => g.list[r] \in Numbers(r)
    BY <1>1, <1>2 DEF Ready
  <1> QED BY <1>2, <1>3 DEF Ready, Fresh, g

(* A handler starts ready.                                                 *)
LEMMA SelfReady ==
  ASSUME Typed, Numbered, HostKept, NEW p \in Peer PROVE Ready(p, Self(p))
  <1>1. /\ Self(p) \in LocalState
        /\ Self(p).list = list[p] /\ Self(p).guid = guid[p] /\ Self(p).total = total[p]
        /\ Self(p).host = host[p] /\ Self(p).pushed = pushed[p] /\ Self(p).excused = (p \in excused)
        /\ Self(p).out = [q \in Peer |-> <<>>]
    BY SelfState
  <1>2. Fresh(Self(p)) BY <1>1 DEF Fresh, HostKept, HostRight
  <1> QED BY <1>1, <1>2 DEF Ready, Numbered

(* What a handler of p makes of a message m from q.                        *)
Tells(o, g) == \E x \in Message : o = <<x>> /\ x.guid = g
Counts(o) == \E x \in Message : o = <<x>> /\ x.type = "RESPOND"
Answered(p, q, m, f) ==
  /\ Well(p, f)
  /\ f.list = IF m.guid # Unassigned THEN [list[p] EXCEPT ![q] = m.guid] ELSE list[p]
  /\ \/ f.guid = guid[p]
     \/ guid[p] = Unassigned /\ \A r \in Peer : list[p][r] # Absent => Tells(f.out[r], f.guid)
  /\ f.guid = Unassigned => m.type = "REQUEST" /\ m.guid = Unassigned
  /\ m.type = "REQUEST" /\ m.guid = Unassigned => Counts(f.out[q])

(* A handler that has drawn a number, told it and calculated the host.     *)
LEMMA InformedAnswer ==
  ASSUME NEW p \in Peer, NEW q \in Peer, NEW m, NEW g, Ready(p, g), g.guid \in Numbers(p),
         guid[p] = Unassigned, m.type # "REQUEST" \/ m.guid # Unassigned,
         g.list = IF m.guid # Unassigned THEN [list[p] EXCEPT ![q] = m.guid] ELSE list[p],
         list[p] \in [Peer -> Nat \cup {Absent}], list[p][q] # Absent, m.guid \in Nat
  PROVE  Answered(p, q, m, CalculateAndPushHost(Informed(g), p))
  <1> DEFINE x == Msg("INFORM", g.guid, g.total, 0)
             e == CalculateAndPushHost(Say(g, Participants(g), x), p)
  <1>1. Informed(g) = Say(g, Participants(g), x) BY DEF Informed, SendOurFCMGuid
  <1>2. g.guid \in Nat /\ g.total \in Nat BY DEF Ready, LocalState
  <1>3. x \in Message /\ x.type = "INFORM" /\ x.guid = g.guid /\ x.count = g.total
    BY SMTT(40), <1>2, MsgType
  <1>4. g.guid # Unassigned /\ g.total # 0
    <2>1. g.guid >= RandomSpan BY NumberRange
    <2> QED BY <1>2, <2>1, Constants DEF Ready, Unassigned
  <1> HIDE DEF x
  <1>5. x \in MessageOf(p) BY <1>3, <1>4 DEF MessageOf
  <1>6. /\ Well(p, e) /\ e.list = g.list /\ e.guid = g.guid
        /\ \A r \in Peer : r \in Participants(g) => e.out[r] = <<x>>
    BY <1>3, <1>5, SayWell
  <1> HIDE DEF e
  <1>7. ASSUME NEW r \in Peer, list[p][r] # Absent PROVE Tells(e.out[r], e.guid)
    <2>1. g.list[r] # Absent BY <1>7 DEF Absent
    <2>2. r \in Participants(g) BY <2>1 DEF Participants
    <2> QED BY <1>3, <1>6, <2>2 DEF Tells
  <1>8. Answered(p, q, m, e) BY <1>4, <1>6, <1>7 DEF Answered
  <1> QED BY <1>1, <1>8 DEF e

(* The host calculated with nothing sent.                                  *)
LEMMA CalculateWell ==
  ASSUME NEW p \in Peer, NEW f, Ready(p, f)
  PROVE  LET e == CalculateAndPushHost(f, p) IN
         Well(p, e) /\ e.list = f.list /\ e.guid = f.guid
  <1> DEFINE e == CalculateAndPushHost(f, p)
  <1>1. f \in LocalState /\ Fresh(f) BY DEF Ready
  <1>2. /\ e \in LocalState /\ e.list = f.list /\ e.guid = f.guid /\ e.total = f.total
        /\ e.out = f.out /\ Right(e, p)
    BY <1>1, CalculateState
  <1> HIDE DEF e
  <1>3. Well(p, e) BY <1>2 DEF Well, Ready, OneMessage
  <1> QED BY <1>2, <1>3 DEF e

Answering(p, q) ==
  /\ q \in linked[p] /\ wire[q][p] # <<>>
  /\ \E f : Answered(p, q, Head(wire[q][p]), f) /\ Handle(p, q, f)

(* The message a handler finds.                                            *)
LEMMA HeadMessage ==
  ASSUME Typed, Numbered, NEW p \in Peer, NEW q \in Peer, wire[q][p] # <<>>
  PROVE  LET m == Head(wire[q][p]) IN
         /\ m \in MessageOf(q) /\ m \in Message
         /\ m.guid \in Nat /\ m.count \in Nat /\ m.since \in Nat
         /\ m.guid # Unassigned => m.guid \in Numbers(q)
  <1> DEFINE m == Head(wire[q][p])
  <1>1. wire[q][p] \in Seq(Message) BY DEF Typed
  <1>2. m = wire[q][p][1] /\ 1 \in DOMAIN wire[q][p] /\ m \in Message BY <1>1
  <1>3. m \in MessageOf(q) BY <1>2 DEF Numbered
  <1> HIDE DEF m
  <1>4. m.guid \in Nat /\ m.count \in Nat /\ m.since \in Nat BY <1>2 DEF Message
  <1>5. m.guid # Unassigned => m.guid \in Numbers(q) BY <1>3 DEF MessageOf
  <1> QED BY <1>2, <1>3, <1>4, <1>5 DEF m

(* OnRequestFCMGuid answers every request: one without a number with a     *)
(* count, one with a number by telling a number.                           *)
LEMMA RequestAnswered ==
  ASSUME Typed, Numbered, Participating, HostKept, NEW p \in Peer, NEW q \in Peer,
         OnRequestFCMGuid(p, q)
  PROVE  Answering(p, q)
  <1>1. q \in linked[p] /\ wire[q][p] # <<>> /\ Head(wire[q][p]).type = "REQUEST"
    BY DEF OnRequestFCMGuid, Arrives
  <1> DEFINE m == Head(wire[q][p])
             f == AddParticipantInternal(Self(p), q, m.guid)
             joined == IncrementTotalConnectionCount(f, m.count + 1)
             met == IncrementTotalConnectionCount(f, m.count)
  <1>2. /\ m.guid \in Nat /\ m.count \in Nat /\ m.count + 1 \in Nat
        /\ m.guid # Unassigned => m.guid \in Numbers(q)
    BY <1>1, HeadMessage
  <1>3. list[p][q] # Absent /\ list[p] \in [Peer -> Nat \cup {Absent}]
        /\ guid[p] \in Nat /\ total[p] \in Nat
    BY <1>1 DEF Participating, Typed
  <1>4. Self(p).list = list[p] /\ Self(p).guid = guid[p] /\ Self(p).total = total[p] BY SelfState
  <1>5. /\ Ready(p, f) /\ f.guid = guid[p] /\ f.total = total[p]
        /\ f.list = IF m.guid # Unassigned THEN [list[p] EXCEPT ![q] = m.guid] ELSE list[p]
    <2>1. Ready(p, Self(p)) BY SelfReady
    <2> HIDE DEF m
    <2> QED BY <1>2, <1>3, <1>4, <2>1, AddReady
  <1>6. m.type = "REQUEST" BY <1>1
  <1> HIDE DEF f
  <1>7. ASSUME NEW n \in Nat \ {0}, m.guid = Unassigned
        PROVE  Answered(p, q, m, CalculateAndPushHost(SendConnectionCountResponse(f, q, n), p))
    <2> DEFINE x == Msg("RESPOND", Unassigned, n, 0)
               e == CalculateAndPushHost(Say(f, {q}, x), p)
    <2>1. SendConnectionCountResponse(f, q, n) = Say(f, {q}, x) BY DEF SendConnectionCountResponse
    <2>2. x \in Message /\ x.type = "RESPOND" /\ x.guid = Unassigned /\ x.count = n
      BY MsgType DEF Unassigned
    <2> HIDE DEF x
    <2>3. x \in MessageOf(p) BY <2>2 DEF MessageOf
    <2>4. /\ Well(p, e) /\ e.list = f.list /\ e.guid = f.guid
          /\ \A r \in Peer : r \in {q} => e.out[r] = <<x>>
      BY <1>5, <2>2, <2>3, SayWell
    <2> HIDE DEF e, m
    <2>5. Counts(e.out[q]) BY <2>2, <2>4 DEF Counts
    <2>6. Answered(p, q, m, e) BY <1>5, <1>6, <1>7, <2>4, <2>5 DEF Answered
    <2> QED BY <2>1, <2>6 DEF e
  <1>8. ASSUME guid[p] = Unassigned, m.guid # Unassigned, NEW g \in Draws(joined, p)
        PROVE  Answered(p, q, m, CalculateAndPushHost(Informed(g), p))
    <2>1. Ready(p, joined) /\ joined.list = f.list /\ joined.total \in Nat
          /\ joined.total >= m.count + 1
      <3> HIDE DEF m
      <3> QED BY ZenonT(40), <1>2, <1>5, IncrementReady
    <2> HIDE DEF joined, m
    <2>2. joined.total # 0 BY <1>2, <2>1
    <2>3. Ready(p, g) /\ g.list = joined.list /\ g.guid \in Numbers(p) BY <2>1, <2>2, <1>8, DrawReady
    <2> QED BY <1>2, <1>3, <1>5, <1>8, <2>1, <2>3, InformedAnswer
  <1>9. ASSUME guid[p] # Unassigned, m.guid # Unassigned
        PROVE  Answered(p, q, m, CalculateAndPushHost(SendOurFCMGuid(met, {q}), p))
    <2>1. Ready(p, met) /\ met.list = f.list /\ met.guid = f.guid /\ met.total \in Nat
      <3> HIDE DEF m
      <3> QED BY ZenonT(40), <1>2, <1>5, IncrementReady
    <2> DEFINE x == Msg("INFORM", met.guid, met.total, 0)
               e == CalculateAndPushHost(Say(met, {q}, x), p)
    <2>2. SendOurFCMGuid(met, {q}) = Say(met, {q}, x) BY DEF SendOurFCMGuid
    <2> HIDE DEF met, m
    <2>3. x \in Message /\ x.type = "INFORM" /\ x.guid = met.guid /\ x.count = met.total
      BY SMTT(40), <1>3, <1>5, <2>1, MsgType
    <2> HIDE DEF x
    <2>4. x \in MessageOf(p) BY <1>5, <1>9, <2>1, <2>3 DEF MessageOf, Ready
    <2>5. Well(p, e) /\ e.list = met.list /\ e.guid = met.guid BY <2>1, <2>3, <2>4, SayWell
    <2> HIDE DEF e
    <2>6. Answered(p, q, m, e) BY <1>5, <1>9, <2>1, <2>5 DEF Answered
    <2> QED BY <2>2, <2>6 DEF e
  <1>10. \E e : Answered(p, q, m, e) /\ Handle(p, q, e)
    <2>1. CASE guid[p] = Unassigned /\ m.guid = Unassigned
      <3>1. PICK n \in ProbableCount(p, m) :
              Handle(p, q, CalculateAndPushHost(SendConnectionCountResponse(f, q, n), p))
        BY <2>1 DEF OnRequestFCMGuid, f
      <3>2. n \in Nat \ {0} BY DEF ProbableCount
      <3> HIDE DEF m
      <3> QED BY <2>1, <3>1, <3>2, <1>7
    <2>2. CASE guid[p] = Unassigned /\ m.guid # Unassigned
      <3>1. PICK g \in Draws(joined, p) : Handle(p, q, CalculateAndPushHost(Informed(g), p))
        BY <2>2 DEF OnRequestFCMGuid, f
      <3> HIDE DEF m, joined
      <3> QED BY <2>2, <3>1, <1>8
    <2>3. CASE guid[p] # Unassigned /\ m.guid = Unassigned
      <3>1. Handle(p, q, CalculateAndPushHost(
                           SendConnectionCountResponse(f, q, f.total + 1), p))
        BY <2>3 DEF OnRequestFCMGuid, f
      <3>2. f.total + 1 \in Nat \ {0} BY <1>3, <1>5
      <3> HIDE DEF m
      <3> QED BY <2>3, <3>1, <3>2, <1>7
    <2>4. CASE guid[p] # Unassigned /\ m.guid # Unassigned
      <3>1. Handle(p, q, CalculateAndPushHost(SendOurFCMGuid(met, {q}), p))
        BY <2>4 DEF OnRequestFCMGuid, f
      <3> HIDE DEF m, met
      <3> QED BY <2>4, <3>1, <1>9
    <2> QED BY <2>1, <2>2, <2>3, <2>4
  <1> QED BY <1>1, <1>10 DEF Answering

(* OnRespondConnectionCount makes a peer without a number draw one.        *)
LEMMA RespondAnswered ==
  ASSUME Typed, Numbered, Participating, HostKept, NEW p \in Peer, NEW q \in Peer,
         OnRespondConnectionCount(p, q)
  PROVE  Answering(p, q)
  <1>1. q \in linked[p] /\ wire[q][p] # <<>> /\ Head(wire[q][p]).type = "RESPOND"
    BY DEF OnRespondConnectionCount, Arrives
  <1> DEFINE m == Head(wire[q][p])
             f == IncrementTotalConnectionCount(Self(p), m.count)
  <1>2. m \in MessageOf(q) /\ m.count \in Nat /\ m.guid \in Nat BY <1>1, HeadMessage
  <1>3. m.count # 0 /\ m.guid = Unassigned /\ m.type # "REQUEST" BY <1>1, <1>2 DEF MessageOf
  <1>4. list[p][q] # Absent /\ list[p] \in [Peer -> Nat \cup {Absent}]
    BY <1>1 DEF Participating, Typed
  <1>5. /\ Self(p).list = list[p] /\ Self(p).guid = guid[p] /\ Self(p).total = total[p]
        /\ Self(p).host = host[p] /\ Self(p).pushed = pushed[p]
        /\ Self(p).excused = (p \in excused)
    BY SelfState
  <1>6. /\ Ready(p, f) /\ f.list = list[p] /\ f.guid = guid[p]
        /\ f.total \in Nat /\ f.total >= m.count
        /\ f.host = host[p] /\ f.pushed = pushed[p] /\ f.excused = (p \in excused)
    <2>1. Ready(p, Self(p)) BY SelfReady
    <2> HIDE DEF m
    <2> QED BY <1>2, <1>5, <2>1, IncrementReady
  <1>7. f.total # 0
    <2> HIDE DEF f, m
    <2> QED BY <1>2, <1>3, <1>6
  <1>8. CASE guid[p] # Unassigned
    <2> DEFINE e == IncrementTotalConnectionCount(f, 2)
    <2>1. Handle(p, q, e) BY <1>8 DEF OnRespondConnectionCount
    <2> HIDE DEF f, m
    <2>2. /\ Ready(p, e) /\ e.list = f.list /\ e.guid = f.guid
          /\ e.host = f.host /\ e.pushed = f.pushed /\ e.excused = f.excused
      BY <1>6, IncrementReady
    <2> HIDE DEF e
    <2>3. Right(e, p) BY <1>6, <2>2 DEF Right, HostKept
    <2>4. Well(p, e) BY <2>2, <2>3 DEF Well, Ready, OneMessage
    <2>5. Answered(p, q, m, e) BY <1>3, <1>6, <1>8, <2>2, <2>4 DEF Answered
    <2> QED BY <1>1, <2>1, <2>5 DEF Answering, m
  <1>9. CASE guid[p] = Unassigned
    <2>1. PICK g \in Draws(f, p) :
            Handle(p, q, CalculateAndPushHost(Informed(IncrementTotalConnectionCount(g, 2)), p))
      BY <1>9 DEF OnRespondConnectionCount
    <2> DEFINE h == IncrementTotalConnectionCount(g, 2)
    <2> HIDE DEF f, m
    <2>2. Ready(p, g) /\ g.list = f.list /\ g.guid \in Numbers(p) BY <1>6, <1>7, DrawReady
    <2>3. Ready(p, h) /\ h.list = g.list /\ h.guid = g.guid BY <2>2, IncrementReady
    <2> HIDE DEF h
    <2>4. Answered(p, q, m, CalculateAndPushHost(Informed(h), p))
      BY <1>2, <1>3, <1>4, <1>6, <1>9, <2>2, <2>3, InformedAnswer
    <2> QED BY <1>1, <2>1, <2>4 DEF Answering, m, h
  <1> QED BY <1>8, <1>9

(* OnInformFCMGuid takes over the number and draws one if need be.         *)
LEMMA InformAnswered ==
  ASSUME Typed, Numbered, Participating, HostKept, NEW p \in Peer, NEW q \in Peer,
         OnInformFCMGuid(p, q)
  PROVE  Answering(p, q)
  <1>1. q \in linked[p] /\ wire[q][p] # <<>> /\ Head(wire[q][p]).type = "INFORM"
    BY DEF OnInformFCMGuid, Arrives
  <1> DEFINE m == Head(wire[q][p])
             e == IncrementTotalConnectionCount(Self(p), m.count)
             f == AddParticipantInternal(e, q, m.guid)
  <1>2. /\ m \in MessageOf(q) /\ m.count \in Nat /\ m.guid \in Nat
        /\ m.guid # Unassigned => m.guid \in Numbers(q)
    BY <1>1, HeadMessage
  <1>3. m.count # 0 /\ m.guid # Unassigned /\ m.type # "REQUEST" BY <1>1, <1>2 DEF MessageOf
  <1>4. list[p][q] # Absent /\ list[p] \in [Peer -> Nat \cup {Absent}]
    BY <1>1 DEF Participating, Typed
  <1>5. Self(p).list = list[p] /\ Self(p).guid = guid[p] BY SelfState
  <1>6. /\ Ready(p, e) /\ e.list = list[p] /\ e.guid = guid[p]
        /\ e.total \in Nat /\ e.total >= m.count
    <2>1. Ready(p, Self(p)) BY SelfReady
    <2> HIDE DEF m
    <2> QED BY <1>2, <1>5, <2>1, IncrementReady
  <1>7. /\ Ready(p, f) /\ f.guid = e.guid /\ f.total = e.total
        /\ f.list = IF m.guid # Unassigned THEN [e.list EXCEPT ![q] = m.guid] ELSE e.list
    <2> HIDE DEF m, e
    <2> QED BY <1>2, <1>4, <1>6, AddReady
  <1>8. f.total # 0
    <2> HIDE DEF f, e, m
    <2> QED BY <1>2, <1>3, <1>6, <1>7
  <1>9. CASE guid[p] # Unassigned
    <2>1. Handle(p, q, CalculateAndPushHost(f, p)) BY <1>9 DEF OnInformFCMGuid
    <2> DEFINE h == CalculateAndPushHost(f, p)
    <2> HIDE DEF f, e, m
    <2>2. Well(p, h) /\ h.list = f.list /\ h.guid = f.guid BY <1>7, CalculateWell
    <2> HIDE DEF h
    <2>3. Answered(p, q, m, h) BY <1>3, <1>6, <1>7, <1>9, <2>2 DEF Answered
    <2> QED BY <1>1, <2>1, <2>3 DEF Answering, m, h
  <1>10. CASE guid[p] = Unassigned
    <2>1. PICK g \in Draws(f, p) : Handle(p, q, CalculateAndPushHost(Informed(g), p))
      BY <1>10 DEF OnInformFCMGuid
    <2> HIDE DEF f, e, m
    <2>2. Ready(p, g) /\ g.list = f.list /\ g.guid \in Numbers(p) BY <1>7, <1>8, DrawReady
    <2>3. Answered(p, q, m, CalculateAndPushHost(Informed(g), p))
      BY <1>2, <1>3, <1>4, <1>6, <1>7, <1>10, <2>2, InformedAnswer
    <2> QED BY <1>1, <2>1, <2>3 DEF Answering, m
  <1> QED BY <1>9, <1>10

(* What a peer sends leaves what it has sent in force.                     *)
LEMMA GrowKeeps ==
  ASSUME NEW p \in Peer, NEW g, NEW w \in Seq(Message), NEW o, OneMessage(o, p, g), NEW v,
         v = w \/ v = w \o o
  PROVE  /\ Asks(w) => Asks(v)
         /\ Answers(w) => Answers(v)
         /\ \A l : g # Unassigned /\ Knows(l, w, g) => Knows(l, v, g)
  <1>1. CASE v = w BY <1>1
  <1>2. CASE v = w \o o /\ o = <<>>
    <2>1. v = w BY <1>2
    <2> QED BY <2>1
  <1>3. CASE v = w \o o /\ o # <<>>
    <2>1. PICK x \in MessageOf(p) : o = <<x>> /\ (x.guid # Unassigned => x.guid = g)
      BY <1>3 DEF OneMessage
    <2>2. x \in Message BY DEF MessageOf
    <2>3. v = w \o <<x>> BY <1>3, <2>1
    <2>4. (Asks(w) => Asks(v)) /\ (Answers(w) => Answers(v)) BY <2>2, <2>3, WaitingAppend
    <2>5. \A l : g # Unassigned /\ Knows(l, w, g) => Knows(l, v, g)
      BY <2>1, <2>2, <2>3, KnowsAppend
    <2> QED BY <2>4, <2>5
  <1> QED BY <1>1, <1>2, <1>3

(* The wire without its first message.                                     *)
LEMMA PoppedWire ==
  ASSUME Typed, Numbered, NEW p \in Peer, NEW q \in Peer, wire[q][p] # <<>>
  PROVE  LET w == [wire EXCEPT ![q][p] = Tail(@)] IN
         /\ Carries(w) /\ w[q][p] = Tail(wire[q][p])
         /\ \A a, b \in Peer : a # q \/ b # p => w[a][b] = wire[a][b]
  <1> DEFINE w == [wire EXCEPT ![q][p] = Tail(@)]
  <1>1. wire \in [Peer -> [Peer -> Seq(Message)]] BY DEF Typed
  <1>2. wire[q][p] \in Seq(Message) /\ Tail(wire[q][p]) \in Seq(Message) BY <1>1
  <1>3. w \in [Peer -> [Peer -> Seq(Message)]] /\ w[q][p] = Tail(wire[q][p])
        /\ \A a, b \in Peer : a # q \/ b # p => w[a][b] = wire[a][b]
    BY <1>1, <1>2
  <1> HIDE DEF w
  <1>4. ASSUME NEW a \in Peer, NEW b \in Peer, NEW i \in DOMAIN w[b][a]
        PROVE  w[b][a][i] \in MessageOf(b)
    <2>1. CASE b # q \/ a # p BY <1>3, <2>1 DEF Numbered
    <2>2. CASE b = q /\ a = p
      <3>1. i \in DOMAIN Tail(wire[q][p]) /\ w[b][a][i] = Tail(wire[q][p])[i] BY <1>3, <2>2
      <3>2. \A s \in Seq(Message) : s # <<>> =>
              \A j \in DOMAIN Tail(s) : j + 1 \in DOMAIN s /\ Tail(s)[j] = s[j + 1]
        OBVIOUS
      <3>3. i + 1 \in DOMAIN wire[q][p] /\ w[b][a][i] = wire[q][p][i + 1]
        BY <1>2, <3>1, <3>2
      <3> QED BY <2>2, <3>3 DEF Numbered
    <2> QED BY <2>1, <2>2
  <1> QED BY <1>3, <1>4 DEF Carries, w

(* A handled message keeps the invariant.                                  *)
LEMMA ReceiveStep ==
  ASSUME MeshInv, NEW p \in Peer, NEW q \in Peer, Answering(p, q)
  PROVE  MeshInv'
  <1> USE DEF MeshInv
  <1> DEFINE m == Head(wire[q][p])
             w == [wire EXCEPT ![q][p] = Tail(@)]
  <1>1. q \in linked[p] /\ wire[q][p] # <<>> /\ q # p BY DEF Answering, Participating
  <1>2. PICK f : Answered(p, q, m, f) /\ Handle(p, q, f) BY DEF Answering
  <1>3. m.guid \in Nat /\ (m.guid # Unassigned => m.guid \in Numbers(q)) BY <1>1, HeadMessage
  <1>4. /\ Carries(w) /\ w[q][p] = Tail(wire[q][p])
        /\ \A a, b \in Peer : a # q \/ b # p => w[a][b] = wire[a][b]
    BY <1>1, PoppedWire
  <1>5. started' = started /\ linked' = linked /\ dialing' = dialing /\ Become(p, f, w)
    BY <1>2 DEF Handle
  <1> HIDE DEF m, w
  <1>6. Well(p, f) /\ f \in LocalState BY <1>2 DEF Answered, Well
  <1>7. Became(p, f, w) BY <1>4, <1>5, <1>6, BecomeEffect DEF Carries
  <1>8. Typed' /\ Numbered' /\ HostKept'
    <2>1. linked' \in [Peer -> SUBSET Peer] /\ dialing' \subseteq Peer \X Peer
          /\ started' \in [Peer -> Nat]
      BY <1>5 DEF Typed
    <2> QED BY <1>4, <1>6, <1>7, <2>1, BecameKeeps
  <1>9. f.list \in [Peer -> Nat \cup {Absent}] /\ list[p] \in [Peer -> Nat \cup {Absent}]
        /\ \A a, b \in Peer : wire[a][b] \in Seq(Message)
    BY <1>6 DEF LocalState, Typed
  <1>10. /\ \A r \in Peer : list'[p][r] # Absent <=> list[p][r] # Absent
         /\ \A r \in Peer : r # q => list'[p][r] = list[p][r]
         /\ list'[p][q] = IF m.guid # Unassigned THEN m.guid ELSE list[p][q]
    <2>1. f.list = IF m.guid # Unassigned THEN [list[p] EXCEPT ![q] = m.guid] ELSE list[p]
      BY <1>2 DEF Answered
    <2>2. list'[p] = f.list BY <1>7 DEF Became
    <2>3. list[p][q] # Absent BY <1>1 DEF Participating
    <2> QED BY <1>3, <1>9, <2>1, <2>2, <2>3 DEF Absent
  <1>11. \A r \in Peer : r # p => list'[r] = list[r] /\ guid'[r] = guid[r] BY <1>7 DEF Became
  <1>12. guid'[p] = f.guid BY <1>7 DEF Became
  <1>13. Participating' BY <1>5, <1>10, <1>11 DEF Participating
  <1>14. /\ wire'[q][p] = Tail(wire[q][p])
         /\ \A a, b \in Peer : a # p /\ (a # q \/ b # p) => wire'[a][b] = wire[a][b]
    <2>1. \A r \in Peer : r # p => wire'[r] = w[r] BY <1>7 DEF Became
    <2> QED BY <1>1, <1>4, <2>1, Zenon
  <1>15. \A a \in Peer : /\ wire'[p][a] = wire[p][a] \/ wire'[p][a] = wire[p][a] \o f.out[a]
                         /\ Reaches(p, a) => wire'[p][a] = wire[p][a] \o f.out[a]
    BY ZenonT(40), <1>1, <1>4, <1>5, <1>7 DEF Became, Reaches, Gets, Listens
  <1>16. ASSUME NEW a \in Peer
         PROVE  /\ Asks(wire[p][a]) => Asks(wire'[p][a])
                /\ Answers(wire[p][a]) => Answers(wire'[p][a])
                /\ \A l : f.guid # Unassigned /\ Knows(l, wire[p][a], f.guid)
                            => Knows(l, wire'[p][a], f.guid)
    <2>1. OneMessage(f.out[a], p, f.guid) BY <1>6 DEF Well
    <2>2. wire[p][a] \in Seq(Message) BY <1>9
    <2>3. wire'[p][a] = wire[p][a] \/ wire'[p][a] = wire[p][a] \o f.out[a] BY <1>15
    <2> QED BY <2>1, <2>2, <2>3, GrowKeeps
  <1>17. \A a, b \in Peer : Reaches(b, a)' <=> Reaches(b, a) BY <1>5 DEF Reaches, Listens
  <1>18. ASSUME NEW a \in Peer, NEW b \in Peer, Reaches(b, a), guid'[b] # Unassigned
         PROVE  Knows(list'[a][b], wire'[b][a], guid'[b])
    <2>1. a # b BY <1>18 DEF Reaches, Participating
    <2>2. guid[b] # Unassigned => Knows(list[a][b], wire[b][a], guid[b]) BY <1>18 DEF Told
    <2>3. CASE b = p /\ f.guid = guid[p]
      <3>1. Knows(list[a][p], wire[p][a], f.guid) /\ f.guid # Unassigned
        BY <1>12, <1>18, <2>2, <2>3
      <3>2. Knows(list[a][p], wire'[p][a], f.guid) BY <3>1, <1>16
      <3> QED BY <2>1, <2>3, <3>2, <1>11, <1>12
    <2>4. CASE b = p /\ f.guid # guid[p]
      <3>1. list[p][a] # Absent BY <1>18, <2>4 DEF Reaches, Participating
      <3>2. Tells(f.out[a], f.guid) BY <1>2, <2>4, <3>1 DEF Answered
      <3>3. PICK x \in Message : f.out[a] = <<x>> /\ x.guid = f.guid BY <3>2 DEF Tells
      <3>4. wire'[p][a] = wire[p][a] \o <<x>> BY <1>15, <1>18, <2>4, <3>3
      <3>5. Knows(list'[a][p], wire'[p][a], x.guid) BY <1>9, <3>4, KnowsTold
      <3> QED BY <2>4, <3>3, <3>5, <1>12
    <2>5. CASE a = p /\ b = q
      <3>1. guid'[q] = guid[q] BY <1>1, <1>11
      <3>2. Knows(IF m.guid # Unassigned THEN m.guid ELSE list[p][q], Tail(wire[q][p]), guid[q])
        BY <1>1, <1>9, <1>18, <2>2, <2>5, <3>1, KnowsTail DEF m
      <3> QED BY <2>5, <3>1, <3>2, <1>10, <1>14
    <2>6. CASE b # p /\ (a # p \/ b # q)
      <3>1. list'[a][b] = list[a][b] BY <2>6, <1>10, <1>11
      <3>2. wire'[b][a] = wire[b][a] /\ guid'[b] = guid[b] BY <2>6, <1>11, <1>14
      <3> QED BY <1>18, <2>2, <3>1, <3>2
    <2> QED BY <2>1, <2>3, <2>4, <2>5, <2>6
  <1>19. ASSUME NEW a \in Peer, NEW b \in Peer, Reaches(b, a), guid'[b] = Unassigned
         PROVE  Asks(wire'[b][a]) \/ Answers(wire'[a][b])
    <2>1. a # b BY <1>19 DEF Reaches, Participating
    <2>2. guid[b] = Unassigned => Asks(wire[b][a]) \/ Answers(wire[a][b]) BY <1>19 DEF Awaited
    <2>3. CASE b = p
      <3>1. guid[p] = Unassigned /\ m.type = "REQUEST" /\ m.guid = Unassigned
        BY <1>2, <1>12, <1>19, <2>3 DEF Answered
      <3>2. CASE Asks(wire[p][a]) BY <2>3, <3>2, <1>16
      <3>3. CASE Answers(wire[a][p]) /\ a = q
        <4>1. Answers(Tail(wire[q][p])) BY <1>1, <1>9, <3>1, <3>3, WaitingTail DEF m
        <4> QED BY <2>3, <3>3, <4>1, <1>14
      <3>4. CASE Answers(wire[a][p]) /\ a # q BY <2>1, <2>3, <3>4, <1>14
      <3> QED BY <2>2, <2>3, <3>1, <3>2, <3>3, <3>4
    <2>4. CASE a = p
      <3>1. guid[b] = Unassigned BY <1>11, <1>19, <2>1, <2>4
      <3>2. CASE Answers(wire[p][b]) BY <2>4, <3>2, <1>16
      <3>3. CASE Asks(wire[b][p]) /\ b # q BY <2>1, <2>4, <3>3, <1>14
      <3>4. CASE Asks(wire[q][p]) /\ b = q
        <4>1. CASE Asks(Tail(wire[q][p])) BY <2>4, <3>4, <4>1, <1>14
        <4>2. CASE m.type = "REQUEST" /\ m.guid = Unassigned
          <5>1. PICK x \in Message : f.out[q] = <<x>> /\ x.type = "RESPOND"
            BY <1>2, <4>2 DEF Answered, Counts
          <5>2. Reaches(p, q) BY <1>1, <1>19, <2>4, <3>4 DEF Reaches, Listens
          <5>3. wire'[p][q] = wire[p][q] \o <<x>> BY <1>15, <5>1, <5>2
          <5>4. Answers(wire'[p][q]) BY <1>9, <5>1, <5>3, WaitingAppend
          <5> QED BY <2>4, <3>4, <5>4
        <4> QED BY <1>1, <1>9, <3>4, <4>1, <4>2, WaitingTail DEF m
      <3> QED BY <2>2, <2>4, <3>1, <3>2, <3>3, <3>4
    <2>5. CASE a # p /\ b # p
      <3>1. wire'[b][a] = wire[b][a] /\ wire'[a][b] = wire[a][b] /\ guid'[b] = guid[b]
        BY <2>5, <1>11, <1>14
      <3> QED BY <1>19, <2>2, <3>1
    <2> QED BY <2>3, <2>4, <2>5
  <1>20. Told' BY <1>17, <1>18 DEF Told
  <1>21. Awaited' BY <1>17, <1>19 DEF Awaited
  <1> QED BY <1>8, <1>13, <1>20, <1>21

-----------------------------------------------------------------------------
(* Connections made                                                        *)

(* What a handler adds to the wire.                                        *)
LEMMA BecameGrows ==
  ASSUME NEW p \in Peer, NEW f, Well(p, f), NEW w, Carries(w), Became(p, f, w), NEW a \in Peer
  PROVE  /\ Gets(a, p) => wire'[p][a] = w[p][a] \o f.out[a]
         /\ Asks(w[p][a]) => Asks(wire'[p][a])
         /\ Answers(w[p][a]) => Answers(wire'[p][a])
         /\ \A l : f.guid # Unassigned /\ Knows(l, w[p][a], f.guid)
                     => Knows(l, wire'[p][a], f.guid)
  <1>1. OneMessage(f.out[a], p, f.guid) BY DEF Well
  <1>2. w[p][a] \in Seq(Message) BY DEF Carries
  <1>3. /\ wire'[p][a] = w[p][a] \/ wire'[p][a] = w[p][a] \o f.out[a]
        /\ Gets(a, p) => wire'[p][a] = w[p][a] \o f.out[a]
    BY DEF Became
  <1> QED BY ZenonT(40), <1>1, <1>2, <1>3, GrowKeeps

(* The wire is in order.                                                   *)
LEMMA WireCarries == ASSUME Typed, Numbered PROVE Carries(wire) BY DEF Typed, Numbered, Carries

(* A new participant is asked for its number and told ours.                *)
Greets(p, q, f) ==
  /\ Well(p, f) /\ f.guid = guid[p]
  /\ f.list = [list[p] EXCEPT ![q] = Unassigned]
  /\ \E x \in Message : f.out[q] = <<x>> /\ x.type = "REQUEST" /\ x.guid = guid[p]

(* AddParticipantInternal lists the newcomer without a number and sends it *)
(* one request, which carries the peer's own number.                       *)
LEMMA NewParticipant ==
  ASSUME Typed, Numbered, HostKept, NEW p \in Peer, NEW q \in Peer, list[p][q] = Absent
  PROVE  Greets(p, q, AddParticipantInternal(Self(p), q, Unassigned))
  <1> DEFINE s == Self(p)
             x == FCMGuidRequest(s)
             f == AddParticipantInternal(s, q, Unassigned)
  <1>1. /\ s \in LocalState /\ s.list = list[p] /\ s.guid = guid[p] /\ s.total = total[p]
        /\ s.host = host[p] /\ s.pushed = pushed[p] /\ s.excused = (p \in excused)
        /\ s.since = started[p] /\ \A r \in Peer : s.out[r] = <<>>
    BY SelfState
  <1>2. Ready(p, s) BY SelfReady
  <1> HIDE DEF s
  <1>3. /\ f \in LocalState /\ f.list = [s.list EXCEPT ![q] = Unassigned]
        /\ f.guid = s.guid /\ f.total = s.total /\ f.host = s.host /\ f.pushed = s.pushed
        /\ f.excused = s.excused
        /\ \A r \in Peer : f.out[r] = IF r = q THEN Append(s.out[r], x) ELSE s.out[r]
    BY <1>1, AddNew
  <1>4. x \in MessageOf(p) /\ x \in Message /\ x.type = "REQUEST" /\ x.guid = guid[p]
    <2>1. guid[p] \in Nat /\ total[p] \in Nat /\ started[p] \in Nat /\ 0 \in Nat BY DEF Typed
    <2>2. x = IF guid[p] = Unassigned THEN Msg("REQUEST", Unassigned, 0, started[p])
              ELSE Msg("REQUEST", guid[p], total[p], 0)
      BY <1>1 DEF FCMGuidRequest
    <2> HIDE DEF x
    <2>3. x \in Message /\ x.type = "REQUEST" /\ x.guid = guid[p]
      BY <2>1, <2>2, MsgType DEF Unassigned
    <2>4. guid[p] # Unassigned => guid[p] \in Numbers(p) BY DEF Numbered
    <2> QED BY <2>3, <2>4 DEF MessageOf
  <1> HIDE DEF x, f
  <1>5. \A r \in Peer : f.out[r] = IF r = q THEN <<x>> ELSE <<>>
    <2>1. Append(<<>>, x) = <<x>> OBVIOUS
    <2> QED BY <1>1, <1>3, <2>1, Zenon
  <1>6. \A r \in Peer : OneMessage(f.out[r], p, f.guid) BY <1>1, <1>3, <1>4, <1>5 DEF OneMessage
  <1>7. list[p] \in [Peer -> Nat \cup {Absent}] BY DEF Typed
  <1>8. ~Complete(f.list) BY <1>1, <1>3, <1>7 DEF Complete
  <1>9. Right(f, p) BY <1>1, <1>2, <1>3, <1>8 DEF Right, HostRight, Ready, Fresh
  <1>10. \A r \in Peer : f.list[r] \notin {Absent, Unassigned} => f.list[r] \in Numbers(r)
    BY <1>1, <1>3, <1>7 DEF Numbered
  <1>11. f.guid # Unassigned => f.guid \in Numbers(p) /\ f.total # 0 BY <1>1, <1>3 DEF Numbered
  <1>12. Well(p, f) BY <1>3, <1>6, <1>9, <1>10, <1>11 DEF Well
  <1> QED BY <1>1, <1>3, <1>4, <1>5, <1>12 DEF Greets, f, s

(* The accepting end learns of a connection.                               *)
LEMMA AcceptStep ==
  ASSUME MeshInv, NEW p \in Peer, NEW q \in Peer, Accept(p, q)
  PROVE  MeshInv'
  <1> USE DEF MeshInv
  <1> DEFINE w == [wire EXCEPT ![p][q] = <<>>, ![q][p] = <<>>]
             f == AddParticipantInternal(Self(p), q, Unassigned)
  <1>1. /\ q # p /\ p \notin linked[q] /\ q \notin linked[p]
        /\ <<p, q>> \notin dialing /\ <<q, p>> \notin dialing
        /\ linked' = [linked EXCEPT ![p] = @ \cup {q}]
        /\ dialing' = dialing \cup {<<q, p>>} /\ started' = started /\ Become(p, f, w)
    <2>1. <<q, p>> \in Dials BY DEF Accept
    <2>2. <<q, p>>[1] # <<q, p>>[2] BY <2>1, Constants, Zenon
    <2> QED BY <2>2 DEF Accept
  <1>2. list[p][q] = Absent BY <1>1 DEF Participating
  <1>3. Greets(p, q, f) BY <1>2, NewParticipant
  <1>4. /\ Carries(w) /\ w[p][q] = <<>> /\ w[q][p] = <<>>
        /\ \A a, b \in Peer : ~(a = p /\ b = q) /\ ~(a = q /\ b = p) => w[a][b] = wire[a][b]
    <2>1. wire \in [Peer -> [Peer -> Seq(Message)]] BY DEF Typed
    <2>2. w \in [Peer -> [Peer -> Seq(Message)]] /\ w[p][q] = <<>> /\ w[q][p] = <<>>
          /\ \A a, b \in Peer : ~(a = p /\ b = q) /\ ~(a = q /\ b = p) => w[a][b] = wire[a][b]
      <3> DEFINE v == [wire EXCEPT ![p][q] = <<>>]
      <3>1. <<>> \in Seq(Message) OBVIOUS
      <3>2. v \in [Peer -> [Peer -> Seq(Message)]] /\ v[p][q] = <<>>
            /\ \A a, b \in Peer : ~(a = p /\ b = q) => v[a][b] = wire[a][b]
        BY <2>1, <3>1
      <3>3. w = [v EXCEPT ![q][p] = <<>>] OBVIOUS
      <3> HIDE DEF v, w
      <3>4. w \in [Peer -> [Peer -> Seq(Message)]] /\ w[q][p] = <<>>
            /\ \A a, b \in Peer : ~(a = q /\ b = p) => w[a][b] = v[a][b]
        BY <3>1, <3>2, <3>3
      <3> QED BY <1>1, <3>2, <3>4
    <2> HIDE DEF w
    <2>3. ASSUME NEW a \in Peer, NEW b \in Peer, NEW i \in DOMAIN w[b][a]
          PROVE  w[b][a][i] \in MessageOf(b)
      <3>1. CASE (b = p /\ a = q) \/ (b = q /\ a = p)
        <4>1. w[b][a] = <<>> BY <2>2, <3>1
        <4> QED BY <4>1
      <3>2. CASE ~((b = p /\ a = q) \/ (b = q /\ a = p)) BY <2>2, <3>2 DEF Numbered
      <3> QED BY <3>1, <3>2
    <2> QED BY <2>2, <2>3 DEF Carries
  <1> HIDE DEF w, f
  <1>5. Well(p, f) /\ f \in LocalState /\ f.guid = guid[p]
        /\ f.list = [list[p] EXCEPT ![q] = Unassigned]
    BY <1>3 DEF Greets, Well
  <1>6. Became(p, f, w) BY <1>1, <1>4, <1>5, BecomeEffect DEF Carries
  <1>7. linked' \in [Peer -> SUBSET Peer] /\ dialing' \subseteq Peer \X Peer /\ started' \in [Peer -> Nat]
        /\ linked'[p] = linked[p] \cup {q} /\ \A r \in Peer : r # p => linked'[r] = linked[r]
    <2>1. linked \in [Peer -> SUBSET Peer] /\ dialing \subseteq Peer \X Peer /\ started \in [Peer -> Nat]
      BY DEF Typed
    <2>2. dialing' \subseteq Peer \X Peer BY <1>1, <2>1
    <2>3. linked' \in [Peer -> SUBSET Peer] /\ linked'[p] = linked[p] \cup {q}
          /\ \A r \in Peer : r # p => linked'[r] = linked[r]
      <3>1. linked[p] \cup {q} \in SUBSET Peer BY <2>1
      <3>2. linked' = [linked EXCEPT ![p] = linked[p] \cup {q}] BY <1>1
      <3> QED BY <2>1, <3>1, <3>2
    <2> QED BY <1>1, <2>1, <2>2, <2>3
  <1>8. Typed' /\ Numbered' /\ HostKept' BY <1>4, <1>5, <1>6, <1>7, BecameKeeps
  <1>9. /\ list'[p][q] = Unassigned /\ \A r \in Peer : r # q => list'[p][r] = list[p][r]
        /\ \A r \in Peer : r # p => list'[r] = list[r]
        /\ \A r \in Peer : guid'[r] = guid[r]
    <2>1. list[p] \in [Peer -> Nat \cup {Absent}] BY DEF Typed
    <2> QED BY <1>5, <1>6, <2>1 DEF Became
  <1>10. Participating' BY <1>1, <1>7, <1>9 DEF Participating, Absent, Unassigned
  <1>11. \A a, b \in Peer : Reaches(b, a)' => Reaches(b, a) \/ (b = p /\ a = q)
    BY <1>1, <1>7 DEF Reaches, Listens
  <1>12. \A a, b \in Peer : Reaches(b, a) => ~(b = p /\ a = q) /\ ~(b = q /\ a = p)
    BY <1>1 DEF Reaches
  <1>13. PICK x \in Message : f.out[q] = <<x>> /\ x.type = "REQUEST" /\ x.guid = guid[p]
    BY <1>3 DEF Greets
  <1>14. wire'[p][q] = <<>> \o <<x>> /\ <<>> \in Seq(Message)
    <2>1. Gets(q, p) BY <1>1, <1>7 DEF Gets
    <2>2. wire'[p][q] = w[p][q] \o f.out[q] BY <1>6, <2>1 DEF Became, Gets
    <2>3. <<>> \in Seq(Message) OBVIOUS
    <2> QED BY <1>4, <1>13, <2>2, <2>3, Zenon
  <1>15. \A a, b \in Peer : b # p => wire'[b][a] = w[b][a] BY <1>6 DEF Became
  <1>16. \A a \in Peer : /\ Asks(w[p][a]) => Asks(wire'[p][a])
                         /\ Answers(w[p][a]) => Answers(wire'[p][a])
                         /\ \A l : guid[p] # Unassigned /\ Knows(l, w[p][a], guid[p])
                                     => Knows(l, wire'[p][a], guid[p])
    <2>1. ASSUME NEW a \in Peer
          PROVE  /\ Asks(w[p][a]) => Asks(wire'[p][a])
                 /\ Answers(w[p][a]) => Answers(wire'[p][a])
                 /\ \A l : f.guid # Unassigned /\ Knows(l, w[p][a], f.guid)
                             => Knows(l, wire'[p][a], f.guid)
      BY <1>4, <1>5, <1>6, BecameGrows
    <2> QED BY <2>1, <1>5
  <1>17. ASSUME NEW a \in Peer, NEW b \in Peer, Reaches(b, a)', guid'[b] # Unassigned
         PROVE  Knows(list'[a][b], wire'[b][a], guid'[b])
    <2>1. CASE b = p /\ a = q
      <3>1. Knows(list'[q][p], wire'[p][q], x.guid) BY <1>14, KnowsTold
      <3> QED BY <2>1, <3>1, <1>9, <1>13
    <2>2. CASE Reaches(b, a)
      <3>1. ~(b = p /\ a = q) /\ ~(b = q /\ a = p) BY <2>2, <1>12
      <3>2. guid[b] # Unassigned /\ guid'[b] = guid[b] /\ Knows(list[a][b], wire[b][a], guid[b])
        BY <1>9, <1>17, <2>2 DEF Told
      <3>3. list'[a][b] = list[a][b] /\ w[b][a] = wire[b][a] BY <3>1, <1>4, <1>9
      <3> QED BY <3>2, <3>3, <1>15, <1>16
    <2> QED BY <1>11, <1>17, <2>1, <2>2
  <1>18. ASSUME NEW a \in Peer, NEW b \in Peer, Reaches(b, a)', guid'[b] = Unassigned
         PROVE  Asks(wire'[b][a]) \/ Answers(wire'[a][b])
    <2>1. CASE b = p /\ a = q
      <3>1. x.guid = Unassigned BY <1>9, <1>13, <1>18, <2>1
      <3>2. Asks(wire'[p][q]) BY <1>13, <1>14, <3>1, WaitingAppend
      <3> QED BY <2>1, <3>2
    <2>2. CASE Reaches(b, a)
      <3>1. ~(b = p /\ a = q) /\ ~(b = q /\ a = p) BY <2>2, <1>12
      <3>2. Asks(wire[b][a]) \/ Answers(wire[a][b]) BY <1>9, <1>18, <2>2 DEF Awaited
      <3>3. w[b][a] = wire[b][a] /\ w[a][b] = wire[a][b] BY <3>1, <1>4
      <3> QED BY <3>2, <3>3, <1>15, <1>16
    <2> QED BY <1>11, <1>18, <2>1, <2>2
  <1>19. Told' BY <1>17 DEF Told
  <1>20. Awaited' BY <1>18 DEF Awaited
  <1> QED BY <1>8, <1>10, <1>19, <1>20

(* The dialing end learns of a connection.                                 *)
LEMMA AcceptedStep ==
  ASSUME MeshInv, NEW p \in Peer, NEW q \in Peer, Accepted(p, q)
  PROVE  MeshInv'
  <1> USE DEF MeshInv
  <1> DEFINE f == AddParticipantInternal(Self(p), q, Unassigned)
  <1>1. /\ <<p, q>> \in dialing /\ linked' = [linked EXCEPT ![p] = @ \cup {q}]
        /\ dialing' = dialing \ {<<p, q>>} /\ started' = started /\ Become(p, f, wire)
    BY DEF Accepted
  <1>2. q # p /\ q \notin linked[p] /\ list[p][q] = Absent BY <1>1 DEF Participating
  <1>3. Greets(p, q, f) BY <1>2, NewParticipant
  <1>4. Carries(wire) BY WireCarries
  <1> HIDE DEF f
  <1>5. Well(p, f) /\ f \in LocalState /\ f.guid = guid[p]
        /\ f.list = [list[p] EXCEPT ![q] = Unassigned]
    BY <1>3 DEF Greets, Well
  <1>6. Became(p, f, wire) BY <1>1, <1>4, <1>5, BecomeEffect DEF Carries
  <1>7. linked' \in [Peer -> SUBSET Peer] /\ dialing' \subseteq Peer \X Peer /\ started' \in [Peer -> Nat]
        /\ linked'[p] = linked[p] \cup {q} /\ \A r \in Peer : r # p => linked'[r] = linked[r]
    <2>1. linked \in [Peer -> SUBSET Peer] /\ dialing \subseteq Peer \X Peer /\ started \in [Peer -> Nat]
      BY DEF Typed
    <2>2. dialing' \subseteq Peer \X Peer BY <1>1, <2>1
    <2>3. linked' \in [Peer -> SUBSET Peer] /\ linked'[p] = linked[p] \cup {q}
          /\ \A r \in Peer : r # p => linked'[r] = linked[r]
      <3>1. linked[p] \cup {q} \in SUBSET Peer BY <2>1
      <3>2. linked' = [linked EXCEPT ![p] = linked[p] \cup {q}] BY <1>1
      <3> QED BY <2>1, <3>1, <3>2
    <2> QED BY <1>1, <2>1, <2>2, <2>3
  <1>8. Typed' /\ Numbered' /\ HostKept' BY <1>4, <1>5, <1>6, <1>7, BecameKeeps
  <1>9. /\ list'[p][q] = Unassigned /\ \A r \in Peer : r # q => list'[p][r] = list[p][r]
        /\ \A r \in Peer : r # p => list'[r] = list[r]
        /\ \A r \in Peer : guid'[r] = guid[r]
    <2>1. list[p] \in [Peer -> Nat \cup {Absent}] BY DEF Typed
    <2> QED BY <1>5, <1>6, <2>1 DEF Became
  <1>10. Participating' BY <1>1, <1>2, <1>7, <1>9 DEF Participating, Absent, Unassigned
  <1>11. \A a, b \in Peer : Reaches(b, a)' => Reaches(b, a) \/ (b = p /\ a = q)
    BY <1>1, <1>7 DEF Reaches, Listens
  <1>12. ~Reaches(p, q) BY <1>2 DEF Reaches
  <1>13. PICK x \in Message : f.out[q] = <<x>> /\ x.type = "REQUEST" /\ x.guid = guid[p]
    BY <1>3 DEF Greets
  <1>14. Reaches(p, q)' => wire'[p][q] = wire[p][q] \o <<x>>
    <2>1. Reaches(p, q)' => Gets(q, p) BY <1>1, <1>7 DEF Gets, Reaches, Listens
    <2>2. Gets(q, p) => wire'[p][q] = wire[p][q] \o f.out[q] BY <1>6 DEF Became, Gets
    <2> QED BY <1>13, <2>1, <2>2 DEF Gets
  <1>15. \A a, b \in Peer : b # p => wire'[b][a] = wire[b][a] BY <1>6 DEF Became
  <1>16. \A a \in Peer : /\ Asks(wire[p][a]) => Asks(wire'[p][a])
                         /\ Answers(wire[p][a]) => Answers(wire'[p][a])
                         /\ \A l : guid[p] # Unassigned /\ Knows(l, wire[p][a], guid[p])
                                     => Knows(l, wire'[p][a], guid[p])
    <2>1. ASSUME NEW a \in Peer
          PROVE  /\ Asks(wire[p][a]) => Asks(wire'[p][a])
                 /\ Answers(wire[p][a]) => Answers(wire'[p][a])
                 /\ \A l : f.guid # Unassigned /\ Knows(l, wire[p][a], f.guid)
                             => Knows(l, wire'[p][a], f.guid)
      BY <1>4, <1>5, <1>6, BecameGrows
    <2> QED BY <2>1, <1>5
  <1>a. wire[p][q] \in Seq(Message) BY DEF Typed
  <1>17. ASSUME NEW a \in Peer, NEW b \in Peer, Reaches(b, a)', guid'[b] # Unassigned
         PROVE  Knows(list'[a][b], wire'[b][a], guid'[b])
    <2>1. CASE b = p /\ a = q
      <3>1. wire'[p][q] = wire[p][q] \o <<x>> BY <1>14, <1>17, <2>1
      <3>2. Knows(list'[q][p], wire'[p][q], x.guid) BY <1>a, <3>1, KnowsTold
      <3> QED BY <2>1, <3>2, <1>9, <1>13
    <2>2. CASE Reaches(b, a)
      <3>1. ~(b = p /\ a = q) BY <2>2, <1>12
      <3>2. guid[b] # Unassigned /\ guid'[b] = guid[b] /\ Knows(list[a][b], wire[b][a], guid[b])
        BY <1>9, <1>17, <2>2 DEF Told
      <3>3. CASE b = q /\ a = p
        <4>1. guid[q] # Absent
          <5>1. guid[q] \in Nat BY DEF Typed
          <5> QED BY <5>1 DEF Absent
        <4>2. Knows(list'[p][q], wire[q][p], guid[q]) BY <1>2, <3>2, <3>3, <4>1 DEF Knows
        <4> QED BY <1>2, <1>15, <3>2, <3>3, <4>2
      <3>4. CASE ~(b = q /\ a = p)
        <4>1. list'[a][b] = list[a][b] BY <3>1, <3>4, <1>9
        <4> QED BY <3>2, <4>1, <1>15, <1>16
      <3> QED BY <3>3, <3>4
    <2> QED BY <1>11, <1>17, <2>1, <2>2
  <1>18. ASSUME NEW a \in Peer, NEW b \in Peer, Reaches(b, a)', guid'[b] = Unassigned
         PROVE  Asks(wire'[b][a]) \/ Answers(wire'[a][b])
    <2>1. CASE b = p /\ a = q
      <3>1. wire'[p][q] = wire[p][q] \o <<x>> BY <1>14, <1>18, <2>1
      <3>2. x.guid = Unassigned BY <1>9, <1>13, <1>18, <2>1
      <3>3. Asks(wire'[p][q]) BY <1>a, <1>13, <3>1, <3>2, WaitingAppend
      <3> QED BY <2>1, <3>3
    <2>2. CASE Reaches(b, a)
      <3>1. Asks(wire[b][a]) \/ Answers(wire[a][b]) BY <1>9, <1>18, <2>2 DEF Awaited
      <3> QED BY <3>1, <1>15, <1>16
    <2> QED BY <1>11, <1>18, <2>1, <2>2
  <1>19. Told' BY <1>17 DEF Told
  <1>20. Awaited' BY <1>18 DEF Awaited
  <1> QED BY <1>8, <1>10, <1>19, <1>20

(* The dialing end never learns of a connection that is gone again.        *)
LEMMA AcceptLostStep ==
  ASSUME MeshInv, NEW p \in Peer, NEW q \in Peer, AcceptLost(p, q)
  PROVE  MeshInv'
  <1> USE DEF MeshInv
  <1>1. /\ p \notin linked[q] /\ dialing' = dialing \ {<<p, q>>}
        /\ UNCHANGED <<list, guid, total, host, pushed, started, linked, wire, excused>>
    BY DEF AcceptLost
  <1>2. Typed' BY <1>1 DEF Typed
  <1>3. Numbered' BY <1>1 DEF Numbered
  <1>4. Participating' BY <1>1 DEF Participating
  <1>5. HostKept' BY <1>1 DEF HostKept
  <1>6. \A a, b \in Peer : Reaches(b, a)' => Reaches(b, a) BY <1>1 DEF Reaches, Listens
  <1>7. Told' BY <1>1, <1>6 DEF Told
  <1>8. Awaited' BY <1>1, <1>6 DEF Awaited
  <1> QED BY <1>2, <1>3, <1>4, <1>5, <1>7, <1>8

-----------------------------------------------------------------------------
(* Connections lost, and resets                                            *)

(* What a peer is left with when a participant is gone.                    *)
LEMMA ClosedWell ==
  ASSUME Typed, Numbered, Participating, HostKept, NEW p \in Peer, NEW q \in Peer, q \in linked[p]
  PROVE  LET s == [Self(p) EXCEPT !.list[q] = Absent, !.excused = @ \/ list[p][q] = Unassigned]
             f == IF list[p][q] # Absent /\ host[p] = q /\ guid[p] # Unassigned
                  THEN PushNewHost(s, CalculateHost(s, p)) ELSE s
         IN  /\ Well(p, f) /\ f.guid = guid[p] /\ f.list = [list[p] EXCEPT ![q] = Absent]
             /\ \A r \in Peer : f.out[r] = <<>>
  <1> DEFINE k == [list[p] EXCEPT ![q] = Absent]
             s == [Self(p) EXCEPT !.list[q] = Absent, !.excused = @ \/ list[p][q] = Unassigned]
             h == HostOf(k, guid[p], p)
             e == PushNewHost(s, h)
  <1>1. /\ Self(p) \in LocalState
        /\ Self(p).list = list[p] /\ Self(p).guid = guid[p] /\ Self(p).total = total[p]
        /\ Self(p).host = host[p] /\ Self(p).pushed = pushed[p] /\ Self(p).excused = (p \in excused)
        /\ Self(p).out = [r \in Peer |-> <<>>]
    BY SelfState
  <1>2. /\ s \in LocalState /\ s.list = k /\ s.guid = guid[p] /\ s.total = total[p]
        /\ s.host = host[p] /\ s.pushed = pushed[p] /\ \A r \in Peer : s.out[r] = <<>>
        /\ s.excused = (p \in excused \/ list[p][q] = Unassigned)
    BY <1>1 DEF LocalState
  <1>3. list[p] \in [Peer -> Nat \cup {Absent}] /\ guid[p] \in Nat /\ k \in [Peer -> Nat \cup {Absent}]
    BY DEF Typed
  <1>4. list[p][q] # Absent BY DEF Participating
  <1>5. \A r \in Peer : list[p][r] \notin {Absent, Unassigned} => list[p][r] \in Numbers(r)
    BY DEF Numbered
  <1>6. \A r \in Peer : k[r] \notin {Absent, Unassigned} => k[r] \in Numbers(r) BY <1>3, <1>5
  <1>7. guid[p] # Unassigned => guid[p] \in Numbers(p) /\ total[p] # 0 BY DEF Numbered
  <1>8. CASE host[p] = q /\ guid[p] # Unassigned
    <2>1. CalculateHost(s, p) = h BY <1>2, CalculateHostIs
    <2> HIDE DEF s, k
    <2>2. h \in Peer BY <1>3, HostOfLeast
    <2> HIDE DEF h
    <2>3. /\ e \in LocalState /\ e.list = k /\ e.guid = guid[p] /\ e.total = total[p]
          /\ e.out = s.out /\ e.host = h /\ e.pushed = h /\ e.excused = FALSE
      BY <1>2, <2>2, PushState
    <2> HIDE DEF e
    <2>4. Right(e, p) BY <2>3 DEF Right, HostRight, h
    <2>5. Well(p, e) BY <1>2, <1>6, <1>7, <2>3, <2>4 DEF Well, OneMessage
    <2>6. (IF list[p][q] # Absent /\ host[p] = q /\ guid[p] # Unassigned
           THEN PushNewHost(s, CalculateHost(s, p)) ELSE s) = e
      BY <1>4, <1>8, <2>1 DEF e
    <2> QED BY <1>2, <2>3, <2>5, <2>6 DEF s, k
  <1>9. CASE ~(host[p] = q /\ guid[p] # Unassigned)
    <2>1. Right(s, p)
      <3> SUFFICES ASSUME ~s.excused PROVE HostRight(k, guid[p], p, host[p], pushed[p])
        BY <1>2 DEF Right
      <3>1. p \notin excused /\ list[p][q] # Unassigned BY <1>2
      <3>2. HostRight(list[p], guid[p], p, host[p], pushed[p]) BY <3>1 DEF HostKept
      <3>3. ASSUME guid[p] # Unassigned, Complete(k) PROVE host[p] = HostOf(k, guid[p], p)
        <4>1. Complete(list[p]) BY <1>3, <3>1, <3>3 DEF Complete
        <4>2. host[p] = HostOf(list[p], guid[p], p) /\ host[p] # q
          BY <1>9, <3>2, <3>3, <4>1 DEF HostRight
        <4> QED BY <1>3, <1>5, <4>2, HostStays
      <3> QED BY <3>2, <3>3 DEF HostRight
    <2> HIDE DEF s, k
    <2>2. Well(p, s) BY <1>2, <1>6, <1>7, <2>1 DEF Well, OneMessage
    <2>3. (IF list[p][q] # Absent /\ host[p] = q /\ guid[p] # Unassigned
           THEN PushNewHost(s, CalculateHost(s, p)) ELSE s) = s
      BY <1>9
    <2> QED BY <1>2, <2>2, <2>3 DEF s, k
  <1> QED BY <1>8, <1>9

(* A connection is lost.                                                   *)
LEMMA ClosedStep ==
  ASSUME MeshInv, NEW p \in Peer, NEW q \in Peer, OnClosedConnection(p, q)
  PROVE  MeshInv'
  <1> USE DEF MeshInv
  <1> DEFINE s == [Self(p) EXCEPT !.list[q] = Absent, !.excused = @ \/ list[p][q] = Unassigned]
             f == IF list[p][q] # Absent /\ host[p] = q /\ guid[p] # Unassigned
                  THEN PushNewHost(s, CalculateHost(s, p)) ELSE s
             w == [wire EXCEPT ![q][p] = <<>>]
  <1>1. /\ q \in linked[p] /\ linked' = [linked EXCEPT ![p] = @ \ {q}]
        /\ dialing' = dialing /\ started' = started /\ Become(p, f, w)
    BY DEF OnClosedConnection
  <1>2. q # p /\ <<p, q>> \notin dialing BY <1>1 DEF Participating
  <1>3. /\ Well(p, f) /\ f.guid = guid[p] /\ f.list = [list[p] EXCEPT ![q] = Absent]
        /\ \A r \in Peer : f.out[r] = <<>>
    BY <1>1, ClosedWell
  <1> HIDE DEF s, f
  <1>4. /\ Carries(w) /\ \A a, b \in Peer : ~(a = q /\ b = p) => w[a][b] = wire[a][b]
    <2>1. wire \in [Peer -> [Peer -> Seq(Message)]] /\ <<>> \in Seq(Message) BY DEF Typed
    <2>2. w \in [Peer -> [Peer -> Seq(Message)]] /\ w[q][p] = <<>>
          /\ \A a, b \in Peer : ~(a = q /\ b = p) => w[a][b] = wire[a][b]
      BY <2>1
    <2> HIDE DEF w
    <2>3. ASSUME NEW a \in Peer, NEW b \in Peer, NEW i \in DOMAIN w[b][a]
          PROVE  w[b][a][i] \in MessageOf(b)
      <3>1. CASE b = q /\ a = p
        <4>1. w[b][a] = <<>> BY <2>2, <3>1
        <4> QED BY <4>1
      <3>2. CASE ~(b = q /\ a = p) BY <2>2, <3>2 DEF Numbered
      <3> QED BY <3>1, <3>2
    <2> QED BY <2>2, <2>3 DEF Carries
  <1> HIDE DEF w
  <1>5. f \in LocalState BY <1>3 DEF Well
  <1>6. Became(p, f, w) BY <1>1, <1>4, <1>5, BecomeEffect DEF Carries
  <1>7. linked' \in [Peer -> SUBSET Peer] /\ dialing' \subseteq Peer \X Peer /\ started' \in [Peer -> Nat]
        /\ linked'[p] = linked[p] \ {q} /\ \A r \in Peer : r # p => linked'[r] = linked[r]
    BY <1>1 DEF Typed
  <1>8. Typed' /\ Numbered' /\ HostKept' BY <1>3, <1>4, <1>6, <1>7, BecameKeeps
  <1>9. /\ list'[p][q] = Absent /\ \A r \in Peer : r # q => list'[p][r] = list[p][r]
        /\ \A r \in Peer : r # p => list'[r] = list[r]
        /\ \A r \in Peer : guid'[r] = guid[r]
    <2>1. list[p] \in [Peer -> Nat \cup {Absent}] BY DEF Typed
    <2> QED BY <1>3, <1>6, <2>1 DEF Became
  <1>10. Participating' BY <1>1, <1>7, <1>9 DEF Participating
  <1>11. \A a, b \in Peer : Reaches(b, a)' =>
           Reaches(b, a) /\ ~(b = p /\ a = q) /\ ~(b = q /\ a = p)
    BY <1>1, <1>2, <1>7 DEF Reaches, Listens
  <1>12. \A a, b \in Peer : ~(b = q /\ a = p) => wire'[b][a] = wire[b][a]
    <2>1. ASSUME NEW a \in Peer PROVE wire'[p][a] = w[p][a]
      <3>1. w[p][a] \in Seq(Message) BY <1>4 DEF Carries
      <3>2. w[p][a] \o <<>> = w[p][a] BY <3>1
      <3>3. f.out[a] = <<>> BY <1>3
      <3>4. wire'[p][a] = w[p][a] \/ wire'[p][a] = w[p][a] \o f.out[a] BY <1>6 DEF Became
      <3> QED BY <3>2, <3>3, <3>4, Zenon
    <2>2. \A b \in Peer : b # p => wire'[b] = w[b] BY <1>6 DEF Became
    <2> QED BY <1>4, <2>1, <2>2, ZenonT(40)
  <1>13. Told'
    <2> SUFFICES ASSUME NEW a \in Peer, NEW b \in Peer, Reaches(b, a)', guid'[b] # Unassigned
                 PROVE  Knows(list'[a][b], wire'[b][a], guid'[b])
      BY DEF Told
    <2>1. Reaches(b, a) /\ ~(b = p /\ a = q) /\ ~(b = q /\ a = p) BY <1>11
    <2>2. list'[a][b] = list[a][b] /\ wire'[b][a] = wire[b][a] /\ guid'[b] = guid[b]
      BY <1>9, <1>12, <2>1
    <2> QED BY <2>1, <2>2 DEF Told
  <1>14. Awaited'
    <2> SUFFICES ASSUME NEW a \in Peer, NEW b \in Peer, Reaches(b, a)', guid'[b] = Unassigned
                 PROVE  Asks(wire'[b][a]) \/ Answers(wire'[a][b])
      BY DEF Awaited
    <2>1. Reaches(b, a) /\ ~(b = p /\ a = q) /\ ~(b = q /\ a = p) BY <1>11
    <2>2. wire'[a][b] = wire[a][b] /\ wire'[b][a] = wire[b][a] /\ guid'[b] = guid[b]
      BY <1>9, <1>12, <2>1
    <2> QED BY <2>1, <2>2 DEF Awaited
  <1> QED BY <1>8, <1>10, <1>13, <1>14

(* A finite set of numbers has a greatest one.                             *)
LEMMA GreatestNumber ==
  ASSUME NEW U \in SUBSET Nat, IsFiniteSet(U), U # {}
  PROVE  \E x \in U : \A y \in U : x >= y
  <1> DEFINE S == {n \in Nat : \A T \in SUBSET Nat :
                     IsFiniteSet(T) /\ Cardinality(T) = n /\ T # {} =>
                       \E x \in T : \A y \in T : x >= y}
  <1>1. 0 \in S BY FS_EmptySet
  <1>2. ASSUME NEW n \in Nat, n \in S PROVE n + 1 \in S
    <2> SUFFICES ASSUME NEW T \in SUBSET Nat, IsFiniteSet(T), Cardinality(T) = n + 1, T # {}
                 PROVE  \E x \in T : \A y \in T : x >= y
      OBVIOUS
    <2>1. PICK z \in T : TRUE OBVIOUS
    <2>2. IsFiniteSet(T \ {z}) /\ Cardinality(T \ {z}) = Cardinality(T) - 1 BY FS_RemoveElement
    <2>3. CASE T \ {z} = {} BY <2>3
    <2>4. CASE T \ {z} # {}
      <3>1. Cardinality(T \ {z}) = n /\ T \ {z} \in SUBSET Nat BY <2>2
      <3>2. PICK x \in T \ {z} : \A y \in T \ {z} : x >= y BY <1>2, <2>2, <2>4, <3>1
      <3>3. CASE x >= z BY <3>2, <3>3
      <3>4. CASE z >= x
        <4>1. \A y \in T : z >= y BY <3>2, <3>4
        <4> QED BY <4>1
      <3> QED BY <3>3, <3>4
    <2> QED BY <2>3, <2>4
  <1> HIDE DEF S
  <1>3. Nat \subseteq S BY <1>1, <1>2, Induction
  <1>4. Cardinality(U) \in Nat BY FS_CardinalityType
  <1>5. Cardinality(U) \in S BY <1>3, <1>4
  <1> QED BY <1>5 DEF S

(* The latest startup time is a number.                                    *)
LEMMA LatestStart ==
  ASSUME NEW t \in [Peer -> Nat], NEW p \in Peer
  PROVE  Max({t[q] : q \in Peer}) \in Nat
  <1> DEFINE T == {t[q] : q \in Peer}
  <1>1. T \in SUBSET Nat /\ T # {} OBVIOUS
  <1>2. t \in Surjection(Peer, T) BY DEF Surjection
  <1> HIDE DEF T
  <1>3. IsFiniteSet(T) BY <1>2, Constants, FS_Surjection
  <1>4. \E x \in T : \A y \in T : x >= y BY <1>1, <1>3, GreatestNumber
  <1>5. Max(T) \in T BY <1>4, Zenon DEF Max
  <1> QED BY <1>1, <1>5 DEF T

(* A peer starts its calculation anew.                                     *)
LEMMA ResetStep ==
  ASSUME MeshInv, NEW p \in Peer, ResetHostCalculation(p)
  PROVE  MeshInv'
  <1> USE DEF MeshInv
  <1> DEFINE latest == Max({started[q] : q \in Peer}) + 1
             s == [Self(p) EXCEPT !.host = NoHost, !.total = 0, !.guid = Unassigned,
                                  !.excused = TRUE, !.since = latest]
             x == FCMGuidRequest(s)
             f == Say(s, Participants(s), x)
  <1>1. latest \in Nat
    <2>1. started \in [Peer -> Nat] BY DEF Typed
    <2>2. Max({started[q] : q \in Peer}) \in Nat BY <2>1, LatestStart, Zenon
    <2> QED BY <2>2
  <1>2. /\ linked' = linked /\ dialing' = dialing
        /\ started' = [started EXCEPT ![p] = s.since] /\ Become(p, f, wire)
    BY DEF ResetHostCalculation
  <1> HIDE DEF latest
  <1>3. Self(p) \in LocalState /\ Self(p).list = list[p] /\ Self(p).out = [q \in Peer |-> <<>>]
    BY SelfState
  <1>4. /\ s \in LocalState /\ s.list = list[p] /\ s.guid = Unassigned /\ s.excused = TRUE
        /\ s.since = latest /\ \A r \in Peer : s.out[r] = <<>>
    BY <1>1, <1>3 DEF LocalState, Unassigned
  <1> HIDE DEF s
  <1>5. x = Msg("REQUEST", Unassigned, 0, latest) BY <1>4 DEF FCMGuidRequest
  <1> HIDE DEF x
  <1>6. x \in Message /\ x.type = "REQUEST" /\ x.guid = Unassigned
    BY <1>1, <1>5, MsgType DEF Unassigned
  <1>7. x \in MessageOf(p) BY <1>6 DEF MessageOf
  <1>8. /\ f \in LocalState /\ f.list = s.list /\ f.guid = s.guid /\ f.excused = s.excused
        /\ \A r \in Peer : f.out[r] = IF r \in Participants(s) THEN Append(s.out[r], x) ELSE s.out[r]
    BY <1>4, <1>6, SayState
  <1> HIDE DEF f
  <1>9. \A r \in Peer : f.out[r] = IF list[p][r] # Absent THEN <<x>> ELSE <<>>
    <2>1. Append(<<>>, x) = <<x>> OBVIOUS
    <2>2. \A r \in Peer : r \in Participants(s) <=> list[p][r] # Absent BY <1>4 DEF Participants
    <2> QED BY <1>4, <1>8, <2>1, <2>2, Zenon
  <1>10. Well(p, f)
    <2>1. \A r \in Peer : OneMessage(f.out[r], p, f.guid) BY <1>6, <1>7, <1>9 DEF OneMessage
    <2>2. \A r \in Peer : f.list[r] \notin {Absent, Unassigned} => f.list[r] \in Numbers(r)
      BY <1>4, <1>8 DEF Numbered
    <2> QED BY <1>4, <1>8, <2>1, <2>2 DEF Well, Right
  <1>11. Carries(wire) BY WireCarries
  <1>12. Became(p, f, wire) BY <1>2, <1>8, <1>11, BecomeEffect DEF Carries
  <1>13. linked' \in [Peer -> SUBSET Peer] /\ dialing' \subseteq Peer \X Peer /\ started' \in [Peer -> Nat]
    BY <1>1, <1>2, <1>4 DEF Typed
  <1>14. Typed' /\ Numbered' /\ HostKept' BY <1>10, <1>11, <1>12, <1>13, BecameKeeps
  <1>15. list'[p] = list[p] /\ guid'[p] = Unassigned
         /\ \A r \in Peer : r # p => list'[r] = list[r] /\ guid'[r] = guid[r]
    BY <1>4, <1>8, <1>12 DEF Became
  <1>16. \A r \in Peer : list'[r] = list[r] BY <1>15
  <1>17. Participating' BY <1>2, <1>16 DEF Participating
  <1>18. \A a, b \in Peer : Reaches(b, a)' <=> Reaches(b, a) BY <1>2 DEF Reaches, Listens
  <1>19. \A a, b \in Peer : b # p => wire'[b][a] = wire[b][a] BY <1>12 DEF Became
  <1>20. Told'
    <2> SUFFICES ASSUME NEW a \in Peer, NEW b \in Peer, Reaches(b, a)', guid'[b] # Unassigned
                 PROVE  Knows(list'[a][b], wire'[b][a], guid'[b])
      BY DEF Told
    <2>1. Reaches(b, a) /\ b # p BY <1>15, <1>18
    <2>2. list'[a][b] = list[a][b] /\ wire'[b][a] = wire[b][a] /\ guid'[b] = guid[b]
      BY <1>15, <1>16, <1>19, <2>1
    <2> QED BY <2>1, <2>2 DEF Told
  <1>21. Awaited'
    <2> SUFFICES ASSUME NEW a \in Peer, NEW b \in Peer, Reaches(b, a)', guid'[b] = Unassigned
                 PROVE  Asks(wire'[b][a]) \/ Answers(wire'[a][b])
      BY DEF Awaited
    <2>1. Reaches(b, a) /\ a # b BY <1>18 DEF Reaches, Participating
    <2>2. CASE b = p
      <3>1. list[p][a] # Absent /\ a \in linked[p] /\ Listens(a, p)
        BY <2>1, <2>2 DEF Reaches, Participating
      <3>2. Gets(a, p) BY <1>2, <3>1 DEF Gets
      <3>3. wire'[p][a] = wire[p][a] \o f.out[a] BY <1>12, <3>2 DEF Became, Gets
      <3>4. f.out[a] = <<x>> /\ wire[p][a] \in Seq(Message) BY <1>9, <3>1 DEF Typed
      <3>5. Asks(wire'[p][a]) BY <1>6, <3>3, <3>4, WaitingAppend
      <3> QED BY <2>2, <3>5
    <2>3. CASE b # p
      <3>1. guid[b] = Unassigned BY <1>15, <2>3
      <3>2. Asks(wire[b][a]) \/ Answers(wire[a][b]) BY <2>1, <3>1 DEF Awaited
      <3>3. wire'[b][a] = wire[b][a] BY <1>19, <2>3
      <3>4. CASE a # p BY <1>19, <3>2, <3>3, <3>4
      <3>5. CASE a = p
        <4>1. Answers(wire[p][b]) => Answers(wire'[p][b]) BY <1>10, <1>11, <1>12, BecameGrows
        <4> QED BY <3>2, <3>3, <3>5, <4>1
      <3> QED BY <3>4, <3>5
    <2> QED BY <2>2, <2>3
  <1> QED BY <1>14, <1>17, <1>20, <1>21

-----------------------------------------------------------------------------
(* The theorems                                                            *)

(* The invariant holds at the start ...                                    *)
LEMMA MeshInvInit == Init => MeshInv
  <1> SUFFICES ASSUME Init PROVE MeshInv OBVIOUS
  <1> USE DEF Init
  <1>1. <<>> \in Seq(Message) OBVIOUS
  <1>2. Typed BY <1>1, Constants DEF Typed, Unassigned
  <1>3. Numbered
    <2>1. \A p, q \in Peer : wire[q][p] = <<>> /\ list[p][q] = Absent /\ guid[p] = Unassigned
      OBVIOUS
    <2> QED BY <2>1 DEF Numbered
  <1>4. Participating BY DEF Participating
  <1>5. HostKept BY DEF HostKept, HostRight
  <1>6. \A p, q \in Peer : ~Reaches(q, p) BY DEF Reaches
  <1> QED BY <1>2, <1>3, <1>4, <1>5, <1>6 DEF MeshInv, Told, Awaited

(* ... and every step keeps it.                                            *)
LEMMA MeshInvNext == MeshInv /\ [Next]_vars => MeshInv'
  <1> SUFFICES ASSUME MeshInv, [Next]_vars PROVE MeshInv' OBVIOUS
  <1>1. ASSUME NEW p \in Peer, NEW q \in Peer, OnReceive(p, q) PROVE MeshInv'
    <2>1. Typed /\ Numbered /\ Participating /\ HostKept BY DEF MeshInv
    <2>2. Answering(p, q)
      BY <1>1, <2>1, RequestAnswered, RespondAnswered, InformAnswered DEF OnReceive
    <2> QED BY <2>2, ReceiveStep
  <1>2. ASSUME NEW p \in Peer, NEW q \in Peer, Accept(p, q) PROVE MeshInv' BY <1>2, AcceptStep
  <1>3. ASSUME NEW p \in Peer, NEW q \in Peer, Accepted(p, q) PROVE MeshInv'
    BY <1>3, AcceptedStep
  <1>4. ASSUME NEW p \in Peer, NEW q \in Peer, AcceptLost(p, q) PROVE MeshInv'
    BY <1>4, AcceptLostStep
  <1>5. ASSUME NEW p \in Peer, NEW q \in Peer, OnClosedConnection(p, q) PROVE MeshInv'
    BY <1>5, ClosedStep
  <1>6. ASSUME NEW p \in Resetter, ResetHostCalculation(p) PROVE MeshInv'
    <2>1. p \in Peer BY Constants
    <2> QED BY <1>6, <2>1, ResetStep
  <1>7. CASE UNCHANGED vars
    <2>1. UNCHANGED <<list, guid, total, host, pushed, started, linked, dialing, wire, excused>>
      BY <1>7 DEF vars
    <2>2. Typed' BY <2>1 DEF MeshInv, Typed
    <2>3. Numbered' BY <2>1 DEF MeshInv, Numbered
    <2>4. Participating' BY <2>1 DEF MeshInv, Participating
    <2>5. HostKept' BY <2>1 DEF MeshInv, HostKept
    <2>6. Told' BY <2>1 DEF MeshInv, Told, Reaches, Listens
    <2>7. Awaited' BY <2>1 DEF MeshInv, Awaited, Reaches, Listens
    <2> QED BY <2>2, <2>3, <2>4, <2>5, <2>6, <2>7 DEF MeshInv
  <1> QED BY <1>1, <1>2, <1>3, <1>4, <1>5, <1>6, <1>7 DEF Next

(* The invariant gives the types: a number is at least a span ...          *)
LEMMA MeshInvTypeOK == MeshInv => TypeOK
  <1> SUFFICES ASSUME MeshInv PROVE TypeOK OBVIOUS
  <1>1. ASSUME NEW p \in Peer PROVE guid[p] \notin 1 .. (RandomSpan - 1)
    <2>1. guid[p] \in Nat /\ RandomSpan \in Nat BY Constants DEF MeshInv, Typed
    <2>2. CASE guid[p] = Unassigned BY <2>2 DEF Unassigned
    <2>3. CASE guid[p] # Unassigned
      <3>1. guid[p] \in Numbers(p) BY <2>3 DEF MeshInv, Numbered
      <3>2. guid[p] >= RandomSpan BY <3>1, NumberRange
      <3> QED BY <2>1, <3>2
    <2> QED BY <2>2, <2>3
  <1>2. \A p, q \in Peer : Arrives(p, q, "INFORM") => list[p][q] # Absent
    BY DEF MeshInv, Participating, Arrives
  <1> QED BY <1>1, <1>2 DEF MeshInv, Typed, TypeOK

(* ... and the agreement: in a settled mesh everyone has a number, all     *)
(* lists agree, and each holds the lowest number for the host.             *)
LEMMA MeshInvHostAgreed == MeshInv => HostAgreed
  <1> SUFFICES ASSUME MeshInv, NEW G \in (SUBSET Peer) \ {{}}, Settled(G)
               PROVE  \E h \in G : /\ \A p \in G \ excused : GetHostSystem(p) = h
                                   /\ \A p \in G : guid[h] <= guid[p]
    BY DEF HostAgreed
  <1> USE DEF MeshInv
  <1>1. G \subseteq Peer /\ G # {} OBVIOUS
  <1>2. guid \in [Peer -> Nat] /\ list \in [Peer -> [Peer -> Nat \cup {Absent}]] BY DEF Typed
  <1>3. \A p \in G : linked[p] = G \ {p} BY DEF Settled
  <1>4. ASSUME NEW p \in G, NEW q \in G, p # q
        PROVE  /\ guid[q] # Unassigned /\ list[p][q] = guid[q]
    <2>1. Reaches(q, p) BY <1>3, <1>4 DEF Reaches, Listens
    <2>2. wire[q][p] = <<>> /\ wire[p][q] = <<>> BY DEF Settled
    <2>3. guid[q] # Unassigned BY <1>1, <2>1, <2>2 DEF Awaited, Asks, Answers
    <2>4. Knows(list[p][q], wire[q][p], guid[q]) BY <1>1, <2>1, <2>3 DEF Told
    <2> QED BY <2>2, <2>3, <2>4 DEF Knows
  <1>5. ASSUME NEW p \in G, NEW q \in Peer, q \notin G \/ q = p PROVE list[p][q] = Absent
    BY <1>1, <1>3, <1>5 DEF Participating
  <1>6. PICK h \in G : \A p \in G : guid[h] <= guid[p]
    <2> DEFINE T == {guid[p] : p \in G}
    <2>1. T \in SUBSET Nat /\ T # {} BY <1>1, <1>2
    <2>2. \E n \in T : \A m \in T : n <= m
      <3> HIDE DEF T
      <3> QED BY <2>1, LeastNumber
    <2> QED BY <2>2
  <1>7. ASSUME NEW p \in G \ excused PROVE GetHostSystem(p) = h
    <2>1. CASE G = {p}
      <3>1. h = p BY <2>1
      <3>2. CASE guid[p] = Unassigned BY <3>1, <3>2 DEF GetHostSystem
      <3>3. CASE guid[p] # Unassigned
        <4>1. \A q \in Peer : list[p][q] = Absent BY <1>5, <2>1
        <4>2. Complete(list[p]) /\ Lower(list[p], guid[p]) = {}
          BY <4>1 DEF Complete, Lower, Absent, Unassigned
        <4>3. host[p] = HostOf(list[p], guid[p], p) BY <1>1, <3>3, <4>2 DEF HostKept, HostRight
        <4>4. host[p] = p BY <4>2, <4>3 DEF HostOf
        <4> QED BY <3>1, <3>3, <4>4 DEF GetHostSystem
      <3> QED BY <3>2, <3>3
    <2>2. CASE G # {p}
      <3>1. \A q \in G : guid[q] # Unassigned /\ guid[q] \in Numbers(q)
        <4>1. PICK r \in G : r # p BY <2>2
        <4>2. guid[p] # Unassigned BY <1>4, <4>1
        <4>3. \A q \in G : guid[q] # Unassigned BY <1>4, <4>2
        <4> QED BY <1>1, <4>3 DEF Numbered
      <3>2. Complete(list[p])
        <4> SUFFICES ASSUME NEW q \in Peer PROVE list[p][q] # Unassigned BY DEF Complete
        <4>1. CASE q \in G /\ q # p BY <1>4, <4>1
        <4>2. CASE q \notin G \/ q = p BY <1>5, <4>2 DEF Absent, Unassigned
        <4> QED BY <4>1, <4>2
      <3>3. p \in Peer /\ p \notin excused /\ guid[p] # Unassigned BY <1>1, <3>1
      <3>4. host[p] = HostOf(list[p], guid[p], p) BY <3>2, <3>3 DEF HostKept, HostRight
      <3>5. GetHostSystem(p) = HostOf(list[p], guid[p], p) BY <3>3, <3>4 DEF GetHostSystem
      <3>6. /\ Lower(list[p], guid[p]) = {} => HostOf(list[p], guid[p], p) = p
            /\ Lower(list[p], guid[p]) # {} =>
                 /\ HostOf(list[p], guid[p], p) \in Lower(list[p], guid[p])
                 /\ \A r \in Lower(list[p], guid[p]) :
                      list[p][HostOf(list[p], guid[p], p)] <= list[p][r]
        <4>1. list[p] \in [Peer -> Nat \cup {Absent}] /\ guid[p] \in Nat BY <1>1, <1>2
        <4> QED BY <3>3, <4>1, HostOfLeast
      <3>7. \A q \in Peer : q \in Lower(list[p], guid[p])
                              <=> q \in G /\ q # p /\ guid[q] < guid[p]
        <4> SUFFICES ASSUME NEW q \in Peer
                     PROVE  q \in Lower(list[p], guid[p])
                              <=> q \in G /\ q # p /\ guid[q] < guid[p]
          OBVIOUS
        <4>1. CASE q \in G /\ q # p
          <5>1. list[p][q] = guid[q] /\ guid[q] # Unassigned /\ guid[q] \in Nat
            BY <1>2, <1>4, <4>1
          <5> QED BY <4>1, <5>1 DEF Lower, Absent
        <4>2. CASE q \notin G \/ q = p BY <1>5, <4>2 DEF Lower
        <4> QED BY <4>1, <4>2
      <3>8. h \in Peer /\ guid[h] \in Nat /\ guid[p] \in Nat BY <1>1, <1>2
      <3>9. CASE p = h
        <4>1. Lower(list[p], guid[p]) = {}
          <5> SUFFICES ASSUME NEW q \in Lower(list[p], guid[p]) PROVE FALSE OBVIOUS
          <5>1. q \in Peer BY DEF Lower
          <5>2. q \in G /\ guid[q] < guid[p] /\ guid[q] \in Nat BY <1>2, <3>7, <5>1
          <5> QED BY <1>6, <3>8, <3>9, <5>2
        <4> QED BY <3>5, <3>6, <3>9, <4>1
      <3>10. CASE p # h
        <4>1. guid[h] # guid[p] BY <1>1, <3>1, <3>10, NumbersDiffer
        <4>2. guid[h] < guid[p] BY <1>6, <3>8, <4>1
        <4>3. h \in Lower(list[p], guid[p]) BY <3>7, <3>8, <3>10, <4>2
        <4> DEFINE i == HostOf(list[p], guid[p], p)
        <4>4. i \in Lower(list[p], guid[p]) /\ list[p][i] <= list[p][h] BY <3>6, <4>3
        <4> HIDE DEF i
        <4>5. i \in Peer BY <4>4 DEF Lower
        <4>6. i \in G /\ i # p BY <3>7, <4>4, <4>5
        <4>7. list[p][i] = guid[i] /\ list[p][h] = guid[h] BY <1>4, <3>10, <4>6
        <4>8. guid[i] = guid[h]
          <5>1. guid[i] \in Nat BY <1>2, <4>5
          <5>2. guid[h] <= guid[i] BY <1>6, <4>6
          <5> QED BY <3>8, <4>4, <4>7, <5>1, <5>2
        <4>9. i = h BY <3>1, <3>8, <4>5, <4>6, <4>8, NumbersDiffer
        <4> QED BY <3>5, <4>9 DEF i
      <3> QED BY <3>9, <3>10
    <2> QED BY <2>1, <2>2
  <1> QED BY <1>6, <1>7

(* Type correctness, for every set of peers and every bound: a number is   *)
(* never drawn with count 0 (AssignOurFCMGuid), and ID_FCM2_INFORM_FCMGUID *)
(* comes only from a participant, so the code for a stranger never runs.   *)
THEOREM MeshTypeCorrect == Spec => []TypeOK
  <1>1. Spec => []MeshInv BY MeshInvInit, MeshInvNext, PTL DEF Spec
  <1> QED BY <1>1, MeshInvTypeOK, PTL

(* Host agreement, for every set of peers and every bound: GetHostSystem   *)
(* gives the same peer everywhere in a settled mesh, the one with the      *)
(* lowest FCM2Guid, whatever connections, losses and resets went before.   *)
THEOREM MeshHostAgreed == Spec => []HostAgreed
  <1>1. Spec => []MeshInv BY MeshInvInit, MeshInvNext, PTL DEF Spec
  <1> QED BY <1>1, MeshInvHostAgreed, PTL
=============================================================================
