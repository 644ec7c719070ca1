------------------------ MODULE PeerConnectionProofs ------------------------
(***************************************************************************)
(* What PeerConnection promises, for any number of peers, any limits and   *)
(* any number of calls: type correctness, and for peers of which no two    *)
(* dial each other the invariants of the session run.                      *)
(***************************************************************************)
EXTENDS PeerConnection, WireArithmetic, FiniteSetTheorems

-----------------------------------------------------------------------------
(* Operators of the model                                                  *)

(* The selection of the unordered messages is a sequence of them.          *)
LEMMA OnlyUnorderedType ==
  ASSUME NEW S, NEW w \in Seq(S) PROVE OnlyUnordered(w) \in Seq(S)
  <1> DEFINE kept == {i \in DOMAIN w : w[i] \in Unordered}
             Up(i) == {j \in kept : j <= i}
             rank(i) == Cardinality(Up(i))
  <1>1. IsFiniteSet(1 .. Len(w)) BY FS_Interval
  <1>2. kept \subseteq 1 .. Len(w) OBVIOUS
  <1>3. IsFiniteSet(kept) /\ Cardinality(kept) \in Nat
    BY <1>1, <1>2, FS_Subset, FS_CardinalityType
  <1>4. \A i \in Nat : IsFiniteSet(Up(i)) /\ rank(i) \in Nat
    <2>1. \A i \in Nat : Up(i) \subseteq kept OBVIOUS
    <2> HIDE DEF kept, Up
    <2> QED BY <2>1, <1>3, FS_Subset, FS_CardinalityType
  <1>5. ASSUME NEW k \in 1 .. Cardinality(kept)
        PROVE  \E i \in kept : rank(i) = k
    <2> DEFINE T == {n \in Nat : rank(n) >= k}
    <2>0. k \in Nat BY <1>3
    <2>1. Len(w) \in T
      <3>1. Up(Len(w)) = kept BY <1>2
      <3> HIDE DEF kept, Up
      <3> QED BY <3>1, <1>3
    <2>2. PICK n \in T : \A m \in T : n <= m
      <3>1. T \in SUBSET Nat /\ T # {} BY <2>1
      <3> HIDE DEF T
      <3> QED BY <3>1, LeastNumber
    <2>3. n # 0
      <3>1. Up(0) = {} BY <1>2
      <3>2. rank(0) = 0 BY <3>1, FS_EmptySet
      <3> HIDE DEF rank
      <3> QED BY <2>2, <3>2, <1>3
    <2>4. n - 1 \in Nat /\ n - 1 \notin T BY <2>2, <2>3
    <2>5. rank(n - 1) < k
      <3>1. rank(n - 1) \in Nat BY <2>4, <1>4
      <3> HIDE DEF rank
      <3> QED BY <2>0, <2>4, <3>1
    <2>6. n \in kept
      <3> SUFFICES ASSUME n \notin kept PROVE FALSE OBVIOUS
      <3>1. Up(n) = Up(n - 1) BY <1>2, <2>4
      <3>2. rank(n) = rank(n - 1) BY <3>1
      <3>3. n \in Nat /\ rank(n) \in Nat BY <1>4, <2>2
      <3> HIDE DEF rank
      <3> QED BY <2>0, <2>2, <2>5, <3>2, <3>3
    <2>7. rank(n) = rank(n - 1) + 1
      <3>1. Up(n) = Up(n - 1) \cup {n} /\ n \notin Up(n - 1) BY <1>2, <2>4, <2>6
      <3> HIDE DEF kept, Up
      <3> QED BY <3>1, <1>4, <2>4, FS_AddElement
    <2>8. rank(n) = k
      <3>1. rank(n) \in Nat /\ rank(n - 1) \in Nat /\ rank(n) >= k BY <1>4, <2>2, <2>4
      <3> HIDE DEF rank
      <3> QED BY <2>0, <2>5, <2>7, <3>1
    <2> QED BY <2>6, <2>8
  <1> DEFINE at(k) == CHOOSE i \in kept : rank(i) = k
  <1>6. \A k \in 1 .. Cardinality(kept) : at(k) \in kept
    <2> HIDE DEF kept, rank
    <2> QED BY <1>5
  <1>7. \A k \in 1 .. Cardinality(kept) : w[at(k)] \in S
    <2> HIDE DEF at
    <2> QED BY <1>6, <1>2
  <1>8. OnlyUnordered(w) = [k \in 1 .. Cardinality(kept) |-> w[at(k)]]
    BY DEF OnlyUnordered
  <1> HIDE DEF at, kept, rank
  <1> QED BY <1>3, <1>7, <1>8

(* What reaches the other end is part of what was sent.                    *)
LEMMA CarriedType ==
  ASSUME NEW S, NEW p, NEW q, NEW msgs \in Seq(S)
  PROVE  Carried(p, q, msgs) \in Seq(S)
  <1>1. OnlyUnordered(msgs) \in Seq(S) BY OnlyUnorderedType
  <1> QED BY <1>1 DEF Carried

(* Removing a message leaves a sequence of the others.                     *)
LEMMA RemoveAtType ==
  ASSUME NEW S, NEW w \in Seq(S), NEW i \in 1 .. Len(w)
  PROVE  RemoveAt(w, i) \in Seq(S)
  BY DEF RemoveAt

-----------------------------------------------------------------------------
(* Type correctness                                                        *)

Event == {"UP", "LOST", "CLOSED", "FAILED", "DATA", "DROPPED", "REQUEST", "NONE"}

(* The fields of a slot and of a view.                                     *)
LEMMA Fields ==
  ASSUME TypeOK, NEW p \in Peer, NEW q \in Peer
  PROVE  /\ slot[p][q] \in RemoteSystem /\ slot[p][q].mode \in ConnectMode
         /\ slot[p][q].initiated \in BOOLEAN /\ slot[p][q].connecting \in BOOLEAN
         /\ slot[p][q].awaiting \in BOOLEAN /\ slot[p][q].reported \in BOOLEAN
         /\ slot[p][q].younger \in BOOLEAN
         /\ app[p][q] \in View /\ wire[p][q] \in Seq(OnlineType)
         /\ requested[p][q] \in NoRequest..MaxRequests /\ commands[p] \in Seq(Command)
  <1>1. slot[p][q] \in RemoteSystem BY DEF TypeOK
  <1>2. app[p][q] \in View /\ wire[p][q] \in Seq(OnlineType)
        /\ requested[p][q] \in NoRequest..MaxRequests /\ commands[p] \in Seq(Command)
    BY DEF TypeOK
  <1> QED BY <1>1, <1>2 DEF RemoteSystem

(* The peers start in their types.                                          *)
LEMMA TypeInit == Init => TypeOK
  <1> SUFFICES ASSUME Init PROVE TypeOK OBVIOUS
  <1>1. Inactive \in RemoteSystem BY DEF Inactive, RemoteSystem, ConnectMode
  <1>2. Stranger \in View BY DEF Stranger, View
  <1>3. NoRequest \in NoRequest..MaxRequests BY PeerAssumption DEF NoRequest
  <1>4. budget \in [dial : 0..DialBudget, close : 0..CloseBudget, talk : 0..TalkBudget]
    BY PeerAssumption DEF Init
  <1> QED BY <1>1, <1>2, <1>3, <1>4 DEF Init, TypeOK

(* A report leaves the application with a view.                            *)
LEMMA ReportType ==
  ASSUME TypeOK, NEW p \in Peer, NEW q \in Peer, NEW e \in Event, NEW abandoned \in BOOLEAN,
         Report(p, q, e, abandoned)
  PROVE  /\ app' \in [Peer -> [Peer -> View]]
         /\ misreports' \subseteq ConnectionReport \cup {"DROPPED"}
  <1>1. \A v \in View, a, c \in BOOLEAN : AppAfter(v, e, abandoned, a, c) \in View
    <2> SUFFICES ASSUME NEW v \in View, NEW a \in BOOLEAN, NEW c \in BOOLEAN
                 PROVE  AppAfter(v, e, abandoned, a, c) \in View
      OBVIOUS
    <2>1. v.up \in BOOLEAN /\ v.asked \in BOOLEAN /\ v.held \in BOOLEAN /\ v.closed \in BOOLEAN
      BY DEF View
    <2> QED BY <2>1 DEF AppAfter, View
  <1>2. app[p][q] \in View BY DEF TypeOK
  <1>3. (requested'[p][q] # NoRequest) \in BOOLEAN /\ CloseQueued(commands'[p], q) \in BOOLEAN
    BY DEF CloseQueued
  <1>4. AppAfter(app[p][q], e, abandoned, requested'[p][q] # NoRequest,
                 CloseQueued(commands'[p], q)) \in View
    BY <1>1, <1>2, <1>3
  <1>5. app' \in [Peer -> [Peer -> View]] BY <1>4 DEF Report, TypeOK
  <1>6. IsMisreport(app[p][q], e) => e \in ConnectionReport \cup {"DROPPED"}
    BY DEF IsMisreport, ConnectionReport
  <1> QED BY <1>5, <1>6 DEF Report, TypeOK

(* Closing a slot.                                                         *)
LEMMA CloseSlotType ==
  ASSUME TypeOK, NEW p \in Peer, NEW q \in Peer, CloseSlot(p, q)
  PROVE  /\ slot' \in [Peer -> [Peer -> RemoteSystem]]
         /\ wire' \in [Peer -> [Peer -> Seq(OnlineType)]]
  <1>1. Inactive \in RemoteSystem BY DEF Inactive, RemoteSystem, ConnectMode
  <1>2. PICK w \in {<<>>, wire[p][q]} :
          wire' = [wire EXCEPT ![p][q] = w, ![q][p] = IF Active(q, p) THEN @ ELSE <<>>]
    BY DEF CloseSlot, WireAfterClose
  <1>3. w \in Seq(OnlineType)
    <2>1. <<>> \in Seq(OnlineType) OBVIOUS
    <2>2. wire[p][q] \in Seq(OnlineType) BY DEF TypeOK
    <2> QED BY <2>1, <2>2, <1>2
  <1>4. wire' \in [Peer -> [Peer -> Seq(OnlineType)]]
    <2>1. <<>> \in Seq(OnlineType) OBVIOUS
    <2> HIDE DEF OnlineType
    <2> QED BY <2>1, <1>2, <1>3 DEF TypeOK
  <1> QED BY <1>1, <1>4 DEF CloseSlot, TypeOK

(* Taking a slot.                                                          *)
LEMMA TakeSlotType ==
  ASSUME TypeOK, NEW p \in Peer, NEW q \in Peer, NEW s \in RemoteSystem,
         NEW msgs \in Seq(OnlineType), TakeSlot(p, q, s, msgs)
  PROVE  /\ slot' \in [Peer -> [Peer -> RemoteSystem]]
         /\ wire' \in [Peer -> [Peer -> Seq(OnlineType)]]
  <1> DEFINE younger == Active(q, p) /\
        slot[q][p].mode \notin {"UNVERIFIED_SENDER", "REQUESTED_CONNECTION"}
  <1>1. younger \in BOOLEAN OBVIOUS
  <1>2. slot' = [slot EXCEPT ![p][q] = [s EXCEPT !.younger = younger], ![q][p].younger = FALSE]
    BY DEF TakeSlot
  <1>3. wire' = [wire EXCEPT ![p][q] = IF younger THEN <<>> ELSE msgs,
                             ![q][p] = IF younger THEN OnlyUnordered(@) ELSE @]
    BY DEF TakeSlot
  <1> HIDE DEF younger
  <1>4. [s EXCEPT !.younger = younger] \in RemoteSystem BY <1>1 DEF RemoteSystem
  <1>5. \A r \in RemoteSystem : [r EXCEPT !.younger = FALSE] \in RemoteSystem
    BY DEF RemoteSystem
  <1>6. slot' \in [Peer -> [Peer -> RemoteSystem]] BY ZenonT(60), <1>2, <1>4, <1>5 DEF TypeOK
  <1>7. \A w \in Seq(OnlineType) : OnlyUnordered(w) \in Seq(OnlineType) BY OnlyUnorderedType
  <1>8. wire' \in [Peer -> [Peer -> Seq(OnlineType)]]
    <2> DEFINE first == IF younger THEN <<>> ELSE msgs
    <2>1. <<>> \in Seq(OnlineType) OBVIOUS
    <2>2. first \in Seq(OnlineType) BY <2>1
    <2>3. wire' = [wire EXCEPT ![p][q] = first, ![q][p] = IF younger THEN OnlyUnordered(@) ELSE @]
      BY <1>3
    <2> HIDE DEF first
    <2> QED BY ZenonT(60), <2>2, <2>3, <1>7 DEF TypeOK
  <1> QED BY <1>6, <1>8

(* Processing a message of a slot.                                         *)
LEMMA ProcessType ==
  ASSUME TypeOK, NEW p \in Peer, NEW q \in Peer, NEW m, NEW s \in RemoteSystem,
         NEW msgs \in Seq(OnlineType), Process(p, q, m, s, msgs)
  PROVE  /\ slot' \in [Peer -> [Peer -> RemoteSystem]]
         /\ wire' \in [Peer -> [Peer -> Seq(OnlineType)]]
         /\ UNCHANGED <<requested, banned, offline, commands, drain, budget>>
  <1>1. slot' \in [Peer -> [Peer -> RemoteSystem]] BY DEF Process, TypeOK
  <1>2. PICK i \in DOMAIN wire[q][p] :
          wire' = [wire EXCEPT ![q][p] = RemoveAt(@, i), ![p][q] = @ \o Carried(p, q, msgs)]
    BY DEF Process
  <1>3. wire[q][p] \in Seq(OnlineType) BY DEF TypeOK
  <1>4. RemoveAt(wire[q][p], i) \in Seq(OnlineType) BY <1>2, <1>3, RemoveAtType
  <1>5. Carried(p, q, msgs) \in Seq(OnlineType) BY CarriedType
  <1>6. \A w \in Seq(OnlineType) : w \o Carried(p, q, msgs) \in Seq(OnlineType) BY <1>5
  <1>7. wire' \in [Peer -> [Peer -> Seq(OnlineType)]]
    <2> DEFINE r == RemoveAt(wire[q][p], i)
    <2>1. wire' = [wire EXCEPT ![q][p] = r, ![p][q] = @ \o Carried(p, q, msgs)] BY <1>2
    <2>2. r \in Seq(OnlineType) BY <1>4
    <2> HIDE DEF r
    <2> QED BY ZenonT(60), <2>1, <2>2, <1>6 DEF TypeOK
  <1> QED BY <1>1, <1>7 DEF Process

(* Spending a call of the budget.                                          *)
LEMMA SpendType ==
  ASSUME TypeOK, NEW kind \in {"dial", "close", "talk"}, Spend(kind)
  PROVE  budget' \in [dial : 0..DialBudget, close : 0..CloseBudget, talk : 0..TalkBudget]
  <1>1. budget \in [dial : 0..DialBudget, close : 0..CloseBudget, talk : 0..TalkBudget]
    BY DEF TypeOK
  <1>2. CASE kind = "dial" BY <1>1, <1>2, PeerAssumption DEF Spend
  <1>3. CASE kind = "close" BY <1>1, <1>3, PeerAssumption DEF Spend
  <1>4. CASE kind = "talk" BY <1>1, <1>4, PeerAssumption DEF Spend
  <1> QED BY <1>2, <1>3, <1>4

(* A command at the end of bufferedCommands.                               *)
LEMMA QueueType ==
  ASSUME TypeOK, NEW p \in Peer, NEW q \in Peer,
         NEW c \in {"DISCONNECT", "CLOSE", "ACCEPT", "REJECT", "STATUS"} \cup DataKinds,
         Queue(p, c, q)
  PROVE  commands' \in [Peer -> Seq(Command)]
  <1>1. [do |-> c, to |-> q] \in Command BY DEF Command
  <1>2. commands \in [Peer -> Seq(Command)] BY DEF TypeOK
  <1> HIDE DEF Command
  <1> QED BY <1>1, <1>2 DEF Queue

(* A command taken from the front of it.                                   *)
LEMMA TakeCommandType ==
  ASSUME TypeOK, NEW p \in Peer, TakeCommand(p)
  PROVE  /\ commands' \in [Peer -> Seq(Command)] /\ drain' \in [Peer -> BOOLEAN]
         /\ Head(commands[p]) \in Command /\ Head(commands[p]).to \in Peer
         /\ Head(commands[p]).do \in
              {"DISCONNECT", "CLOSE", "ACCEPT", "REJECT", "STATUS"} \cup DataKinds
  <1>1. commands \in [Peer -> Seq(Command)] /\ drain \in [Peer -> BOOLEAN] BY DEF TypeOK
  <1>2. Head(commands[p]) \in Command /\ Tail(commands[p]) \in Seq(Command)
    BY <1>1 DEF TakeCommand
  <1>3. commands' \in [Peer -> Seq(Command)] BY <1>1, <1>2 DEF TakeCommand
  <1>4. drain' \in [Peer -> BOOLEAN]
    <2>1. (drain[p] /\ Len(commands[p]) > 1) \in BOOLEAN OBVIOUS
    <2> QED BY <1>1, <2>1, Zenon DEF TakeCommand
  <1> QED BY <1>2, <1>3, <1>4 DEF Command

(* A datagram that was handled, and one that was sent.                     *)
LEMMA OfflineType1 ==
  ASSUME TypeOK, NEW p \in Peer, NEW q \in Peer
  PROVE  /\ OfflineTurn(p) => drain' \in [Peer -> BOOLEAN]
         /\ \A t \in OfflineType :
              Answer(t, p, q) => offline' \subseteq [type : OfflineType, from : Peer, to : Peer]
  <1>1. OfflineTurn(p) => drain' \in [Peer -> BOOLEAN]
    <2>1. (commands[p] # <<>>) \in BOOLEAN /\ drain \in [Peer -> BOOLEAN] BY DEF TypeOK
    <2> QED BY <2>1, Zenon DEF OfflineTurn
  <1>2. ASSUME NEW t \in OfflineType, Answer(t, p, q)
        PROVE  offline' \subseteq [type : OfflineType, from : Peer, to : Peer]
    BY <1>2 DEF Answer, Datagram, TypeOK
  <1> QED BY <1>1, <1>2

(* The application's calls keep the types.                                 *)
LEMMA TypeUserStep ==
  ASSUME TypeOK, NEW p \in Peer, NEW q \in Peer, UserStep(p, q) PROVE TypeOK'
  <1>1. CASE Connect(p, q)
    <2>1. 0 \in NoRequest..MaxRequests BY PeerAssumption DEF NoRequest
    <2>2. [Stranger EXCEPT !.asked = TRUE, !.closed = CloseQueued(commands[p], q)] \in View
      <3>1. CloseQueued(commands[p], q) \in BOOLEAN BY DEF CloseQueued
      <3> QED BY <3>1 DEF Stranger, View
    <2>3. budget' \in [dial : 0..DialBudget, close : 0..CloseBudget, talk : 0..TalkBudget]
      BY <1>1, SpendType DEF Connect
    <2> QED BY <1>1, <2>1, <2>2, <2>3 DEF Connect, TypeOK
  <1>2. CASE CancelConnectionAttempt(p, q)
    <2>1. NoRequest \in NoRequest..MaxRequests BY PeerAssumption DEF NoRequest
    <2>2. budget' \in [dial : 0..DialBudget, close : 0..CloseBudget, talk : 0..TalkBudget]
      BY <1>2, SpendType DEF CancelConnectionAttempt
    <2>3. \A v \in View : [v EXCEPT !.asked = FALSE] \in View BY DEF View
    <2> QED BY <1>2, <2>1, <2>2, <2>3 DEF CancelConnectionAttempt, TypeOK
  <1>3. ASSUME NEW notify \in BOOLEAN, CloseConnection(p, q, notify) PROVE TypeOK'
    <2>1. budget' \in [dial : 0..DialBudget, close : 0..CloseBudget, talk : 0..TalkBudget]
      BY <1>3, SpendType DEF CloseConnection
    <2>2. commands' \in [Peer -> Seq(Command)] BY <1>3, QueueType DEF CloseConnection
    <2>3. \A v \in View : [up |-> v.up /\ notify, asked |-> v.asked /\ Pending(p, q),
                           held |-> FALSE, closed |-> TRUE] \in View
      BY DEF View, Pending
    <2> QED BY ZenonT(60), <1>3, <2>1, <2>2, <2>3 DEF CloseConnection, TypeOK
  <1>4. ASSUME NEW accept \in BOOLEAN, AnswerSession(p, q, accept) PROVE TypeOK'
    <2>1. commands' \in [Peer -> Seq(Command)] BY <1>4, QueueType DEF AnswerSession
    <2>2. \A v \in View : [v EXCEPT !.held = FALSE] \in View BY DEF View
    <2> QED BY <1>4, <2>1, <2>2 DEF AnswerSession, TypeOK
  <1>5. CASE SendSessionStatus(p, q)
    <2>1. budget' \in [dial : 0..DialBudget, close : 0..CloseBudget, talk : 0..TalkBudget]
      BY <1>5, SpendType DEF SendSessionStatus
    <2>2. commands' \in [Peer -> Seq(Command)] BY <1>5, QueueType DEF SendSessionStatus
    <2> QED BY <1>5, <2>1, <2>2 DEF SendSessionStatus, TypeOK
  <1>6. ASSUME NEW kind \in DataKinds, Send(p, q, kind) PROVE TypeOK'
    <2>1. budget' \in [dial : 0..DialBudget, close : 0..CloseBudget, talk : 0..TalkBudget]
      BY <1>6, SpendType DEF Send
    <2>2. commands' \in [Peer -> Seq(Command)] BY <1>6, QueueType DEF Send
    <2> QED BY <1>6, <2>1, <2>2 DEF Send, TypeOK
  <1> QED BY <1>1, <1>2, <1>3, <1>4, <1>5, <1>6 DEF UserStep

(* The offline datagrams keep the types.                                   *)
LEMMA TypeOfflineStep ==
  ASSUME TypeOK, NEW p \in Peer, NEW q \in Peer, OfflineStep(p, q) PROVE TypeOK'
  <1>0. NoRequest \in NoRequest..MaxRequests BY PeerAssumption DEF NoRequest
  <1>1. CASE OnOpenConnectionRequest1(p, q)
    BY <1>1, OfflineType1 DEF OnOpenConnectionRequest1, TypeOK, OfflineType
  <1>2. CASE OnOpenConnectionReply1(p, q)
    BY <1>2, OfflineType1 DEF OnOpenConnectionReply1, TypeOK, OfflineType
  <1>3. CASE OnOpenConnectionRequest2(p, q)
    <2>1. drain' \in [Peer -> BOOLEAN] BY <1>3, OfflineType1 DEF OnOpenConnectionRequest2
    <2>2. offline' \subseteq [type : OfflineType, from : Peer, to : Peer]
      <3>1. PICK t \in OfflineType : Answer(t, p, q)
        BY <1>3 DEF OnOpenConnectionRequest2, OfflineType
      <3> QED BY <3>1, OfflineType1
    <2>3. /\ slot' \in [Peer -> [Peer -> RemoteSystem]]
          /\ wire' \in [Peer -> [Peer -> Seq(OnlineType)]]
      <3>1. CASE UNCHANGED <<slot, wire>> BY <3>1 DEF TypeOK
      <3>2. CASE TakeSlot(p, q, Assigned, <<>>)
        <4>1. Assigned \in RemoteSystem BY DEF Assigned, Inactive, RemoteSystem, ConnectMode, Handshaking
        <4>2. <<>> \in Seq(OnlineType) OBVIOUS
        <4> QED BY <3>2, <4>1, <4>2, TakeSlotType
      <3> QED BY <1>3, <3>1, <3>2 DEF OnOpenConnectionRequest2
    <2> QED BY <1>3, <2>1, <2>2, <2>3 DEF OnOpenConnectionRequest2, TypeOK
  <1>4. CASE OnOpenConnectionReply2(p, q)
    <2>1. drain' \in [Peer -> BOOLEAN] BY <1>4, OfflineType1 DEF OnOpenConnectionReply2
    <2>2. requested' \in [Peer -> [Peer -> NoRequest..MaxRequests]]
      BY <1>0, <1>4 DEF OnOpenConnectionReply2, TypeOK
    <2>3. \A s \in RemoteSystem : Requesting(s) \in RemoteSystem
      BY DEF Requesting, RemoteSystem, ConnectMode, Handshaking
    <2>4. <<"CONNECTION_REQUEST">> \in Seq(OnlineType) BY DEF OnlineType
    <2>5. CASE Active(p, q)
      <3>1. slot' = [slot EXCEPT ![p][q] = Requesting(@)] BY <1>4, <2>5 DEF OnOpenConnectionReply2
      <3>2. wire' = [wire EXCEPT ![p][q] = @ \o Carried(p, q, <<"CONNECTION_REQUEST">>)]
        BY <1>4, <2>5 DEF OnOpenConnectionReply2
      <3>3. Silent BY <1>4, <2>5 DEF OnOpenConnectionReply2
      <3>4. Carried(p, q, <<"CONNECTION_REQUEST">>) \in Seq(OnlineType) BY <2>4, CarriedType
      <3>5. slot' \in [Peer -> [Peer -> RemoteSystem]] BY <3>1, <2>3 DEF TypeOK
      <3>6. wire' \in [Peer -> [Peer -> Seq(OnlineType)]]
        <4>1. \A w \in Seq(OnlineType) : w \o Carried(p, q, <<"CONNECTION_REQUEST">>) \in Seq(OnlineType)
          BY <3>4
        <4> QED BY <3>2, <4>1 DEF TypeOK
      <3> QED BY <1>4, <2>1, <2>2, <3>3, <3>5, <3>6 DEF OnOpenConnectionReply2, TypeOK, Silent
    <2>6. CASE ~Active(p, q) /\ HasFreeSlot(p)
      <3>1. TakeSlot(p, q, Requesting(Assigned), <<"CONNECTION_REQUEST">>) /\ Silent
        BY <1>4, <2>6 DEF OnOpenConnectionReply2
      <3>2. Assigned \in RemoteSystem BY DEF Assigned, Inactive, RemoteSystem, ConnectMode, Handshaking
      <3>3. Requesting(Assigned) \in RemoteSystem BY <3>2, <2>3
      <3>4. /\ slot' \in [Peer -> [Peer -> RemoteSystem]]
            /\ wire' \in [Peer -> [Peer -> Seq(OnlineType)]]
        BY <3>1, <3>3, <2>4, TakeSlotType
      <3> QED BY <1>4, <2>1, <2>2, <3>1, <3>4 DEF OnOpenConnectionReply2, TypeOK, Silent
    <2>7. CASE ~Active(p, q) /\ ~HasFreeSlot(p)
      <3>1. Report(p, q, "FAILED", FALSE) /\ UNCHANGED <<slot, wire>>
        BY <1>4, <2>7 DEF OnOpenConnectionReply2
      <3>2. /\ app' \in [Peer -> [Peer -> View]]
            /\ misreports' \subseteq ConnectionReport \cup {"DROPPED"}
        BY <3>1, ReportType DEF Event
      <3> QED BY <1>4, <2>1, <2>2, <3>1, <3>2 DEF OnOpenConnectionReply2, TypeOK
    <2> QED BY <2>5, <2>6, <2>7
  <1>5. CASE OnRefusal(p, q)
    <2>1. drain' \in [Peer -> BOOLEAN] BY <1>5, OfflineType1 DEF OnRefusal
    <2>2. requested' \in [Peer -> [Peer -> NoRequest..MaxRequests]]
      BY <1>0, <1>5 DEF OnRefusal, TypeOK
    <2>3. /\ app' \in [Peer -> [Peer -> View]]
          /\ misreports' \subseteq ConnectionReport \cup {"DROPPED"}
      BY <1>5, ReportType DEF Event, OnRefusal
    <2> QED BY <1>5, <2>1, <2>2, <2>3 DEF OnRefusal, TypeOK
  <1>6. CASE OnBannedDatagram(p, q)
    BY <1>6, OfflineType1 DEF OnBannedDatagram, TypeOK, OfflineType
  <1> QED BY <1>1, <1>2, <1>3, <1>4, <1>5, <1>6 DEF OfflineStep

(* The buffered commands keep the types.                                   *)
LEMMA TypeCommandStep ==
  ASSUME TypeOK, NEW p \in Peer, CommandStep(p) PROVE TypeOK'
  <1> DEFINE c == Head(commands[p])
             q == c.to
             s == slot[p][q]
  <1>1. TakeCommand(p)
    BY DEF CommandStep, RunSend, RunSessionDecision, RunSessionStatus, RunClose
  <1>2. /\ commands' \in [Peer -> Seq(Command)] /\ drain' \in [Peer -> BOOLEAN]
        /\ q \in Peer
        /\ c.do \in {"DISCONNECT", "CLOSE", "ACCEPT", "REJECT", "STATUS"} \cup DataKinds
    BY <1>1, TakeCommandType
  <1>3. \A msgs \in Seq(OnlineType) :
          [wire EXCEPT ![p][q] = @ \o Carried(p, q, msgs)] \in [Peer -> [Peer -> Seq(OnlineType)]]
    <2> SUFFICES ASSUME NEW msgs \in Seq(OnlineType)
                 PROVE  [wire EXCEPT ![p][q] = @ \o Carried(p, q, msgs)]
                          \in [Peer -> [Peer -> Seq(OnlineType)]]
      OBVIOUS
    <2>1. Carried(p, q, msgs) \in Seq(OnlineType) BY CarriedType
    <2>2. \A w \in Seq(OnlineType) : w \o Carried(p, q, msgs) \in Seq(OnlineType) BY <2>1
    <2> QED BY <1>2, <2>2 DEF TypeOK
  <1>4. s \in RemoteSystem BY <1>2, Fields
  <1>5. CASE RunSend(p)
    <2>1. Sending(s, IF c.do = "DISCONNECT" THEN <<"DISCONNECTION">> ELSE <<c.do>>) \in Seq(OnlineType)
      <3>1. c.do = "DISCONNECT" \/ c.do \in OnlineType
        BY <1>5, PeerAssumption DEF RunSend, OnlineType
      <3>2. "DISCONNECTION" \in OnlineType BY DEF OnlineType
      <3> HIDE DEF c, s
      <3>3. \A x \in OnlineType : <<x>> \in Seq(OnlineType) OBVIOUS
      <3>4. <<>> \in Seq(OnlineType) OBVIOUS
      <3> QED BY <3>1, <3>2, <3>3, <3>4 DEF Sending
    <2>2. wire' \in [Peer -> [Peer -> Seq(OnlineType)]]
      <3>1. wire' = [wire EXCEPT ![p][q] = @ \o Carried(p, q,
                Sending(s, IF c.do = "DISCONNECT" THEN <<"DISCONNECTION">> ELSE <<c.do>>))]
        BY <1>5 DEF RunSend
      <3> HIDE DEF q, c, s
      <3> QED BY <2>1, <3>1, <1>3
    <2>3. slot' \in [Peer -> [Peer -> RemoteSystem]]
      <3>1. [s EXCEPT !.mode = "DISCONNECT_ASAP"] \in RemoteSystem
        BY <1>4 DEF RemoteSystem, ConnectMode, Closing
      <3>2. slot' = slot \/ slot' = [slot EXCEPT ![p][q] = [s EXCEPT !.mode = "DISCONNECT_ASAP"]]
        BY <1>5 DEF RunSend
      <3>3. q \in Peer /\ slot \in [Peer -> [Peer -> RemoteSystem]] BY <1>2 DEF TypeOK
      <3> HIDE DEF q, c, s
      <3> QED BY <3>1, <3>2, <3>3
    <2> QED BY <1>5, <1>2, <2>2, <2>3 DEF RunSend, TypeOK
  <1>6. CASE RunSessionDecision(p)
    <2>1. Accepted(s) \in RemoteSystem /\ Rejected(s) \in RemoteSystem
      BY <1>4 DEF Accepted, Rejected, Established, RemoteSystem, ConnectMode, Closing
    <2>2. <<"CONFIG">> \in Seq(OnlineType) /\ <<"REJECTED">> \in Seq(OnlineType) BY DEF OnlineType
    <2>3. CASE ~AwaitsDecision(s)
      BY <1>2, <1>6, <2>3 DEF RunSessionDecision, TypeOK
    <2>4. CASE AwaitsDecision(s) /\ c.do = "ACCEPT" /\ MayAccept(p)
      <3>1. /\ slot' = [slot EXCEPT ![p][q] = Accepted(@)]
            /\ wire' = [wire EXCEPT ![p][q] = @ \o Carried(p, q, <<"CONFIG">>)]
            /\ Report(p, q, "UP", FALSE)
        BY <1>6, <2>4 DEF RunSessionDecision
      <3>2. wire' \in [Peer -> [Peer -> Seq(OnlineType)]] BY <3>1, <2>2, <1>3
      <3>3. slot' \in [Peer -> [Peer -> RemoteSystem]] BY <1>2, <3>1, <2>1 DEF TypeOK
      <3>4. /\ app' \in [Peer -> [Peer -> View]]
            /\ misreports' \subseteq ConnectionReport \cup {"DROPPED"}
        BY <1>2, <3>1, ReportType DEF Event
      <3> QED BY <1>2, <1>6, <3>2, <3>3, <3>4 DEF RunSessionDecision, TypeOK
    <2>5. CASE AwaitsDecision(s) /\ ~(c.do = "ACCEPT" /\ MayAccept(p))
      <3>1. /\ slot' = [slot EXCEPT ![p][q] = Rejected(@)]
            /\ wire' = [wire EXCEPT ![p][q] = @ \o Carried(p, q, <<"REJECTED">>)]
            /\ Silent
        BY <1>6, <2>5 DEF RunSessionDecision
      <3>2. wire' \in [Peer -> [Peer -> Seq(OnlineType)]] BY <3>1, <2>2, <1>3
      <3>3. slot' \in [Peer -> [Peer -> RemoteSystem]] BY <1>2, <3>1, <2>1 DEF TypeOK
      <3> QED BY <1>2, <1>6, <3>1, <3>2, <3>3 DEF RunSessionDecision, TypeOK, Silent
    <2> QED BY <2>3, <2>4, <2>5
  <1>7. CASE RunSessionStatus(p)
    <2> DEFINE told == AwaitsDecision(s) /\ ~s.connecting
    <2>1. wire' = [wire EXCEPT ![p][q] = @ \o
                     (IF told THEN Carried(p, q, <<"STATUS">>) ELSE <<>>)]
      BY <1>7 DEF RunSessionStatus
    <2>2. <<"STATUS">> \in Seq(OnlineType) /\ <<>> \in Seq(OnlineType) BY DEF OnlineType
    <2>3. (IF told THEN Carried(p, q, <<"STATUS">>) ELSE <<>>) \in Seq(OnlineType)
      BY <2>2, CarriedType
    <2>4. wire' \in [Peer -> [Peer -> Seq(OnlineType)]]
      <3> DEFINE more == IF told THEN Carried(p, q, <<"STATUS">>) ELSE <<>>
      <3>1. more \in Seq(OnlineType) /\ wire' = [wire EXCEPT ![p][q] = @ \o more] BY <2>1, <2>3
      <3> HIDE DEF more
      <3>2. \A w \in Seq(OnlineType) : w \o more \in Seq(OnlineType) BY <3>1
      <3> QED BY <1>2, <3>1, <3>2 DEF TypeOK
    <2> QED BY <1>2, <1>7, <2>4 DEF RunSessionStatus, TypeOK
  <1>8. CASE RunClose(p)
    <2>1. /\ slot' \in [Peer -> [Peer -> RemoteSystem]]
          /\ wire' \in [Peer -> [Peer -> Seq(OnlineType)]]
      <3>1. CloseSlot(p, q) \/ UNCHANGED <<slot, wire>> BY <1>8 DEF RunClose
      <3>2. CASE CloseSlot(p, q) BY <1>2, <3>2, CloseSlotType
      <3>3. CASE UNCHANGED <<slot, wire>> BY <3>3 DEF TypeOK
      <3> QED BY <3>1, <3>2, <3>3
    <2>2. app' \in [Peer -> [Peer -> View]]
      <3> DEFINE v == app[p][q]
                 w == IF ~v.closed THEN v ELSE
                      [up |-> FALSE, asked |-> v.asked /\ Pending(p, q), held |-> FALSE,
                       closed |-> CloseQueued(commands'[p], q)]
      <3>1. v \in View BY <1>2, Fields
      <3>2. Pending(p, q) \in BOOLEAN /\ CloseQueued(commands'[p], q) \in BOOLEAN
        BY DEF Pending, CloseQueued
      <3>3. app' = [app EXCEPT ![p][q] = w] BY <1>8 DEF RunClose
      <3>4. w \in View BY <3>1, <3>2 DEF View
      <3>5. q \in Peer /\ app \in [Peer -> [Peer -> View]] BY <1>2 DEF TypeOK
      <3> HIDE DEF w, q
      <3> QED BY <3>3, <3>4, <3>5
    <2> QED BY <1>2, <1>8, <2>1, <2>2 DEF RunClose, TypeOK
  <1> QED BY <1>5, <1>6, <1>7, <1>8 DEF CommandStep

(* The messages of a slot keep the types.                                  *)
LEMMA TypeOnlineStep ==
  ASSUME TypeOK, NEW p \in Peer, NEW q \in Peer, OnlineStep(p, q) PROVE TypeOK'
  <1> DEFINE s == slot[p][q]
  <1>0. s \in RemoteSystem BY Fields
  <1> HIDE DEF s
  <1>a. \A m \in ConnectMode : [s EXCEPT !.mode = m] \in RemoteSystem BY <1>0 DEF RemoteSystem
  <1>b. ASSUME NEW m, NEW t \in RemoteSystem, NEW msgs \in Seq(OnlineType),
               NEW e \in Event, Process(p, q, m, t, msgs), Report(p, q, e, FALSE)
        PROVE  TypeOK'
    <2>1. /\ slot' \in [Peer -> [Peer -> RemoteSystem]]
          /\ wire' \in [Peer -> [Peer -> Seq(OnlineType)]]
          /\ UNCHANGED <<requested, banned, offline, commands, drain, budget>>
      BY <1>b, ProcessType
    <2>2. /\ app' \in [Peer -> [Peer -> View]]
          /\ misreports' \subseteq ConnectionReport \cup {"DROPPED"}
      BY <1>b, ReportType
    <2> QED BY <2>1, <2>2 DEF TypeOK
  <1>c. ASSUME NEW m, NEW t \in RemoteSystem, NEW msgs \in Seq(OnlineType),
               Process(p, q, m, t, msgs), Silent
        PROVE  TypeOK'
    <2>1. /\ slot' \in [Peer -> [Peer -> RemoteSystem]]
          /\ wire' \in [Peer -> [Peer -> Seq(OnlineType)]]
          /\ UNCHANGED <<requested, banned, offline, commands, drain, budget>>
      BY <1>c, ProcessType
    <2> QED BY <1>c, <2>1 DEF TypeOK, Silent
  <1>d. <<>> \in Seq(OnlineType) OBVIOUS
  <1>1. CASE OnConnectionRequest(p, q)
    <2> DEFINE parse == s.mode \in {"UNVERIFIED_SENDER", "REQUESTED_CONNECTION"}
    <2>1. PICK wrong \in BOOLEAN :
            /\ Process(p, q, "CONNECTION_REQUEST",
                 CASE wrong -> [s EXCEPT !.mode = "DISCONNECT_ASAP_SILENTLY"]
                   [] parse /\ ~wrong -> [s EXCEPT !.mode = "HANDLING_CONNECTION_REQUEST"]
                   [] OTHER -> s,
                 Sending(s, IF wrong THEN <<"INVALID_PASSWORD">> ELSE <<"REQUEST_ACCEPTED">>))
            /\ Silent
      BY <1>1 DEF OnConnectionRequest, s
    <2>2. (CASE wrong -> [s EXCEPT !.mode = "DISCONNECT_ASAP_SILENTLY"]
             [] parse /\ ~wrong -> [s EXCEPT !.mode = "HANDLING_CONNECTION_REQUEST"]
             [] OTHER -> s) \in RemoteSystem
      BY <1>0, <1>a DEF ConnectMode, Closing, Handshaking
    <2>3. Sending(s, IF wrong THEN <<"INVALID_PASSWORD">> ELSE <<"REQUEST_ACCEPTED">>)
            \in Seq(OnlineType)
      <3>1. <<"INVALID_PASSWORD">> \in Seq(OnlineType) /\ <<"REQUEST_ACCEPTED">> \in Seq(OnlineType)
        BY DEF OnlineType
      <3> QED BY <1>d, <3>1 DEF Sending
    <2> HIDE DEF parse
    <2> QED BY <1>c, <2>1, <2>2, <2>3
  <1>2. CASE OnNonsense(p, q)
    <2>1. /\ slot' \in [Peer -> [Peer -> RemoteSystem]]
          /\ wire' \in [Peer -> [Peer -> Seq(OnlineType)]]
      BY <1>2, CloseSlotType DEF OnNonsense
    <2> QED BY <1>2, <2>1 DEF OnNonsense, TypeOK
  <1>3. CASE OnNewIncomingConnection(p, q)
    <2>1. [ClearSessionConfig(s) EXCEPT !.mode = "EXCHANGING_SESSION_DATA"] \in RemoteSystem
      BY <1>0 DEF ClearSessionConfig, RemoteSystem, ConnectMode
    <2>2. (IF s.mode = "HANDLING_CONNECTION_REQUEST"
           THEN [ClearSessionConfig(s) EXCEPT !.mode = "EXCHANGING_SESSION_DATA"]
           ELSE s) \in RemoteSystem
      BY <1>0, <2>1
    <2>3. Process(p, q, "NEW_INCOMING",
            IF s.mode = "HANDLING_CONNECTION_REQUEST"
            THEN [ClearSessionConfig(s) EXCEPT !.mode = "EXCHANGING_SESSION_DATA"]
            ELSE s, <<>>) /\ Silent
      BY <1>3 DEF OnNewIncomingConnection, s
    <2> QED BY <1>c, <1>d, <2>2, <2>3
  <1>4. CASE OnConnectionRequestAccepted(p, q)
    <2> DEFINE allow == s.mode \in {"HANDLING_CONNECTION_REQUEST", "REQUESTED_CONNECTION"}
               t == IF allow THEN [ClearSessionConfig(s) EXCEPT
                                    !.mode = "EXCHANGING_SESSION_DATA", !.connecting = TRUE]
                             ELSE s
               msgs == IF allow THEN <<"NEW_INCOMING", "CONFIG_REQUEST">> ELSE <<>>
    <2>1. t \in RemoteSystem BY <1>0 DEF ClearSessionConfig, RemoteSystem, ConnectMode
    <2>2. msgs \in Seq(OnlineType)
      <3>1. <<"NEW_INCOMING", "CONFIG_REQUEST">> \in Seq(OnlineType) BY DEF OnlineType
      <3> QED BY <1>d, <3>1
    <2>3. Process(p, q, "REQUEST_ACCEPTED", t, msgs) /\ Silent
      BY <1>4 DEF OnConnectionRequestAccepted, s
    <2> HIDE DEF t, msgs
    <2> QED BY <1>c, <2>1, <2>2, <2>3
  <1>5. CASE OnDisconnectionNotification(p, q)
    <2>1. [s EXCEPT !.mode = "DISCONNECT_ON_NO_ACK"] \in RemoteSystem
      BY <1>a DEF ConnectMode, Closing
    <2>2. Process(p, q, "DISCONNECTION", [s EXCEPT !.mode = "DISCONNECT_ON_NO_ACK"], <<>>) /\ Silent
      BY <1>5 DEF OnDisconnectionNotification, s
    <2> QED BY <1>c, <1>d, <2>1, <2>2
  <1>6. CASE OnSessionConfigRequest(p, q)
    <2> DEFINE exchange == s.mode = "EXCHANGING_SESSION_DATA" /\ ~s.awaiting
               ask == exchange /\ p \in Interactive
               answer == exchange /\ p \notin Interactive
               t == CASE ask -> [s EXCEPT !.awaiting = TRUE]
                      [] answer -> Established(s) [] OTHER -> s
               msgs == IF answer THEN <<"CONFIG">> ELSE <<>>
               e == CASE ask -> "REQUEST" [] answer -> "UP" [] OTHER -> "NONE"
    <2>1. t \in RemoteSystem BY <1>0 DEF Established, RemoteSystem, ConnectMode
    <2>2. msgs \in Seq(OnlineType)
      <3>1. <<"CONFIG">> \in Seq(OnlineType) BY DEF OnlineType
      <3> QED BY <1>d, <3>1
    <2>3. e \in Event BY DEF Event
    <2>4. Process(p, q, "CONFIG_REQUEST", t, msgs) /\ Report(p, q, e, FALSE)
      BY <1>6 DEF OnSessionConfigRequest, s
    <2> HIDE DEF t, msgs, e
    <2> QED BY <1>b, <2>1, <2>2, <2>3, <2>4
  <1>7. CASE OnSessionConfig(p, q)
    <2> DEFINE t == IF AwaitsAnswer(s) THEN Established(s) ELSE s
               e == IF AwaitsAnswer(s) THEN "UP" ELSE "NONE"
    <2>1. t \in RemoteSystem BY <1>0 DEF Established, RemoteSystem, ConnectMode
    <2>2. e \in Event BY DEF Event
    <2>3. Process(p, q, "CONFIG", t, <<>>) /\ Report(p, q, e, FALSE)
      BY <1>7 DEF OnSessionConfig, s
    <2> HIDE DEF t, e
    <2> QED BY <1>b, <1>d, <2>1, <2>2, <2>3
  <1>8. CASE OnSessionConfigStatus(p, q)
    <2>1. Process(p, q, "STATUS", s, <<>>) /\ Silent BY <1>8 DEF OnSessionConfigStatus, s
    <2> QED BY <1>0, <1>c, <1>d, <2>1
  <1>9. CASE OnSessionConfigRejected(p, q)
    <2> DEFINE t == Silenced(s, AwaitsAnswer(s))
               e == IF AwaitsAnswer(s) THEN "FAILED" ELSE "NONE"
    <2>1. t \in RemoteSystem BY <1>0, <1>a DEF Silenced, ConnectMode, Closing
    <2>2. e \in Event BY DEF Event
    <2>3. Process(p, q, "REJECTED", t, <<>>) /\ Report(p, q, e, FALSE)
      BY <1>9 DEF OnSessionConfigRejected, s
    <2> HIDE DEF t, e
    <2> QED BY <1>b, <1>d, <2>1, <2>2, <2>3
  <1>10. CASE OnInvalidPassword(p, q)
    <2> DEFINE ours == s.mode = "REQUESTED_CONNECTION"
               t == Silenced(s, ours)
               e == IF ours THEN "FAILED" ELSE "NONE"
    <2>1. t \in RemoteSystem BY <1>0, <1>a DEF Silenced, ConnectMode, Closing
    <2>2. e \in Event BY DEF Event
    <2>3. Process(p, q, "INVALID_PASSWORD", t, <<>>) /\ Report(p, q, e, FALSE)
      BY <1>10 DEF OnInvalidPassword, s
    <2> HIDE DEF t, e
    <2> QED BY <1>b, <1>d, <2>1, <2>2, <2>3
  <1>11. CASE OnApplicationData(p, q)
    <2> DEFINE e == IF s.mode = "EXCHANGING_SESSION_DATA" THEN "DROPPED" ELSE "DATA"
    <2>1. e \in Event BY DEF Event
    <2>2. PICK kind \in DataKinds : Process(p, q, kind, s, <<>>)
      BY <1>11 DEF OnApplicationData, s
    <2>3. Report(p, q, e, FALSE) BY <1>11 DEF OnApplicationData, s
    <2> HIDE DEF e
    <2> QED BY <1>0, <1>b, <1>d, <2>1, <2>2, <2>3
  <1> QED BY <1>1, <1>2, <1>3, <1>4, <1>5, <1>6, <1>7, <1>8, <1>9, <1>10, <1>11 DEF OnlineStep

(* The timers and the repeated requests keep the types.                    *)
LEMMA TypeTimerStep ==
  ASSUME TypeOK, NEW p \in Peer, NEW q \in Peer,
         \/ SendOpenConnectionRequest(p, q) \/ ConnectionAttemptFailed(p, q)
         \/ DropConnection(p, q) \/ SessionTimeout(p, q) \/ BanExpires(p, q)
  PROVE  TypeOK'
  <1>1. CASE SendOpenConnectionRequest(p, q)
    <2>1. requested[p][q] + 1 \in NoRequest..MaxRequests
      BY <1>1, PeerAssumption DEF SendOpenConnectionRequest, NoRequest
    <2>2. offline' \subseteq [type : OfflineType, from : Peer, to : Peer]
      BY <1>1, OfflineType1 DEF SendOpenConnectionRequest, OfflineType
    <2> QED BY <1>1, <2>1, <2>2 DEF SendOpenConnectionRequest, TypeOK
  <1>2. CASE ConnectionAttemptFailed(p, q)
    <2>1. NoRequest \in NoRequest..MaxRequests BY PeerAssumption DEF NoRequest
    <2>2. /\ app' \in [Peer -> [Peer -> View]]
          /\ misreports' \subseteq ConnectionReport \cup {"DROPPED"}
      BY <1>2, ReportType DEF ConnectionAttemptFailed, Event
    <2> QED BY <1>2, <2>1, <2>2 DEF ConnectionAttemptFailed, TypeOK
  <1>3. CASE DropConnection(p, q)
    <2>1. CloseReport(slot[p][q]) \in Event BY DEF CloseReport, Event
    <2>2. Abandons(slot[p][q]) \in BOOLEAN BY DEF Abandons
    <2>3. /\ app' \in [Peer -> [Peer -> View]]
          /\ misreports' \subseteq ConnectionReport \cup {"DROPPED"}
      BY <1>3, <2>1, <2>2, ReportType DEF DropConnection
    <2>4. /\ slot' \in [Peer -> [Peer -> RemoteSystem]]
          /\ wire' \in [Peer -> [Peer -> Seq(OnlineType)]]
      BY <1>3, CloseSlotType DEF DropConnection
    <2> QED BY <1>3, <2>3, <2>4 DEF DropConnection, TypeOK
  <1>4. CASE SessionTimeout(p, q)
    <2> DEFINE s == slot[p][q]
               e == IF s.connecting THEN "FAILED" ELSE "NONE"
               a == ~s.connecting /\ Abandons(s)
    <2>1. e \in Event /\ a \in BOOLEAN BY DEF Event
    <2>2. Report(p, q, e, a) BY <1>4 DEF SessionTimeout
    <2> HIDE DEF e, a
    <2>3. /\ app' \in [Peer -> [Peer -> View]]
          /\ misreports' \subseteq ConnectionReport \cup {"DROPPED"}
      BY <2>1, <2>2, ReportType
    <2>4. /\ slot' \in [Peer -> [Peer -> RemoteSystem]]
          /\ wire' \in [Peer -> [Peer -> Seq(OnlineType)]]
      BY <1>4, CloseSlotType DEF SessionTimeout
    <2> QED BY <1>4, <2>3, <2>4 DEF SessionTimeout, TypeOK
  <1>5. CASE BanExpires(p, q) BY <1>5 DEF BanExpires, TypeOK
  <1> QED BY <1>1, <1>2, <1>3, <1>4, <1>5

(* Every step keeps the types.                                              *)
LEMMA TypeNext == TypeOK /\ [Next]_vars => TypeOK'
  <1> SUFFICES ASSUME TypeOK, [Next]_vars PROVE TypeOK' OBVIOUS
  <1>1. CASE UNCHANGED vars BY <1>1 DEF vars, TypeOK
  <1>2. ASSUME NEW p \in Peer, CommandStep(p) PROVE TypeOK' BY <1>2, TypeCommandStep
  <1>3. ASSUME NEW p \in Peer, NEW q \in Peer,
               \/ UserStep(p, q) \/ OfflineStep(p, q) \/ OnlineStep(p, q)
               \/ SendOpenConnectionRequest(p, q) \/ ConnectionAttemptFailed(p, q)
               \/ DropConnection(p, q) \/ SessionTimeout(p, q) \/ BanExpires(p, q)
        PROVE  TypeOK'
    BY <1>3, TypeUserStep, TypeOfflineStep, TypeOnlineStep, TypeTimerStep
  <1> QED BY <1>1, <1>2, <1>3 DEF Next

(* RakPeer's tables keep their types, whoever dials whom.                  *)
THEOREM TypeCorrect == Spec => []TypeOK
  BY TypeInit, TypeNext, PTL DEF Spec

-----------------------------------------------------------------------------
(* Peers of which no two dial each other                                   *)

(* A topology of clients and servers: two applications never dial each     *)
(* other.  Where they do, a slot is given to both attempts at once (the    *)
(* run cross_unanswered) and what follows does not hold.                   *)
NoCrossDials == \A p, q \in Peer : <<p, q>> \in Dials => <<q, p>> \notin Dials

(* Only the side that dials asks for a connection and a session, only the  *)
(* other accepts.                                                          *)
DialerSays == {"CONNECTION_REQUEST", "NEW_INCOMING", "CONFIG_REQUEST"}
Speech(p, q) ==
  {m \in OnlineType : /\ m \in DialerSays => <<p, q>> \in Dials
                      /\ m = "REQUEST_ACCEPTED" => <<q, p>> \in Dials}

DecisionQueued(queue, q) ==
  \E c \in ToSet(queue) : c.do \in {"ACCEPT", "REJECT"} /\ c.to = q

(* A slot s of p for q while p's attempt is pending or not.                *)
Opened == {"CONNECTED", "DISCONNECT_ASAP", "DISCONNECT_ON_NO_ACK"}
SlotSound(p, q, s, pending) ==
  /\ <<p, q>> \notin Dials => /\ ~pending /\ ~s.initiated /\ ~s.connecting
                              /\ s.mode # "REQUESTED_CONNECTION"
  /\ <<q, p>> \notin Dials =>
       /\ s.mode \notin {"UNVERIFIED_SENDER", "HANDLING_CONNECTION_REQUEST"}
       /\ s.mode # "INACTIVE" => s.initiated
       /\ ~s.awaiting
  /\ pending => s.mode = "INACTIVE"
  /\ s.mode = "INACTIVE" => ~s.initiated
  /\ s.reported => s.mode \in Opened
  /\ s.awaiting => s.mode \notin Handshaking \cup {"INACTIVE"}

(* What the application knows of it.  A decision that is still queued is   *)
(* about the session in hand: a slot taken meanwhile waits until the queue *)
(* is drained.                                                             *)
ViewSound(p, q, s, pending, view, leaving, deciding, draining) ==
  /\ view.up => s.reported
  /\ view.held => s.awaiting
  /\ leaving => view.closed
  /\ deciding => /\ <<q, p>> \in Dials /\ ~view.held
                 /\ s.mode = "EXCHANGING_SESSION_DATA" => s.awaiting
                 /\ s.mode \in {"UNVERIFIED_SENDER", "HANDLING_CONNECTION_REQUEST"} => draining
  /\ pending => view.asked
  /\ s.reported => view.up \/ view.closed
  /\ s.initiated /\ ~s.reported /\ s.mode # "DISCONNECT_ASAP_SILENTLY"
       => view.asked \/ view.closed

PairSound(p, q) ==
  /\ SlotSound(p, q, slot[p][q], Pending(p, q))
  /\ ViewSound(p, q, slot[p][q], Pending(p, q), app[p][q], CloseQueued(commands[p], q),
               DecisionQueued(commands[p], q), drain[p])
SpeechSound == \A p, q \in Peer : wire[p][q] \in Seq(Speech(p, q))
RequestsSound ==
  \A d \in offline : d.type = "REQUEST_2" => <<d.from, d.to>> \in Dials

Sound ==
  /\ TypeOK /\ SpeechSound /\ RequestsSound
  /\ \A p, q \in Peer : PairSound(p, q)
  /\ ReportsMakeSense

(* What p has under way to q.  A side that said goodbye, or dismissed the  *)
(* other (a rejected session, a wrong password), says no more on that      *)
(* slot, and the reliability layer of a younger slot is not heard: so one  *)
(* that was dismissed, and told its application so, gets no goodbye after. *)
Dismissal == {"REJECTED", "INVALID_PASSWORD"}
Dismissed(s) == s.initiated /\ s.mode = "DISCONNECT_ASAP_SILENTLY"
PartingSound(said, s, t) ==
  /\ s.younger => said = {}
  /\ said \cap (Dismissal \cup {"DISCONNECTION"}) # {} => ~MaySend(s)
  /\ "DISCONNECTION" \in said => said \cap Dismissal = {}
  /\ Dismissed(t) => "DISCONNECTION" \notin said /\ (~MaySend(s) \/ s.younger)
Parting ==
  \A p, q \in Peer : p # q => PartingSound(ToSet(wire[p][q]), slot[p][q], slot[q][p])

(* Effects of the steps' parts on one pair and on all others.              *)
SameSlot(t, s) ==
  /\ t.mode = s.mode /\ t.initiated = s.initiated /\ t.connecting = s.connecting
  /\ t.awaiting = s.awaiting /\ t.reported = s.reported
Elsewhere(p, q) == {d \in Peer \X Peer : d # <<p, q>>}
RequestFrame(p, q) == \A d \in Elsewhere(p, q) : requested'[d[1]][d[2]] = requested[d[1]][d[2]]
SlotFrame(p, q) == \A d \in Elsewhere(p, q) : SameSlot(slot'[d[1]][d[2]], slot[d[1]][d[2]])
AppFrame(p, q) == \A d \in Elsewhere(p, q) : app'[d[1]][d[2]] = app[d[1]][d[2]]
QueueFrame(p, q) ==
  \A a, b \in Peer :
    /\ CloseQueued(commands'[a], b) => CloseQueued(commands[a], b) \/ <<a, b>> = <<p, q>>
    /\ DecisionQueued(commands'[a], b) => DecisionQueued(commands[a], b) \/ <<a, b>> = <<p, q>>
    /\ DecisionQueued(commands'[a], b) /\ drain[a] => drain'[a]

(* A step that changes one pair only, and leaves that one sound.           *)
LEMMA OnePair ==
  ASSUME Sound, NEW p \in Peer, NEW q \in Peer, PairSound(p, q)',
         RequestFrame(p, q), SlotFrame(p, q), AppFrame(p, q), QueueFrame(p, q)
  PROVE  (\A a, b \in Peer : PairSound(a, b))'
  <1> SUFFICES ASSUME NEW a \in Peer, NEW b \in Peer, <<a, b>> # <<p, q>>
               PROVE  PairSound(a, b)'
    OBVIOUS
  <1>1. <<a, b>> \in Elsewhere(p, q) BY DEF Elsewhere
  <1>2. /\ requested'[a][b] = requested[a][b] /\ app'[a][b] = app[a][b]
        /\ SameSlot(slot'[a][b], slot[a][b])
    <2>1. <<a, b>>[1] = a /\ <<a, b>>[2] = b OBVIOUS
    <2> QED BY <1>1, <2>1, Zenon DEF RequestFrame, SlotFrame, AppFrame
  <1>3. /\ CloseQueued(commands'[a], b) => CloseQueued(commands[a], b)
        /\ DecisionQueued(commands'[a], b) => DecisionQueued(commands[a], b)
        /\ DecisionQueued(commands'[a], b) /\ drain[a] => drain'[a]
    BY DEF QueueFrame
  <1>4. PairSound(a, b) BY DEF Sound
  <1>5. SlotSound(a, b, slot'[a][b], requested'[a][b] # NoRequest)
    BY <1>2, <1>4 DEF PairSound, SlotSound, SameSlot, Pending
  <1>6. ViewSound(a, b, slot'[a][b], requested'[a][b] # NoRequest, app'[a][b],
                  CloseQueued(commands'[a], b), DecisionQueued(commands'[a], b), drain'[a])
    BY <1>2, <1>3, <1>4, Zenon DEF PairSound, ViewSound, SameSlot, Pending
  <1> QED BY <1>5, <1>6, Zenon DEF PairSound, Pending

(* A call puts its own kind of command on the caller's queue, and no other. *)
LEMMA QueueEffect ==
  ASSUME TypeOK, NEW p \in Peer, NEW q \in Peer, NEW c, Queue(p, c, q), UNCHANGED drain
  PROVE  /\ QueueFrame(p, q)
         /\ CloseQueued(commands'[p], q) =>
              CloseQueued(commands[p], q) \/ c \in {"DISCONNECT", "CLOSE"}
         /\ DecisionQueued(commands'[p], q) =>
              DecisionQueued(commands[p], q) \/ c \in {"ACCEPT", "REJECT"}
  <1> DEFINE x == [do |-> c, to |-> q]
  <1>1. commands \in [Peer -> Seq(Command)] BY DEF TypeOK
  <1>2. \A a \in Peer : commands'[a] = IF a = p THEN Append(commands[p], x) ELSE commands[a]
    BY <1>1 DEF Queue
  <1>3. ToSet(Append(commands[p], x)) \subseteq ToSet(commands[p]) \cup {x}
    <2>1. commands[p] \in Seq(Command) BY <1>1
    <2> HIDE DEF x
    <2> QED BY <2>1 DEF ToSet
  <1>4. \A a \in Peer : ToSet(commands'[a]) \subseteq ToSet(commands[a]) \cup (IF a = p THEN {x} ELSE {})
    BY <1>2, <1>3
  <1>5. x.do = c /\ x.to = q OBVIOUS
  <1> HIDE DEF x
  <1> QED BY <1>4, <1>5 DEF QueueFrame, CloseQueued, DecisionQueued

(* The network thread takes the oldest command, which was queued.           *)
LEMMA TakeEffect ==
  ASSUME TypeOK, NEW p \in Peer, TakeCommand(p), NEW q
  PROVE  /\ QueueFrame(p, q)
         /\ \A r : CloseQueued(commands'[p], r) => CloseQueued(commands[p], r)
         /\ \A r : DecisionQueued(commands'[p], r) => DecisionQueued(commands[p], r)
         /\ LET c == Head(commands[p])
            IN  /\ c.do \in {"DISCONNECT", "CLOSE"} => CloseQueued(commands[p], c.to)
                /\ c.do \in {"ACCEPT", "REJECT"} => DecisionQueued(commands[p], c.to)
  <1>1. commands \in [Peer -> Seq(Command)] /\ drain \in [Peer -> BOOLEAN] BY DEF TypeOK
  <1>2. commands[p] \in Seq(Command) /\ commands[p] # <<>> BY <1>1 DEF TakeCommand
  <1>3. /\ ToSet(Tail(commands[p])) \subseteq ToSet(commands[p])
        /\ Head(commands[p]) \in ToSet(commands[p])
    BY <1>2 DEF ToSet
  <1>4. \A a \in Peer : commands'[a] = IF a = p THEN Tail(commands[p]) ELSE commands[a]
    BY <1>1 DEF TakeCommand
  <1>5. \A a \in Peer : ToSet(commands'[a]) \subseteq ToSet(commands[a]) BY <1>3, <1>4
  <1>6. ToSet(Tail(commands[p])) # {} => Len(commands[p]) > 1 BY <1>2 DEF ToSet
  <1>7. \A a \in Peer : ToSet(commands'[a]) # {} /\ drain[a] => drain'[a]
    <2> SUFFICES ASSUME NEW a \in Peer, ToSet(commands'[a]) # {}, drain[a] PROVE drain'[a]
      OBVIOUS
    <2>1. CASE a = p BY <1>1, <1>4, <1>6, <2>1, Zenon DEF TakeCommand
    <2>2. CASE a # p BY <1>1, <2>2, Zenon DEF TakeCommand
    <2> QED BY <2>1, <2>2
  <1>8. QueueFrame(p, q) BY <1>5, <1>7, Zenon DEF QueueFrame, CloseQueued, DecisionQueued
  <1>9. /\ \A r : CloseQueued(commands'[p], r) => CloseQueued(commands[p], r)
        /\ \A r : DecisionQueued(commands'[p], r) => DecisionQueued(commands[p], r)
    BY <1>5 DEF CloseQueued, DecisionQueued
  <1> QED BY <1>3, <1>8, <1>9 DEF CloseQueued, DecisionQueued

(* A turn of the network thread that finds decisions queued drains them.    *)
LEMMA OfflineTurnEffect ==
  ASSUME TypeOK, NEW p \in Peer, OfflineTurn(p), UNCHANGED commands, NEW q
  PROVE  QueueFrame(p, q) /\ \A r : DecisionQueued(commands[p], r) => drain'[p]
  <1>1. commands[p] \in Seq(Command) /\ drain \in [Peer -> BOOLEAN] BY DEF TypeOK
  <1>2. commands[p] = <<>> => ToSet(commands[p]) = {} BY DEF ToSet
  <1>3. drain'[p] = (commands[p] # <<>>) /\ \A a \in Peer : a # p => drain'[a] = drain[a]
    BY <1>1, Zenon DEF OfflineTurn
  <1>4. \A r : DecisionQueued(commands[p], r) => drain'[p] BY <1>2, <1>3, Zenon DEF DecisionQueued
  <1> QED BY <1>3, <1>4, Zenon DEF QueueFrame

(* A step that leaves the commands alone.                                   *)
LEMMA QuietQueue ==
  ASSUME UNCHANGED <<commands, drain>>, NEW p, NEW q PROVE QueueFrame(p, q)
  BY DEF QueueFrame

(* The view after a report, field by field.                                *)
LEMMA AfterFields ==
  ASSUME NEW v \in View, NEW e \in Event, NEW abandoned \in BOOLEAN,
         NEW asking \in BOOLEAN, NEW closing \in BOOLEAN
  PROVE  LET w == AppAfter(v, e, abandoned, asking, closing)
         IN  /\ w.up <=> e = "UP" \/ (e \notin {"LOST", "CLOSED"} /\ v.up)
             /\ w.asked <=> v.asked /\ (e \in ConnectionReport => asking)
             /\ w.held <=> e = "REQUEST" \/ (v.held /\ ~abandoned)
             /\ w.closed <=> v.closed /\ (e \in {"NONE", "DATA", "DROPPED"} \/ closing)
  <1>1. v.up \in BOOLEAN /\ v.asked \in BOOLEAN /\ v.held \in BOOLEAN /\ v.closed \in BOOLEAN
    BY DEF View
  <1> DEFINE w == AppAfter(v, e, abandoned, asking, closing)
  <1>2. w.up <=> e = "UP" \/ (e \notin {"LOST", "CLOSED"} /\ v.up)
    BY <1>1 DEF AppAfter
  <1>3. w.asked <=> v.asked /\ (e \in ConnectionReport => asking)
    BY <1>1 DEF AppAfter, ConnectionReport
  <1>4. w.held <=> e = "REQUEST" \/ (v.held /\ ~abandoned) BY <1>1 DEF AppAfter
  <1>5. w.closed <=> v.closed /\ (e \in {"NONE", "DATA", "DROPPED"} \/ closing)
    BY <1>1 DEF AppAfter
  <1> QED BY <1>2, <1>3, <1>4, <1>5

(* What a report does to the views.                                        *)
LEMMA ReportEffect ==
  ASSUME TypeOK, NEW p \in Peer, NEW q \in Peer, NEW e \in Event, NEW abandoned \in BOOLEAN,
         Report(p, q, e, abandoned)
  PROVE  /\ AppFrame(p, q)
         /\ LET v == app[p][q]
                w == app'[p][q]
            IN  /\ w.up <=> e = "UP" \/ (e \notin {"LOST", "CLOSED"} /\ v.up)
                /\ w.asked <=> v.asked /\ (e \in ConnectionReport => requested'[p][q] # NoRequest)
                /\ w.held <=> e = "REQUEST" \/ (v.held /\ ~abandoned)
                /\ w.closed <=> v.closed /\ (e \in {"NONE", "DATA", "DROPPED"} \/
                                            CloseQueued(commands'[p], q))
  <1> DEFINE asking == requested'[p][q] # NoRequest
             closing == CloseQueued(commands'[p], q)
             before == app[p][q]
             after == AppAfter(before, e, abandoned, asking, closing)
  <1>1. app' = [app EXCEPT ![p][q] = after] BY DEF Report
  <1>2. app \in [Peer -> [Peer -> View]] /\ before \in View BY DEF TypeOK
  <1>3. asking \in BOOLEAN /\ closing \in BOOLEAN BY DEF CloseQueued
  <1>4. AppFrame(p, q) /\ app'[p][q] = after
    <2> HIDE DEF after
    <2> QED BY <1>1, <1>2 DEF AppFrame, Elsewhere
  <1> HIDE DEF asking, closing, before
  <1>5. LET w == after
        IN  /\ w.up <=> e = "UP" \/ (e \notin {"LOST", "CLOSED"} /\ before.up)
            /\ w.asked <=> before.asked /\ (e \in ConnectionReport => asking)
            /\ w.held <=> e = "REQUEST" \/ (before.held /\ ~abandoned)
            /\ w.closed <=> before.closed /\ (e \in {"NONE", "DATA", "DROPPED"} \/ closing)
    BY <1>2, <1>3, AfterFields
  <1> HIDE DEF after
  <1>6. LET w == app'[p][q]
        IN  /\ w.up <=> e = "UP" \/ (e \notin {"LOST", "CLOSED"} /\ before.up)
            /\ w.asked <=> before.asked /\ (e \in ConnectionReport => asking)
            /\ w.held <=> e = "REQUEST" \/ (before.held /\ ~abandoned)
            /\ w.closed <=> before.closed /\ (e \in {"NONE", "DATA", "DROPPED"} \/ closing)
    BY <1>4, <1>5
  <1> QED BY <1>4, <1>6 DEF asking, closing, before

(* An assignment to one slot, at the other slots.                           *)
LEMMA SetEffect ==
  ASSUME TypeOK, NEW p \in Peer, NEW q \in Peer, NEW s, slot' = [slot EXCEPT ![p][q] = s]
  PROVE  SlotFrame(p, q) /\ slot'[p][q] = s
  <1>1. slot \in [Peer -> [Peer -> RemoteSystem]] BY DEF TypeOK
  <1>2. slot'[p][q] = s BY <1>1
  <1>3. \A a, b \in Peer : <<a, b>> # <<p, q>> => slot'[a][b] = slot[a][b] BY <1>1
  <1>4. SlotFrame(p, q) BY <1>3 DEF SlotFrame, Elsewhere, SameSlot
  <1> QED BY <1>2, <1>4

(* A closed slot is inactive, and the other slots stay.                     *)
LEMMA CloseEffect ==
  ASSUME TypeOK, NEW p \in Peer, NEW q \in Peer, CloseSlot(p, q)
  PROVE  SlotFrame(p, q) /\ slot'[p][q] = Inactive
  <1>1. slot' = [slot EXCEPT ![p][q] = Inactive] BY DEF CloseSlot
  <1> QED BY <1>1, SetEffect

(* A slot that is taken has the given fields, and the other slots stay.     *)
LEMMA TakeSlotEffect ==
  ASSUME TypeOK, NEW p \in Peer, NEW q \in Peer, p # q, NEW s \in RemoteSystem, NEW msgs,
         TakeSlot(p, q, s, msgs)
  PROVE  SlotFrame(p, q) /\ SameSlot(slot'[p][q], s)
  <1> DEFINE younger == Active(q, p) /\
        slot[q][p].mode \notin {"UNVERIFIED_SENDER", "REQUESTED_CONNECTION"}
             t == [s EXCEPT !.younger = younger]
  <1>1. slot' = [slot EXCEPT ![p][q] = t, ![q][p].younger = FALSE] BY DEF TakeSlot
  <1>2. SameSlot(t, s) BY DEF SameSlot, RemoteSystem
  <1> HIDE DEF t
  <1>3. slot \in [Peer -> [Peer -> RemoteSystem]] BY DEF TypeOK
  <1>4. slot'[p][q] = t BY <1>1, <1>3
  <1>5. \A a, b \in Peer : <<a, b>> # <<p, q>> =>
          slot'[a][b] = IF a = q /\ b = p THEN [slot[a][b] EXCEPT !.younger = FALSE] ELSE slot[a][b]
    BY <1>1, <1>3
  <1>6. \A r \in RemoteSystem : SameSlot([r EXCEPT !.younger = FALSE], r) /\ SameSlot(r, r)
    BY DEF SameSlot, RemoteSystem
  <1>7. \A a, b \in Peer : <<a, b>> # <<p, q>> => SameSlot(slot'[a][b], slot[a][b])
    BY <1>3, <1>5, <1>6
  <1>8. SlotFrame(p, q) BY <1>7 DEF SlotFrame, Elsewhere
  <1> QED BY <1>2, <1>4, <1>8

(* What is said of a pair may be heard, lost or passed over, and more said.*)
LEMMA SpeechOnAppend ==
  ASSUME Sound, NEW p \in Peer, NEW q \in Peer, NEW msgs \in Seq(Speech(p, q)),
         wire' = [wire EXCEPT ![p][q] = @ \o Carried(p, q, msgs)]
  PROVE  SpeechSound'
  <1> DEFINE more == Carried(p, q, msgs)
  <1>1. more \in Seq(Speech(p, q)) BY CarriedType
  <1> HIDE DEF more
  <1>2. wire' = [wire EXCEPT ![p][q] = @ \o more] BY DEF more
  <1>3. wire \in [Peer -> [Peer -> Seq(OnlineType)]] BY DEF Sound, TypeOK
  <1> DEFINE all == wire[p][q] \o more
  <1>4. all \in Seq(Speech(p, q)) BY <1>1 DEF Sound, SpeechSound
  <1>a. wire' = [wire EXCEPT ![p][q] = all] BY <1>2
  <1> HIDE DEF all
  <1>5. wire'[p][q] = all BY <1>a, <1>3
  <1>b. \A a, b \in Peer : <<a, b>> # <<p, q>> => wire'[a][b] = wire[a][b] BY <1>a, <1>3
  <1>6. \A a, b \in Peer : wire'[a][b] \in Seq(Speech(a, b))
    BY <1>4, <1>5, <1>b DEF Sound, SpeechSound
  <1> QED BY <1>6 DEF SpeechSound, Speech

(* Processing a message puts only fitting answers on the wire.              *)
LEMMA SpeechOnProcess ==
  ASSUME Sound, NEW p \in Peer, NEW q \in Peer, p # q, NEW m, NEW s,
         NEW msgs \in Seq(Speech(p, q)), Process(p, q, m, s, msgs)
  PROVE  SpeechSound'
  <1> DEFINE more == Carried(p, q, msgs)
  <1>1. more \in Seq(Speech(p, q)) BY CarriedType
  <1> HIDE DEF more
  <1>2. PICK i \in DOMAIN wire[q][p] :
          wire' = [wire EXCEPT ![q][p] = RemoveAt(@, i), ![p][q] = @ \o more]
    BY DEF Process, more
  <1>3. wire \in [Peer -> [Peer -> Seq(OnlineType)]] BY DEF Sound, TypeOK
  <1>4. wire[q][p] \in Seq(Speech(q, p)) /\ wire[p][q] \in Seq(Speech(p, q))
    BY DEF Sound, SpeechSound
  <1> DEFINE rest == RemoveAt(wire[q][p], i)
  <1>5. rest \in Seq(Speech(q, p)) BY <1>2, <1>4, RemoveAtType
  <1>6. wire' = [wire EXCEPT ![q][p] = rest, ![p][q] = @ \o more] BY <1>2
  <1> HIDE DEF rest
  <1>7. \A a, b \in Peer : wire'[a][b] = CASE a = p /\ b = q -> wire[p][q] \o more
                                           [] a = q /\ b = p -> rest
                                           [] OTHER -> wire[a][b]
    BY <1>3, <1>6
  <1>8. wire[p][q] \o more \in Seq(Speech(p, q)) BY <1>1, <1>4
  <1>9. \A a, b \in Peer : wire'[a][b] \in Seq(Speech(a, b))
    BY <1>5, <1>7, <1>8 DEF Sound, SpeechSound
  <1> QED BY <1>9 DEF SpeechSound, Speech

(* Closing a slot puts nothing on the wire.                                 *)
LEMMA SpeechOnClose ==
  ASSUME Sound, NEW p \in Peer, NEW q \in Peer, CloseSlot(p, q)
  PROVE  SpeechSound'
  <1>1. PICK w \in {<<>>, wire[p][q]} :
          wire' = [wire EXCEPT ![p][q] = w, ![q][p] = IF Active(q, p) THEN @ ELSE <<>>]
    BY DEF CloseSlot, WireAfterClose
  <1>2. \A a, b \in Peer : wire[a][b] \in Seq(Speech(a, b)) /\ <<>> \in Seq(Speech(a, b))
    BY DEF Sound, SpeechSound
  <1>3. wire \in [Peer -> [Peer -> Seq(OnlineType)]] BY DEF Sound, TypeOK
  <1>4. w \in Seq(Speech(p, q)) BY <1>1, <1>2
  <1>5. \A a, b \in Peer : wire'[a][b] \in {w, <<>>, wire[a][b]} /\
                           (wire'[a][b] = w => <<a, b>> = <<p, q>> \/ w \in {<<>>, wire[a][b]})
    BY <1>1, <1>3
  <1>6. \A a, b \in Peer : wire'[a][b] \in Seq(Speech(a, b)) BY <1>2, <1>4, <1>5
  <1> QED BY <1>6 DEF SpeechSound, Speech

(* Taking a slot puts only fitting first messages on the wire.              *)
LEMMA SpeechOnTake ==
  ASSUME Sound, NEW p \in Peer, NEW q \in Peer, p # q, NEW s,
         NEW msgs \in Seq(Speech(p, q)), TakeSlot(p, q, s, msgs)
  PROVE  SpeechSound'
  <1> DEFINE younger == Active(q, p) /\
        slot[q][p].mode \notin {"UNVERIFIED_SENDER", "REQUESTED_CONNECTION"}
             first == IF younger THEN <<>> ELSE msgs
             rest == IF younger THEN OnlyUnordered(wire[q][p]) ELSE wire[q][p]
  <1>1. wire' = [wire EXCEPT ![p][q] = first, ![q][p] = rest]
    <2>1. wire' = [wire EXCEPT ![p][q] = IF younger THEN <<>> ELSE msgs,
                               ![q][p] = IF younger THEN OnlyUnordered(@) ELSE @]
      BY DEF TakeSlot
    <2>2. wire \in [Peer -> [Peer -> Seq(OnlineType)]] BY DEF Sound, TypeOK
    <2> HIDE DEF younger
    <2> QED BY <2>1, <2>2
  <1>2. wire[q][p] \in Seq(Speech(q, p)) /\ <<>> \in Seq(Speech(p, q))
    BY DEF Sound, SpeechSound
  <1>3. rest \in Seq(Speech(q, p)) BY <1>2, OnlyUnorderedType
  <1>4. first \in Seq(Speech(p, q)) BY <1>2
  <1> HIDE DEF first, rest
  <1>5. wire \in [Peer -> [Peer -> Seq(OnlineType)]] BY DEF Sound, TypeOK
  <1>6. \A a, b \in Peer : wire'[a][b] = CASE a = p /\ b = q -> first
                                           [] a = q /\ b = p -> rest
                                           [] OTHER -> wire[a][b]
    BY <1>1, <1>5
  <1>7. \A a, b \in Peer : wire'[a][b] \in Seq(Speech(a, b))
    BY <1>3, <1>4, <1>6 DEF Sound, SpeechSound
  <1> QED BY <1>7 DEF SpeechSound, Speech

(* A step that leaves the wires alone.                                      *)
LEMMA SpeechKept ==
  ASSUME Sound, UNCHANGED wire PROVE SpeechSound'
  BY DEF Sound, SpeechSound, Speech

(* A message that is processed was one the other side may say.             *)
LEMMA Heard ==
  ASSUME Sound, NEW p \in Peer, NEW q \in Peer, NEW m, NEW s, NEW msgs,
         Process(p, q, m, s, msgs)
  PROVE  m \in Speech(q, p)
  <1>1. PICK i \in DOMAIN wire[q][p] : wire[q][p][i] = m BY DEF Process
  <1>2. wire[q][p] \in Seq(Speech(q, p)) BY DEF Sound, SpeechSound
  <1> QED BY <1>1, <1>2

(* The parts of the invariant for a pair, to start a step from.            *)
LEMMA PairFacts ==
  ASSUME Sound, NEW p \in Peer, NEW q \in Peer
  PROVE  /\ TypeOK
         /\ SlotSound(p, q, slot[p][q], Pending(p, q))
         /\ ViewSound(p, q, slot[p][q], Pending(p, q), app[p][q], CloseQueued(commands[p], q),
                      DecisionQueued(commands[p], q), drain[p])
         /\ slot[p][q] \in RemoteSystem /\ app[p][q] \in View
  <1>1. TypeOK /\ PairSound(p, q) BY DEF Sound
  <1>2. slot[p][q] \in RemoteSystem /\ app[p][q] \in View BY <1>1, Fields
  <1> QED BY <1>1, <1>2 DEF PairSound

(* No peer has a slot for itself.                                          *)
LEMMA ActiveDistinct ==
  ASSUME Sound, NEW p \in Peer, NEW q \in Peer, Active(p, q) PROVE p # q
  <1> SUFFICES ASSUME p = q PROVE FALSE OBVIOUS
  <1>1. SlotSound(p, q, slot[p][q], Pending(p, q)) BY PairFacts
  <1>2. <<p, q>> \notin Dials /\ <<q, p>> \notin Dials BY PeerAssumption
  <1> QED BY <1>1, <1>2 DEF SlotSound, Active

(* A step that reports nothing, or nothing wrong.                          *)
LEMMA ReportOK ==
  ASSUME Sound, NEW p, NEW q, NEW e, NEW abandoned, Report(p, q, e, abandoned),
         e \in ConnectionReport => ~IsMisreport(app[p][q], e)
  PROVE  ReportsMakeSense'
  BY DEF Sound, ReportsMakeSense, Report

(* A step that reports nothing misreports nothing.                          *)
LEMMA SilentOK == ASSUME Sound, UNCHANGED misreports PROVE ReportsMakeSense'
  BY DEF Sound, ReportsMakeSense

(* A step that leaves the offline datagrams alone.                          *)
LEMMA RequestsKept == ASSUME Sound, UNCHANGED offline PROVE RequestsSound'
  BY DEF Sound, RequestsSound

(* The invariant after a step of the pair p, q, put together.              *)
LEMMA Assemble ==
  ASSUME Sound, TypeOK', SpeechSound', RequestsSound', ReportsMakeSense',
         NEW p \in Peer, NEW q \in Peer,
         SlotSound(p, q, slot'[p][q], requested'[p][q] # NoRequest),
         ViewSound(p, q, slot'[p][q], requested'[p][q] # NoRequest, app'[p][q],
                   CloseQueued(commands'[p], q), DecisionQueued(commands'[p], q), drain'[p]),
         RequestFrame(p, q), SlotFrame(p, q), AppFrame(p, q), QueueFrame(p, q)
  PROVE  Sound'
  <1>1. PairSound(p, q)' BY Zenon DEF PairSound, Pending
  <1>2. (\A a, b \in Peer : PairSound(a, b))' BY <1>1, OnePair
  <1> QED BY <1>2 DEF Sound

(* What a step leaves alone.                                               *)
LEMMA Frames ==
  ASSUME NEW p, NEW q
  PROVE  /\ UNCHANGED requested => RequestFrame(p, q)
         /\ UNCHANGED slot => SlotFrame(p, q)
         /\ UNCHANGED app => AppFrame(p, q)
  BY DEF RequestFrame, SlotFrame, AppFrame, SameSlot

(* An assignment to one connection request, at the other requests.          *)
LEMMA RequestEffect ==
  ASSUME TypeOK, NEW p \in Peer, NEW q \in Peer, NEW r,
         requested' = [requested EXCEPT ![p][q] = r]
  PROVE  RequestFrame(p, q) /\ requested'[p][q] = r
  <1>1. requested \in [Peer -> [Peer -> NoRequest..MaxRequests]] BY DEF TypeOK
  <1>2. requested'[p][q] = r BY <1>1
  <1>3. \A a, b \in Peer : <<a, b>> # <<p, q>> => requested'[a][b] = requested[a][b] BY <1>1
  <1> QED BY <1>2, <1>3 DEF RequestFrame, Elsewhere

(* An assignment to one view of an application, at the other views.         *)
LEMMA AppEffect ==
  ASSUME TypeOK, NEW p \in Peer, NEW q \in Peer, NEW v, app' = [app EXCEPT ![p][q] = v]
  PROVE  AppFrame(p, q) /\ app'[p][q] = v
  <1>1. app \in [Peer -> [Peer -> View]] BY DEF TypeOK
  <1>2. app'[p][q] = v BY <1>1
  <1>3. \A a, b \in Peer : <<a, b>> # <<p, q>> => app'[a][b] = app[a][b] BY <1>1
  <1> QED BY <1>2, <1>3 DEF AppFrame, Elsewhere

(* The invariant holds before the first call.                               *)
LEMMA SoundInit == Init => Sound
  <1> SUFFICES ASSUME Init PROVE Sound OBVIOUS
  <1>1. TypeOK BY TypeInit
  <1>2. SpeechSound BY DEF Init, SpeechSound
  <1>3. RequestsSound /\ ReportsMakeSense BY DEF Init, RequestsSound, ReportsMakeSense
  <1>4. ASSUME NEW p \in Peer, NEW q \in Peer PROVE PairSound(p, q)
    <2>1. slot[p][q] = Inactive /\ app[p][q] = Stranger /\ ~Pending(p, q) /\ commands[p] = <<>>
      BY DEF Init, Pending
    <2>2. ToSet(commands[p]) = {} BY <2>1 DEF ToSet
    <2>3. ~CloseQueued(commands[p], q) /\ ~DecisionQueued(commands[p], q)
      BY <2>2 DEF CloseQueued, DecisionQueued
    <2>4. SlotSound(p, q, slot[p][q], Pending(p, q))
      BY <2>1 DEF SlotSound, Inactive, Handshaking
    <2>5. ViewSound(p, q, slot[p][q], Pending(p, q), app[p][q], CloseQueued(commands[p], q),
                    DecisionQueued(commands[p], q), drain[p])
      BY <2>1, <2>3 DEF ViewSound, Inactive, Stranger
    <2> QED BY <2>4, <2>5 DEF PairSound
  <1> QED BY <1>1, <1>2, <1>3, <1>4 DEF Sound

(* The application's calls.                                                *)
LEMMA SoundUserStep ==
  ASSUME NoCrossDials, Sound, NEW p \in Peer, NEW q \in Peer, UserStep(p, q) PROVE Sound'
  <1> DEFINE s == slot[p][q]
             v == app[p][q]
             leaving == CloseQueued(commands[p], q)
             deciding == DecisionQueued(commands[p], q)
  <1>0. /\ TypeOK /\ s \in RemoteSystem /\ v \in View
        /\ SlotSound(p, q, s, Pending(p, q))
        /\ ViewSound(p, q, s, Pending(p, q), v, leaving, deciding, drain[p])
    BY PairFacts
  <1>a. TypeOK' BY <1>0, TypeUserStep
  <1>b. <<p, q>> \in Dials => <<q, p>> \notin Dials BY DEF NoCrossDials
  <1>c. UNCHANGED <<slot, offline, wire, drain, misreports>>
    BY DEF UserStep, Connect, CancelConnectionAttempt, CloseConnection, AnswerSession,
           SendSessionStatus, Send
  <1>d. SpeechSound' /\ RequestsSound' /\ ReportsMakeSense' /\ SlotFrame(p, q)
    BY <1>c, SpeechKept, RequestsKept, SilentOK, Frames
  <1>e. slot'[p][q] = s /\ drain'[p] = drain[p] BY <1>c
  <1>1. CASE Connect(p, q)
    <2> DEFINE w == [Stranger EXCEPT !.asked = TRUE, !.closed = CloseQueued(commands[p], q)]
    <2>1. requested' = [requested EXCEPT ![p][q] = 0] /\ app' = [app EXCEPT ![p][q] = w]
          /\ UNCHANGED <<commands, drain>> /\ <<p, q>> \in Dials /\ s.mode = "INACTIVE"
      BY <1>1 DEF Connect, Active
    <2>2. /\ RequestFrame(p, q) /\ requested'[p][q] = 0
          /\ AppFrame(p, q) /\ app'[p][q] = w /\ QueueFrame(p, q)
      <3> HIDE DEF w
      <3>1. RequestFrame(p, q) /\ requested'[p][q] = 0 BY <1>0, <2>1, RequestEffect
      <3>2. AppFrame(p, q) /\ app'[p][q] = w BY <1>0, <2>1, AppEffect
      <3>3. QueueFrame(p, q) BY <2>1, QuietQueue
      <3> QED BY <3>1, <3>2, <3>3
    <2>3. requested'[p][q] # NoRequest BY <2>2 DEF NoRequest
    <2>4. SlotSound(p, q, slot'[p][q], requested'[p][q] # NoRequest)
      BY <1>0, <1>b, <1>e, <2>1, <2>3 DEF SlotSound, Opened
    <2>5. w.up = FALSE /\ w.asked = TRUE /\ w.held = FALSE /\ w.closed = leaving
      BY DEF Stranger
    <2>6. CloseQueued(commands'[p], q) = leaving /\ DecisionQueued(commands'[p], q) = deciding
      BY <2>1
    <2> HIDE DEF w, leaving, deciding
    <2>7. ViewSound(p, q, slot'[p][q], requested'[p][q] # NoRequest, app'[p][q],
                    CloseQueued(commands'[p], q), DecisionQueued(commands'[p], q), drain'[p])
      BY <1>0, <1>b, <1>e, <2>1, <2>2, <2>3, <2>5, <2>6 DEF ViewSound, SlotSound, Opened
    <2> QED BY <1>a, <1>d, <2>2, <2>4, <2>7, Assemble
  <1>2. CASE CancelConnectionAttempt(p, q)
    <2> DEFINE w == [v EXCEPT !.asked = FALSE]
    <2>1. requested' = [requested EXCEPT ![p][q] = NoRequest] /\ app' = [app EXCEPT ![p][q] = w]
          /\ UNCHANGED <<commands, drain>> /\ Pending(p, q)
      <3>1. app' = [app EXCEPT ![p][q].asked = FALSE] BY <1>2 DEF CancelConnectionAttempt
      <3>2. app \in [Peer -> [Peer -> View]] BY <1>0 DEF TypeOK
      <3> QED BY <1>2, <3>1, <3>2 DEF CancelConnectionAttempt
    <2>2. /\ RequestFrame(p, q) /\ requested'[p][q] = NoRequest
          /\ AppFrame(p, q) /\ app'[p][q] = w /\ QueueFrame(p, q)
      <3> HIDE DEF w
      <3> QED BY ZenonT(60), <1>0, <2>1, RequestEffect, AppEffect, QuietQueue
    <2>4. SlotSound(p, q, slot'[p][q], requested'[p][q] # NoRequest)
      BY <1>0, <1>e, <2>2 DEF SlotSound
    <2>5. w.up = v.up /\ w.held = v.held /\ w.closed = v.closed BY <1>0 DEF View
    <2>6. CloseQueued(commands'[p], q) = leaving /\ DecisionQueued(commands'[p], q) = deciding
      BY <2>1
    <2> HIDE DEF w, leaving, deciding
    <2>7. ViewSound(p, q, slot'[p][q], requested'[p][q] # NoRequest, app'[p][q],
                    CloseQueued(commands'[p], q), DecisionQueued(commands'[p], q), drain'[p])
      BY <1>0, <1>e, <2>1, <2>2, <2>5, <2>6 DEF ViewSound, SlotSound
    <2> QED BY <1>a, <1>d, <2>2, <2>4, <2>7, Assemble
  <1>3. ASSUME NEW notify \in BOOLEAN, CloseConnection(p, q, notify) PROVE Sound'
    <2> DEFINE w == [up |-> v.up /\ notify, asked |-> v.asked /\ Pending(p, q),
                     held |-> FALSE, closed |-> TRUE]
               c == IF notify THEN "DISCONNECT" ELSE "CLOSE"
    <2>1. app' = [app EXCEPT ![p][q] = w] /\ Queue(p, c, q) /\ UNCHANGED <<requested, drain>>
      BY <1>3 DEF CloseConnection
    <2>2. /\ RequestFrame(p, q) /\ AppFrame(p, q) /\ app'[p][q] = w
      <3> HIDE DEF w
      <3> QED BY <1>0, <2>1, AppEffect, Frames
    <2>3. QueueFrame(p, q) /\ (DecisionQueued(commands'[p], q) => deciding)
      <3>1. c \notin {"ACCEPT", "REJECT"} OBVIOUS
      <3> HIDE DEF c
      <3> QED BY <1>0, <2>1, <3>1, QueueEffect
    <2>4. SlotSound(p, q, slot'[p][q], requested'[p][q] # NoRequest)
      BY <1>0, <1>e, <2>1 DEF SlotSound, Pending
    <2>5. w.up => v.up BY <1>0 DEF View
    <2>6. w.held = FALSE /\ w.closed = TRUE /\ w.asked = (v.asked /\ Pending(p, q)) OBVIOUS
    <2>8. requested'[p][q] # NoRequest => Pending(p, q) BY <2>1 DEF Pending
    <2> HIDE DEF w, leaving, deciding
    <2>7. ViewSound(p, q, slot'[p][q], requested'[p][q] # NoRequest, app'[p][q],
                    CloseQueued(commands'[p], q), DecisionQueued(commands'[p], q), drain'[p])
      BY <1>0, <1>e, <2>2, <2>3, <2>5, <2>6, <2>8 DEF ViewSound
    <2> QED BY <1>a, <1>d, <2>2, <2>3, <2>4, <2>7, Assemble
  <1>4. ASSUME NEW accept \in BOOLEAN, AnswerSession(p, q, accept) PROVE Sound'
    <2> DEFINE w == [v EXCEPT !.held = FALSE]
               c == IF accept THEN "ACCEPT" ELSE "REJECT"
    <2>1. app' = [app EXCEPT ![p][q] = w] /\ Queue(p, c, q) /\ UNCHANGED <<requested, drain>>
          /\ v.held
      <3>1. app' = [app EXCEPT ![p][q].held = FALSE] BY <1>4 DEF AnswerSession
      <3>2. app \in [Peer -> [Peer -> View]] BY <1>0 DEF TypeOK
      <3> QED BY <1>4, <3>1, <3>2 DEF AnswerSession
    <2>2. /\ RequestFrame(p, q) /\ AppFrame(p, q) /\ app'[p][q] = w
      <3> HIDE DEF w
      <3> QED BY <1>0, <2>1, AppEffect, Frames
    <2>3. QueueFrame(p, q) /\ (CloseQueued(commands'[p], q) => leaving)
      <3>1. c \notin {"DISCONNECT", "CLOSE"} OBVIOUS
      <3> HIDE DEF c
      <3> QED BY <1>0, <2>1, <3>1, QueueEffect
    <2>4. SlotSound(p, q, slot'[p][q], requested'[p][q] # NoRequest)
      BY <1>0, <1>e, <2>1 DEF SlotSound, Pending
    <2>5. w.up = v.up /\ w.asked = v.asked /\ w.held = FALSE /\ w.closed = v.closed
      BY <1>0 DEF View
    <2>6. requested'[p][q] # NoRequest => Pending(p, q) BY <2>1 DEF Pending
    <2> HIDE DEF w, leaving, deciding
    <2>7. ViewSound(p, q, slot'[p][q], requested'[p][q] # NoRequest, app'[p][q],
                    CloseQueued(commands'[p], q), DecisionQueued(commands'[p], q), drain'[p])
      BY <1>0, <1>e, <2>1, <2>2, <2>3, <2>5, <2>6 DEF ViewSound, SlotSound, Handshaking
    <2> QED BY <1>a, <1>d, <2>2, <2>3, <2>4, <2>7, Assemble
  <1>5. ASSUME NEW c, c \notin {"DISCONNECT", "CLOSE", "ACCEPT", "REJECT"}, Queue(p, c, q),
               UNCHANGED <<requested, app, drain>>
        PROVE  Sound'
    <2>1. /\ QueueFrame(p, q) /\ (CloseQueued(commands'[p], q) => leaving)
          /\ (DecisionQueued(commands'[p], q) => deciding)
      BY <1>0, <1>5, QueueEffect
    <2>2. RequestFrame(p, q) /\ AppFrame(p, q) BY <1>5, Frames
    <2>3. SlotSound(p, q, slot'[p][q], requested'[p][q] # NoRequest)
      BY <1>0, <1>e, <1>5 DEF SlotSound, Pending
    <2>4. requested'[p][q] # NoRequest => Pending(p, q) BY <1>5 DEF Pending
    <2>5. app'[p][q] = v BY <1>5
    <2> HIDE DEF leaving, deciding
    <2>6. ViewSound(p, q, slot'[p][q], requested'[p][q] # NoRequest, app'[p][q],
                    CloseQueued(commands'[p], q), DecisionQueued(commands'[p], q), drain'[p])
      BY <1>0, <1>e, <2>1, <2>4, <2>5 DEF ViewSound
    <2> QED BY <1>a, <1>d, <2>1, <2>2, <2>3, <2>6, Assemble
  <1>6. CASE SendSessionStatus(p, q) BY <1>5, <1>6 DEF SendSessionStatus
  <1>7. ASSUME NEW kind \in DataKinds, Send(p, q, kind) PROVE Sound'
    <2>1. kind \notin {"DISCONNECT", "CLOSE", "ACCEPT", "REJECT"} BY PeerAssumption
    <2> QED BY <1>5, <1>7, <2>1 DEF Send
  <1> QED BY <1>1, <1>2, <1>3, <1>4, <1>6, <1>7 DEF UserStep

(* An attempt that fails before there is a slot.                           *)
LEMMA SoundAttemptFails ==
  ASSUME NoCrossDials, Sound, TypeOK', NEW p \in Peer, NEW q \in Peer, Pending(p, q),
         requested' = [requested EXCEPT ![p][q] = NoRequest],
         UNCHANGED <<slot, wire, offline, commands>>, QueueFrame(p, q),
         Report(p, q, "FAILED", FALSE)
  PROVE  Sound'
  <1> DEFINE s == slot[p][q]
             v == app[p][q]
             w == app'[p][q]
             leaving == CloseQueued(commands[p], q)
             deciding == DecisionQueued(commands[p], q)
  <1>1. /\ TypeOK /\ s \in RemoteSystem /\ v \in View
        /\ SlotSound(p, q, s, Pending(p, q))
        /\ ViewSound(p, q, s, Pending(p, q), v, leaving, deciding, drain[p])
    BY PairFacts
  <1>2. RequestFrame(p, q) /\ requested'[p][q] = NoRequest /\ RequestsSound'
    BY <1>1, RequestEffect, RequestsKept
  <1>3. AppFrame(p, q) /\ (w.up => v.up) /\ (w.held => v.held)
        /\ (w.closed <=> v.closed /\ CloseQueued(commands'[p], q))
    BY <1>1, ReportEffect DEF Event
  <1>4. ReportsMakeSense'
    <2>1. ~IsMisreport(v, "FAILED") BY <1>1 DEF IsMisreport, ViewSound
    <2> QED BY <2>1, ReportOK
  <1>5. SlotFrame(p, q) /\ SpeechSound' /\ slot'[p][q] = s BY Frames, SpeechKept
  <1>6. CloseQueued(commands'[p], q) = leaving /\ DecisionQueued(commands'[p], q) = deciding
    OBVIOUS
  <1> HIDE DEF leaving, deciding
  <1>7. s.mode = "INACTIVE" /\ ~deciding /\ s.reported = FALSE /\ s.initiated = FALSE
    <2>1. <<p, q>> \in Dials BY <1>1 DEF SlotSound
    <2>2. <<q, p>> \notin Dials BY <2>1 DEF NoCrossDials
    <2> QED BY <1>1, <2>2 DEF SlotSound, ViewSound, Opened, RemoteSystem
  <1>8. SlotSound(p, q, slot'[p][q], requested'[p][q] # NoRequest)
    BY <1>1, <1>2, <1>5 DEF SlotSound
  <1> HIDE DEF w
  <1>10. ViewSound(p, q, slot'[p][q], requested'[p][q] # NoRequest, w,
                   CloseQueued(commands'[p], q), DecisionQueued(commands'[p], q), drain'[p])
    BY <1>1, <1>2, <1>3, <1>5, <1>6, <1>7 DEF ViewSound
  <1> QED BY <1>2, <1>3, <1>4, <1>5, <1>8, <1>10, Assemble DEF w

(* The offline datagrams.                                                  *)
LEMMA SoundOfflineStep ==
  ASSUME NoCrossDials, Sound, NEW p \in Peer, NEW q \in Peer, OfflineStep(p, q) PROVE Sound'
  <1> DEFINE s == slot[p][q]
             v == app[p][q]
             leaving == CloseQueued(commands[p], q)
             deciding == DecisionQueued(commands[p], q)
  <1>0. /\ TypeOK /\ s \in RemoteSystem /\ v \in View
        /\ SlotSound(p, q, s, Pending(p, q))
        /\ ViewSound(p, q, s, Pending(p, q), v, leaving, deciding, drain[p])
    BY PairFacts
  <1>a. TypeOK' BY <1>0, TypeOfflineStep
  <1>b. <<p, q>> \in Dials => <<q, p>> \notin Dials BY DEF NoCrossDials
  <1>c. OfflineTurn(p) /\ UNCHANGED commands
    BY DEF OfflineStep, OnOpenConnectionRequest1, OnOpenConnectionReply1,
           OnOpenConnectionRequest2, OnOpenConnectionReply2, OnRefusal, OnBannedDatagram
  <1>d. QueueFrame(p, q) /\ (deciding => drain'[p]) BY <1>0, <1>c, OfflineTurnEffect
  <1>e. CloseQueued(commands'[p], q) = leaving /\ DecisionQueued(commands'[p], q) = deciding
    BY <1>c
  <1>f. Pending(p, q) => <<p, q>> \in Dials /\ ~deciding /\ s.mode = "INACTIVE"
    BY <1>0, <1>b DEF SlotSound, ViewSound
  <1> HIDE DEF leaving, deciding
  <1>1. ASSUME RequestsSound', UNCHANGED <<requested, slot, wire, app, misreports>> PROVE Sound'
    <2>1. SpeechSound' /\ ReportsMakeSense' BY <1>1, SpeechKept, SilentOK
    <2>2. RequestFrame(p, q) /\ SlotFrame(p, q) /\ AppFrame(p, q) BY <1>1, Frames
    <2>3. SlotSound(p, q, slot'[p][q], requested'[p][q] # NoRequest)
      BY <1>0, <1>1 DEF SlotSound, Pending
    <2>4. ViewSound(p, q, slot'[p][q], requested'[p][q] # NoRequest, app'[p][q],
                    CloseQueued(commands'[p], q), DecisionQueued(commands'[p], q), drain'[p])
      <3>1. slot'[p][q] = s /\ app'[p][q] = v /\ (requested'[p][q] # NoRequest => Pending(p, q))
        BY <1>1 DEF Pending
      <3> QED BY <1>0, <1>d, <1>e, <3>1 DEF ViewSound
    <2> QED BY <1>1, <1>a, <1>d, <2>1, <2>2, <2>3, <2>4, Assemble
  <1>2. ASSUME NEW t, Answer(t, p, q), t = "REQUEST_2" => <<p, q>> \in Dials PROVE RequestsSound'
    BY <1>2 DEF Sound, RequestsSound, Answer, Datagram
  <1>3. CASE OnOpenConnectionRequest1(p, q) \/ OnOpenConnectionReply1(p, q) \/ OnBannedDatagram(p, q)
    <2>1. RequestsSound'
      BY <1>2, <1>3, <1>f DEF OnOpenConnectionRequest1, OnOpenConnectionReply1, OnBannedDatagram
    <2> QED BY <1>1, <1>3, <2>1
            DEF OnOpenConnectionRequest1, OnOpenConnectionReply1, OnBannedDatagram
  <1>4. CASE OnOpenConnectionRequest2(p, q)
    <2>1. RequestsSound'
      <3>1. PICK t \in {"REPLY_2", "ALREADY_CONNECTED", "NO_FREE_INCOMING"} : Answer(t, p, q)
        BY <1>4 DEF OnOpenConnectionRequest2
      <3> QED BY <1>2, <3>1
    <2>2. CASE UNCHANGED <<slot, wire>> BY <1>1, <1>4, <2>1, <2>2 DEF OnOpenConnectionRequest2
    <2>3. CASE TakeSlot(p, q, Assigned, <<>>) /\ ~Active(p, q)
      <3>1. <<q, p>> \in Dials
        <4>1. Datagram("REQUEST_2", q, p) \in offline BY <1>4 DEF OnOpenConnectionRequest2, Arrives
        <4> QED BY <4>1 DEF Sound, RequestsSound, Datagram
      <3>2. p # q /\ <<p, q>> \notin Dials BY <3>1, PeerAssumption DEF NoCrossDials
      <3>3. Assigned \in RemoteSystem
        BY DEF Assigned, Inactive, RemoteSystem, ConnectMode, Handshaking
      <3>4. SlotFrame(p, q) /\ SameSlot(slot'[p][q], Assigned)
        BY <1>0, <2>3, <3>2, <3>3, TakeSlotEffect
      <3>5. SpeechSound'
        <4>1. <<>> \in Seq(Speech(p, q)) OBVIOUS
        <4> QED BY <2>3, <3>2, <4>1, SpeechOnTake
      <3>6. UNCHANGED <<requested, app, misreports>> BY <1>4 DEF OnOpenConnectionRequest2
      <3>7. RequestFrame(p, q) /\ AppFrame(p, q) /\ ReportsMakeSense' BY <3>6, Frames, SilentOK
      <3> DEFINE t == slot'[p][q]
      <3>8. t.mode = "UNVERIFIED_SENDER" /\ t.initiated = FALSE /\ t.connecting = FALSE
            /\ t.awaiting = FALSE /\ t.reported = FALSE
        BY <3>4 DEF SameSlot, Assigned, Inactive
      <3>9. ~(requested'[p][q] # NoRequest) /\ app'[p][q] = v
        BY <1>0, <3>2, <3>6 DEF SlotSound, Pending
      <3>10. s.awaiting = FALSE /\ s.reported = FALSE
        BY <1>0, <2>3 DEF Active, SlotSound, Opened, RemoteSystem
      <3> HIDE DEF t
      <3>11. SlotSound(p, q, t, requested'[p][q] # NoRequest)
        BY <3>1, <3>2, <3>8, <3>9 DEF SlotSound
      <3>12. ViewSound(p, q, t, requested'[p][q] # NoRequest, app'[p][q],
                       CloseQueued(commands'[p], q), DecisionQueued(commands'[p], q), drain'[p])
        BY <1>0, <1>d, <1>e, <3>1, <3>8, <3>9, <3>10 DEF ViewSound
      <3> QED BY <1>a, <1>d, <2>1, <3>4, <3>5, <3>7, <3>11, <3>12, Assemble DEF t
    <2> QED BY <1>4, <2>2, <2>3 DEF OnOpenConnectionRequest2
  <1>5. CASE OnOpenConnectionReply2(p, q)
    <2>1. Pending(p, q) /\ requested' = [requested EXCEPT ![p][q] = NoRequest] /\ UNCHANGED offline
      BY <1>5 DEF OnOpenConnectionReply2
    <2>2. RequestFrame(p, q) /\ requested'[p][q] = NoRequest /\ RequestsSound'
      BY <1>0, <2>1, RequestEffect, RequestsKept
    <2>3. s.mode = "INACTIVE" /\ ~Active(p, q) /\ <<p, q>> \in Dials /\ ~deciding
          /\ <<q, p>> \notin Dials /\ p # q
      BY <1>b, <1>f, <2>1, PeerAssumption DEF Active
    <2>4. s.awaiting = FALSE /\ s.reported = FALSE /\ s.initiated = FALSE
      BY <1>0, <2>3 DEF SlotSound, Opened, RemoteSystem
    <2>5. CASE HasFreeSlot(p)
      <3>1. TakeSlot(p, q, Requesting(Assigned), <<"CONNECTION_REQUEST">>) /\ Silent
        BY <1>5, <2>3, <2>5 DEF OnOpenConnectionReply2
      <3>2. Requesting(Assigned) \in RemoteSystem
        BY DEF Assigned, Inactive, RemoteSystem, ConnectMode, Handshaking, Requesting
      <3>3. SlotFrame(p, q) /\ SameSlot(slot'[p][q], Requesting(Assigned))
        BY <1>0, <2>3, <3>1, <3>2, TakeSlotEffect
      <3>4. SpeechSound'
        <4>1. <<"CONNECTION_REQUEST">> \in Seq(Speech(p, q))
          BY <2>3 DEF Speech, OnlineType, DialerSays
        <4> QED BY <2>3, <3>1, <4>1, SpeechOnTake
      <3>5. AppFrame(p, q) /\ ReportsMakeSense' /\ app'[p][q] = v BY <3>1, Frames, SilentOK DEF Silent
      <3> DEFINE t == slot'[p][q]
      <3>6. t.mode = "REQUESTED_CONNECTION" /\ t.initiated = TRUE /\ t.connecting = FALSE
            /\ t.awaiting = FALSE /\ t.reported = FALSE
        BY <3>3 DEF SameSlot, Assigned, Inactive, Requesting
      <3> HIDE DEF t
      <3>7. SlotSound(p, q, t, requested'[p][q] # NoRequest)
        BY <2>2, <2>3, <3>6 DEF SlotSound
      <3>8. ViewSound(p, q, t, requested'[p][q] # NoRequest, app'[p][q],
                      CloseQueued(commands'[p], q), DecisionQueued(commands'[p], q), drain'[p])
        BY <1>0, <1>e, <2>1, <2>2, <2>3, <2>4, <3>5, <3>6 DEF ViewSound
      <3> QED BY <1>a, <1>d, <2>2, <3>3, <3>4, <3>5, <3>7, <3>8, Assemble DEF t
    <2>6. CASE ~HasFreeSlot(p)
      <3>1. Report(p, q, "FAILED", FALSE) /\ UNCHANGED <<slot, wire>>
        BY <1>5, <2>3, <2>6 DEF OnOpenConnectionReply2
      <3> QED BY <1>a, <1>c, <1>d, <2>1, <3>1, SoundAttemptFails
    <2> QED BY <2>5, <2>6
  <1>6. CASE OnRefusal(p, q)
    BY <1>6, <1>a, <1>c, <1>d, SoundAttemptFails DEF OnRefusal
  <1> QED BY <1>3, <1>4, <1>5, <1>6 DEF OfflineStep

(* What either side may say at any time.                                   *)
LEMMA FreeSpeech ==
  ASSUME NEW p, NEW q, NEW m \in OnlineType \ (DialerSays \cup {"REQUEST_ACCEPTED"})
  PROVE  <<m>> \in Seq(Speech(p, q))
  BY DEF Speech

(* The buffered commands.                                                  *)
LEMMA SoundCommandStep ==
  ASSUME NoCrossDials, Sound, NEW p \in Peer, CommandStep(p) PROVE Sound'
  <1> DEFINE c == Head(commands[p])
             q == c.to
             s == slot[p][q]
             v == app[p][q]
             leaving == CloseQueued(commands[p], q)
             deciding == DecisionQueued(commands[p], q)
  <1>1. TypeOK BY DEF Sound
  <1>2. TakeCommand(p) /\ UNCHANGED offline
    BY DEF CommandStep, RunSend, RunSessionDecision, RunSessionStatus, RunClose
  <1>3. q \in Peer BY <1>1, <1>2, TakeCommandType
  <1>0. /\ s \in RemoteSystem /\ v \in View
        /\ SlotSound(p, q, s, Pending(p, q))
        /\ ViewSound(p, q, s, Pending(p, q), v, leaving, deciding, drain[p])
    BY <1>3, PairFacts
  <1>a. TypeOK' BY <1>1, TypeCommandStep
  <1>b. <<p, q>> \in Dials => <<q, p>> \notin Dials BY <1>3 DEF NoCrossDials
  <1>c. /\ QueueFrame(p, q)
        /\ CloseQueued(commands'[p], q) => leaving
        /\ DecisionQueued(commands'[p], q) => deciding
        /\ c.do \in {"DISCONNECT", "CLOSE"} => leaving
        /\ c.do \in {"ACCEPT", "REJECT"} => deciding
        /\ DecisionQueued(commands'[p], q) /\ drain[p] => drain'[p]
    BY <1>1, <1>2, <1>3, TakeEffect DEF QueueFrame
  <1>d. RequestsSound' BY <1>2, RequestsKept
  <1>e. c.do \in {"DISCONNECT", "CLOSE", "ACCEPT", "REJECT", "STATUS"} \cup DataKinds
    BY <1>1, <1>2, TakeCommandType
  <1>4. CASE RunSend(p)
    <2> DEFINE msgs == Sending(s, IF c.do = "DISCONNECT" THEN <<"DISCONNECTION">> ELSE <<c.do>>)
    <2>1. /\ wire' = [wire EXCEPT ![p][q] = @ \o Carried(p, q, msgs)]
          /\ c.do \in DataKinds \cup {"DISCONNECT"} /\ UNCHANGED <<requested, app, misreports>>
          /\ slot' = IF c.do = "DISCONNECT" /\ Active(p, q)
                     THEN [slot EXCEPT ![p][q].mode = "DISCONNECT_ASAP"] ELSE slot
      BY <1>4 DEF RunSend
    <2>2. msgs \in Seq(Speech(p, q))
      <3>1. <<"DISCONNECTION">> \in Seq(Speech(p, q)) BY FreeSpeech DEF OnlineType, DialerSays
      <3>2. c.do # "DISCONNECT" => <<c.do>> \in Seq(Speech(p, q))
        <4> SUFFICES ASSUME c.do # "DISCONNECT" PROVE <<c.do>> \in Seq(Speech(p, q)) OBVIOUS
        <4>1. c.do \in {"DATA_ORDERED", "DATA_UNORDERED"} BY <2>1, PeerAssumption
        <4>2. c.do \in OnlineType \ (DialerSays \cup {"REQUEST_ACCEPTED"})
          BY <4>1 DEF OnlineType, DialerSays
        <4> HIDE DEF c
        <4> QED BY <4>2, FreeSpeech
      <3>3. <<>> \in Seq(Speech(p, q)) OBVIOUS
      <3> HIDE DEF c, q, s
      <3> QED BY <3>1, <3>2, <3>3 DEF Sending
    <2> HIDE DEF c, q, s, v, msgs, leaving, deciding
    <2>3. SpeechSound' BY <1>3, <2>1, <2>2, SpeechOnAppend
    <2>4. RequestFrame(p, q) /\ AppFrame(p, q) /\ ReportsMakeSense' BY <2>1, Frames, SilentOK
    <2>5. app'[p][q] = v /\ (requested'[p][q] # NoRequest <=> Pending(p, q))
      BY <2>1 DEF v, Pending
    <2>6. CASE slot' = slot
      <3>1. SlotFrame(p, q) /\ slot'[p][q] = s BY <2>6, Frames DEF s
      <3>2. SlotSound(p, q, slot'[p][q], requested'[p][q] # NoRequest)
        BY <1>0, <2>5, <3>1 DEF SlotSound
      <3>3. ViewSound(p, q, slot'[p][q], requested'[p][q] # NoRequest, app'[p][q],
                      CloseQueued(commands'[p], q), DecisionQueued(commands'[p], q), drain'[p])
        BY <1>0, <1>c, <2>5, <3>1 DEF ViewSound
      <3> QED BY <1>3, <1>a, <1>c, <1>d, <2>3, <2>4, <3>1, <3>2, <3>3, Assemble
    <2>7. CASE c.do = "DISCONNECT" /\ Active(p, q)
               /\ slot' = [slot EXCEPT ![p][q].mode = "DISCONNECT_ASAP"]
      <3> DEFINE t == [s EXCEPT !.mode = "DISCONNECT_ASAP"]
      <3>1. slot' = [slot EXCEPT ![p][q] = t]
        <4>1. slot \in [Peer -> [Peer -> RemoteSystem]] BY <1>1 DEF TypeOK
        <4> QED BY <1>3, <2>7, <4>1 DEF s
      <3>2. SlotFrame(p, q) /\ slot'[p][q] = t
        <4> HIDE DEF t
        <4> QED BY <1>1, <1>3, <3>1, SetEffect
      <3>3. t.mode = "DISCONNECT_ASAP" /\ t.initiated = s.initiated /\ t.connecting = s.connecting
            /\ t.awaiting = s.awaiting /\ t.reported = s.reported
        BY <1>0 DEF RemoteSystem
      <3>4. s.mode # "INACTIVE" /\ leaving BY <1>c, <2>7 DEF Active, s
      <3> HIDE DEF t
      <3>5. SlotSound(p, q, slot'[p][q], requested'[p][q] # NoRequest)
        BY <1>0, <2>5, <3>2, <3>3, <3>4 DEF SlotSound, Opened, Handshaking
      <3>6. ViewSound(p, q, slot'[p][q], requested'[p][q] # NoRequest, app'[p][q],
                      CloseQueued(commands'[p], q), DecisionQueued(commands'[p], q), drain'[p])
        BY <1>0, <1>c, <2>5, <3>2, <3>3, <3>4 DEF ViewSound
      <3> QED BY <1>3, <1>a, <1>c, <1>d, <2>3, <2>4, <3>2, <3>5, <3>6, Assemble
    <2> QED BY <2>1, <2>6, <2>7
  <1>5. CASE RunSessionDecision(p)
    <2>0. UNCHANGED requested /\ c.do \in {"ACCEPT", "REJECT"} BY <1>5 DEF RunSessionDecision
    <2>1. RequestFrame(p, q) /\ (requested'[p][q] # NoRequest <=> Pending(p, q))
      BY <2>0, Frames DEF Pending
    <2>2. deciding /\ <<q, p>> \in Dials /\ <<p, q>> \notin Dials /\ ~v.held /\ ~Pending(p, q)
          /\ s.initiated = FALSE /\ s.connecting = FALSE
      <3>1. deciding BY <1>c, <2>0
      <3> HIDE DEF c, q, s, v, leaving, deciding
      <3> QED BY <1>0, <1>b, <3>1 DEF ViewSound, SlotSound, RemoteSystem
    <2>3. CASE ~AwaitsDecision(s)
      <3>1. UNCHANGED <<slot, wire, app, misreports>> BY <1>5, <2>3 DEF RunSessionDecision
      <3>2. slot'[p][q] = s /\ app'[p][q] = v BY <3>1
      <3> HIDE DEF c, q, s, v, leaving, deciding
      <3>3. SlotFrame(p, q) /\ AppFrame(p, q) /\ ReportsMakeSense' /\ SpeechSound'
        BY <3>1, Frames, SilentOK, SpeechKept
      <3>4. SlotSound(p, q, slot'[p][q], requested'[p][q] # NoRequest)
        BY <1>0, <2>1, <3>2 DEF SlotSound
      <3>5. ViewSound(p, q, slot'[p][q], requested'[p][q] # NoRequest, app'[p][q],
                      CloseQueued(commands'[p], q), DecisionQueued(commands'[p], q), drain'[p])
        BY <1>0, <1>c, <2>1, <3>2 DEF ViewSound
      <3> QED BY <1>3, <1>a, <1>c, <1>d, <2>1, <3>3, <3>4, <3>5, Assemble
    <2>4. CASE AwaitsDecision(s) /\ c.do = "ACCEPT" /\ MayAccept(p)
      <3> DEFINE t == Accepted(s)
                 w == app'[p][q]
      <3>1. /\ slot' = [slot EXCEPT ![p][q] = t]
            /\ wire' = [wire EXCEPT ![p][q] = @ \o Carried(p, q, <<"CONFIG">>)]
            /\ Report(p, q, "UP", FALSE)
        BY <1>5, <2>4 DEF RunSessionDecision
      <3>2. s.mode = "EXCHANGING_SESSION_DATA" BY <2>4 DEF AwaitsDecision
      <3>3. t.mode = "CONNECTED" /\ t.initiated = s.initiated /\ t.connecting = s.connecting
            /\ t.awaiting = FALSE /\ t.reported = TRUE
        BY <1>0 DEF Accepted, Established, RemoteSystem
      <3> HIDE DEF c, q, s, v, t, leaving, deciding
      <3>4. SlotFrame(p, q) /\ slot'[p][q] = t BY <1>1, <1>3, <3>1, SetEffect
      <3>5. AppFrame(p, q) /\ w.up /\ (w.held => v.held) /\ (w.asked => v.asked)
            /\ (w.closed <=> v.closed /\ CloseQueued(commands'[p], q))
        BY <1>1, <1>3, <3>1, ReportEffect DEF v, Event
      <3>6. s.reported = FALSE /\ ~v.up
        BY <1>0, <3>2 DEF SlotSound, ViewSound, Opened, RemoteSystem
      <3>7. ReportsMakeSense'
        <4>1. ~IsMisreport(v, "UP") BY <3>6 DEF IsMisreport
        <4> QED BY <3>1, <4>1, ReportOK DEF v
      <3>8. SpeechSound'
        <4>1. <<"CONFIG">> \in Seq(Speech(p, q)) BY FreeSpeech DEF OnlineType, DialerSays
        <4> QED BY <1>3, <3>1, <4>1, SpeechOnAppend
      <3> HIDE DEF w
      <3>10. SlotSound(p, q, slot'[p][q], requested'[p][q] # NoRequest)
        BY <2>1, <2>2, <3>3, <3>4 DEF SlotSound, Opened
      <3>11. ViewSound(p, q, slot'[p][q], requested'[p][q] # NoRequest, w,
                       CloseQueued(commands'[p], q), DecisionQueued(commands'[p], q), drain'[p])
        BY <1>0, <1>c, <2>1, <2>2, <3>3, <3>4, <3>5 DEF ViewSound
      <3> QED BY <1>3, <1>a, <1>c, <1>d, <2>1, <3>4, <3>5, <3>7, <3>8, <3>10, <3>11, Assemble DEF w
    <2>5. CASE AwaitsDecision(s) /\ ~(c.do = "ACCEPT" /\ MayAccept(p))
      <3> DEFINE t == Rejected(s)
      <3>1. /\ slot' = [slot EXCEPT ![p][q] = t]
            /\ wire' = [wire EXCEPT ![p][q] = @ \o Carried(p, q, <<"REJECTED">>)]
            /\ Silent
        BY <1>5, <2>5 DEF RunSessionDecision
      <3>2. s.mode = "EXCHANGING_SESSION_DATA" /\ app'[p][q] = v
        BY <2>5, <3>1 DEF AwaitsDecision, Silent
      <3>3. t.mode = "DISCONNECT_ON_NO_ACK" /\ t.initiated = s.initiated
            /\ t.connecting = s.connecting /\ t.awaiting = FALSE /\ t.reported = s.reported
        BY <1>0 DEF Rejected, RemoteSystem
      <3> HIDE DEF c, q, s, v, t, leaving, deciding
      <3>4. SlotFrame(p, q) /\ slot'[p][q] = t BY <1>1, <1>3, <3>1, SetEffect
      <3>5. AppFrame(p, q) /\ ReportsMakeSense' BY <3>1, Frames, SilentOK DEF Silent
      <3>6. SpeechSound'
        <4>1. <<"REJECTED">> \in Seq(Speech(p, q)) BY FreeSpeech DEF OnlineType, DialerSays
        <4> QED BY <1>3, <3>1, <4>1, SpeechOnAppend
      <3>7. SlotSound(p, q, slot'[p][q], requested'[p][q] # NoRequest)
        BY <2>1, <2>2, <3>3, <3>4 DEF SlotSound, Opened
      <3>8. ViewSound(p, q, slot'[p][q], requested'[p][q] # NoRequest, app'[p][q],
                      CloseQueued(commands'[p], q), DecisionQueued(commands'[p], q), drain'[p])
        BY <1>0, <1>c, <2>1, <2>2, <3>2, <3>3, <3>4 DEF ViewSound
      <3> QED BY <1>3, <1>a, <1>c, <1>d, <2>1, <3>4, <3>5, <3>6, <3>7, <3>8, Assemble
    <2> QED BY <2>3, <2>4, <2>5
  <1>6. CASE RunSessionStatus(p)
    <2> DEFINE msgs == IF AwaitsDecision(s) /\ ~s.connecting THEN <<"STATUS">> ELSE <<>>
    <2>1. UNCHANGED <<requested, slot, app, misreports>> BY <1>6 DEF RunSessionStatus
    <2>2. wire' = wire \/ wire' = [wire EXCEPT ![p][q] = @ \o Carried(p, q, <<"STATUS">>)]
      <3>1. wire' = [wire EXCEPT ![p][q] = @ \o
              (IF AwaitsDecision(s) /\ ~s.connecting THEN Carried(p, q, <<"STATUS">>) ELSE <<>>)]
        BY <1>6 DEF RunSessionStatus
      <3>2. wire \in [Peer -> [Peer -> Seq(OnlineType)]] BY <1>1 DEF TypeOK
      <3>3. wire[p][q] \in Seq(OnlineType) BY <1>3, <3>2
      <3>4. wire[p][q] \o <<>> = wire[p][q] BY <3>3
      <3> HIDE DEF s, q, c
      <3> QED BY <1>3, <3>1, <3>2, <3>4
    <2>3. slot'[p][q] = s /\ app'[p][q] = v /\ (requested'[p][q] # NoRequest <=> Pending(p, q))
      BY <2>1 DEF Pending
    <2> HIDE DEF c, q, s, v, leaving, deciding
    <2>4. SpeechSound'
      <3>1. <<"STATUS">> \in Seq(Speech(p, q)) BY FreeSpeech DEF OnlineType, DialerSays
      <3> QED BY <1>3, <2>2, <3>1, SpeechOnAppend, SpeechKept
    <2>5. RequestFrame(p, q) /\ SlotFrame(p, q) /\ AppFrame(p, q) /\ ReportsMakeSense'
      BY <2>1, Frames, SilentOK
    <2>6. SlotSound(p, q, slot'[p][q], requested'[p][q] # NoRequest)
      BY <1>0, <2>3 DEF SlotSound
    <2>7. ViewSound(p, q, slot'[p][q], requested'[p][q] # NoRequest, app'[p][q],
                    CloseQueued(commands'[p], q), DecisionQueued(commands'[p], q), drain'[p])
      BY <1>0, <1>c, <2>3 DEF ViewSound
    <2> QED BY <1>3, <1>a, <1>c, <1>d, <2>4, <2>5, <2>6, <2>7, Assemble
  <1>7. CASE RunClose(p)
    <2> DEFINE w == [up |-> FALSE, asked |-> v.asked /\ Pending(p, q), held |-> FALSE,
                     closed |-> CloseQueued(commands'[p], q)]
    <2>1. v.closed
      <3>1. leaving BY <1>7, <1>c DEF RunClose
      <3> QED BY <1>0, <3>1 DEF ViewSound
    <2>2. app' = [app EXCEPT ![p][q] = w] /\ UNCHANGED <<requested, misreports>>
      <3>1. app' = [app EXCEPT ![p][q] = IF ~v.closed THEN v ELSE w] BY <1>7 DEF RunClose
      <3> QED BY <1>7, <2>1, <3>1 DEF RunClose
    <2>3. CloseSlot(p, q) \/ (~Active(p, q) /\ UNCHANGED <<slot, wire>>) BY <1>7 DEF RunClose
    <2>4. requested'[p][q] # NoRequest <=> Pending(p, q) BY <2>2 DEF Pending
    <2>5. w.up = FALSE /\ w.held = FALSE /\ w.asked = (v.asked /\ Pending(p, q))
          /\ w.closed = CloseQueued(commands'[p], q)
      OBVIOUS
    <2>b. ~Active(p, q) => s.mode = "INACTIVE" BY DEF Active
    <2> HIDE DEF c, q, s, v, w, leaving, deciding
    <2>6. AppFrame(p, q) /\ app'[p][q] = w /\ RequestFrame(p, q) /\ ReportsMakeSense'
      BY <1>1, <1>3, <2>2, AppEffect, Frames, SilentOK
    <2>7. SpeechSound' BY <1>3, <2>3, SpeechOnClose, SpeechKept
    <2> DEFINE t == slot'[p][q]
    <2>8. SlotFrame(p, q) BY <1>1, <1>3, <2>3, CloseEffect, Frames
    <2>9. t.mode = "INACTIVE" /\ ~t.initiated /\ ~t.reported /\ ~t.awaiting
          /\ (<<p, q>> \notin Dials => ~t.connecting)
      <3>1. CASE CloseSlot(p, q)
        <4>1. t = Inactive BY <1>1, <1>3, <3>1, CloseEffect
        <4> QED BY <4>1 DEF Inactive
      <3>2. CASE ~Active(p, q) /\ slot' = slot
        <4>1. t = s BY <3>2 DEF s
        <4> QED BY <1>0, <2>b, <3>2, <4>1 DEF SlotSound, Opened, RemoteSystem
      <3> QED BY <2>3, <3>1, <3>2
    <2> HIDE DEF t
    <2>10. SlotSound(p, q, t, requested'[p][q] # NoRequest)
      BY <1>0, <2>4, <2>9 DEF SlotSound
    <2>11. ViewSound(p, q, t, requested'[p][q] # NoRequest, app'[p][q],
                     CloseQueued(commands'[p], q), DecisionQueued(commands'[p], q), drain'[p])
      BY <1>0, <1>c, <2>4, <2>5, <2>6, <2>9 DEF ViewSound
    <2> QED BY <1>3, <1>a, <1>c, <1>d, <2>6, <2>7, <2>8, <2>10, <2>11, Assemble DEF t
  <1> QED BY <1>4, <1>5, <1>6, <1>7 DEF CommandStep

(* A message that is processed changes one slot and one view.              *)
LEMMA SoundProcess ==
  ASSUME NoCrossDials, Sound, TypeOK', NEW p \in Peer, NEW q \in Peer, NEW m, NEW t,
         NEW msgs \in Seq(Speech(p, q)), Process(p, q, m, t, msgs),
         AppFrame(p, q), ReportsMakeSense', SlotSound(p, q, t, FALSE),
         ViewSound(p, q, t, FALSE, app'[p][q], CloseQueued(commands[p], q),
                   DecisionQueued(commands[p], q), FALSE)
  PROVE  Sound'
  <1>1. /\ slot' = [slot EXCEPT ![p][q] = t] /\ Active(p, q) /\ SystemsTurn(p)
        /\ UNCHANGED <<requested, offline, commands, drain>>
    BY DEF Process
  <1>2. TypeOK /\ p # q BY <1>1, ActiveDistinct DEF Sound
  <1>3. SlotFrame(p, q) /\ slot'[p][q] = t BY <1>1, <1>2, SetEffect
  <1>4. SpeechSound' BY <1>2, SpeechOnProcess
  <1>5. RequestFrame(p, q) /\ RequestsSound' /\ QueueFrame(p, q)
    BY <1>1, Frames, RequestsKept, QuietQueue
  <1>6. ~(requested'[p][q] # NoRequest)
    <2>1. SlotSound(p, q, slot[p][q], Pending(p, q)) BY PairFacts
    <2> QED BY <1>1, <2>1 DEF SlotSound, Active, Pending
  <1>7. ~drain'[p] BY <1>1 DEF SystemsTurn
  <1> DEFINE leaving == CloseQueued(commands[p], q)
             deciding == DecisionQueued(commands[p], q)
  <1>8. CloseQueued(commands'[p], q) = leaving /\ DecisionQueued(commands'[p], q) = deciding
    BY <1>1
  <1> HIDE DEF leaving, deciding
  <1>9. SlotSound(p, q, slot'[p][q], requested'[p][q] # NoRequest)
    BY <1>3, <1>6 DEF SlotSound
  <1>10. ViewSound(p, q, slot'[p][q], requested'[p][q] # NoRequest, app'[p][q],
                   CloseQueued(commands'[p], q), DecisionQueued(commands'[p], q), drain'[p])
    <2>1. ViewSound(p, q, t, FALSE, app'[p][q], leaving, deciding, FALSE) BY DEF leaving, deciding
    <2> QED BY <1>3, <1>6, <1>7, <1>8, <2>1 DEF ViewSound
  <1> QED BY <1>3, <1>4, <1>5, <1>9, <1>10, Assemble

(* What holds of a slot when a message of it is processed.                 *)
LEMMA ProcessFacts ==
  ASSUME NoCrossDials, Sound, NEW p \in Peer, NEW q \in Peer, NEW m, NEW t, NEW msgs,
         Process(p, q, m, t, msgs)
  PROVE  /\ m \in Speech(q, p) /\ slot[p][q].mode # "INACTIVE"
         /\ SlotSound(p, q, slot[p][q], FALSE)
         /\ ViewSound(p, q, slot[p][q], FALSE, app[p][q], CloseQueued(commands[p], q),
                      DecisionQueued(commands[p], q), FALSE)
  <1>1. Active(p, q) /\ SystemsTurn(p) BY DEF Process
  <1>2. /\ SlotSound(p, q, slot[p][q], Pending(p, q))
        /\ ViewSound(p, q, slot[p][q], Pending(p, q), app[p][q], CloseQueued(commands[p], q),
                     DecisionQueued(commands[p], q), drain[p])
    BY PairFacts
  <1>3. m \in Speech(q, p) BY Heard
  <1>4. ~Pending(p, q) BY <1>1, <1>2 DEF SlotSound, Active
  <1> DEFINE leaving == CloseQueued(commands[p], q)
             deciding == DecisionQueued(commands[p], q)
  <1> HIDE DEF leaving, deciding
  <1>5. SlotSound(p, q, slot[p][q], FALSE) BY <1>2, <1>4 DEF SlotSound
  <1>6. ViewSound(p, q, slot[p][q], FALSE, app[p][q], leaving, deciding, FALSE)
    <2>1. ViewSound(p, q, slot[p][q], Pending(p, q), app[p][q], leaving, deciding, drain[p])
      BY <1>2 DEF leaving, deciding
    <2> QED BY <1>1, <1>4, <2>1 DEF ViewSound, SystemsTurn
  <1> QED BY <1>1, <1>3, <1>5, <1>6 DEF Active, leaving, deciding

(* The messages of an open slot.                                           *)
LEMMA SoundOnlineStep ==
  ASSUME NoCrossDials, Sound, Parting, NEW p \in Peer, NEW q \in Peer, OnlineStep(p, q)
  PROVE  Sound'
  <1> DEFINE s == slot[p][q]
             v == app[p][q]
             leaving == CloseQueued(commands[p], q)
             deciding == DecisionQueued(commands[p], q)
  <1>0. TypeOK /\ s \in RemoteSystem /\ v \in View BY PairFacts
  <1>a. TypeOK' BY <1>0, TypeOnlineStep
  <1>b. <<p, q>> \in Dials => <<q, p>> \notin Dials BY DEF NoCrossDials
  <1>c. <<>> \in Seq(Speech(p, q)) OBVIOUS
  <1>d. ASSUME NEW m, NEW t, NEW msgs, Process(p, q, m, t, msgs)
        PROVE  /\ s.mode # "INACTIVE" /\ SlotSound(p, q, s, FALSE)
               /\ ViewSound(p, q, s, FALSE, v, leaving, deciding, FALSE)
               /\ m \in DialerSays => <<q, p>> \in Dials /\ <<p, q>> \notin Dials
               /\ m = "REQUEST_ACCEPTED" => <<p, q>> \in Dials /\ <<q, p>> \notin Dials
    <2>1. /\ m \in Speech(q, p) /\ s.mode # "INACTIVE" /\ SlotSound(p, q, s, FALSE)
          /\ ViewSound(p, q, s, FALSE, v, leaving, deciding, FALSE)
      BY <1>d, ProcessFacts
    <2> HIDE DEF s, v, leaving, deciding
    <2> QED BY <1>b, <2>1 DEF Speech
  <1>e. ASSUME Silent PROVE AppFrame(p, q) /\ ReportsMakeSense' /\ app'[p][q] = v
    BY <1>e, Frames, SilentOK DEF Silent
  <1>f. ASSUME NEW m, NEW t, NEW msgs, Process(p, q, m, t, msgs),
               NEW e \in Event, Report(p, q, e, FALSE)
        PROVE  LET w == app'[p][q]
               IN  /\ AppFrame(p, q)
                   /\ w.up <=> e = "UP" \/ (e \notin {"LOST", "CLOSED"} /\ v.up)
                   /\ w.asked <=> v.asked /\ e \notin ConnectionReport
                   /\ w.held <=> e = "REQUEST" \/ v.held
                   /\ w.closed <=> v.closed /\ (e \in {"NONE", "DATA", "DROPPED"} \/ leaving)
    <2>1. UNCHANGED <<requested, commands>> BY <1>f DEF Process
    <2>2. requested'[p][q] = NoRequest
      <3>1. SlotSound(p, q, s, Pending(p, q)) BY PairFacts
      <3> QED BY <1>d, <1>f, <2>1, <3>1 DEF SlotSound, Pending
    <2>3. CloseQueued(commands'[p], q) = leaving BY <2>1
    <2> HIDE DEF v, leaving
    <2> QED BY <1>0, <1>f, <2>2, <2>3, ReportEffect DEF v
  <1>1. CASE OnConnectionRequest(p, q)
    <2> DEFINE parse == s.mode \in {"UNVERIFIED_SENDER", "REQUESTED_CONNECTION"}
               Left(wrong) == CASE wrong -> [s EXCEPT !.mode = "DISCONNECT_ASAP_SILENTLY"]
                                [] parse /\ ~wrong ->
                                     [s EXCEPT !.mode = "HANDLING_CONNECTION_REQUEST"]
                                [] OTHER -> s
               Said(wrong) == Sending(s, IF wrong THEN <<"INVALID_PASSWORD">>
                                                  ELSE <<"REQUEST_ACCEPTED">>)
    <2>1. PICK wrong \in {FALSE} \cup {parse /\ <<q, p>> \in WrongPassword} :
            Process(p, q, "CONNECTION_REQUEST", Left(wrong), Said(wrong)) /\ Silent
      BY <1>1 DEF OnConnectionRequest
    <2> DEFINE t == Left(wrong)
               msgs == Said(wrong)
    <2>2. t = s \/ (parse /\ t.mode \in {"DISCONNECT_ASAP_SILENTLY", "HANDLING_CONNECTION_REQUEST"}
                    /\ t.initiated = s.initiated /\ t.connecting = s.connecting
                    /\ t.awaiting = s.awaiting /\ t.reported = s.reported)
      BY <1>0, <2>1 DEF RemoteSystem
    <2> HIDE DEF Left, Said, t
    <2>3. /\ s.mode # "INACTIVE" /\ SlotSound(p, q, s, FALSE)
          /\ ViewSound(p, q, s, FALSE, v, leaving, deciding, FALSE)
          /\ <<q, p>> \in Dials /\ <<p, q>> \notin Dials
      BY <1>d, <2>1 DEF DialerSays
    <2>4. msgs \in Seq(Speech(p, q))
      <3>1. <<"INVALID_PASSWORD">> \in Seq(Speech(p, q)) BY FreeSpeech DEF OnlineType, DialerSays
      <3>2. <<"REQUEST_ACCEPTED">> \in Seq(Speech(p, q))
        BY <2>3 DEF Speech, OnlineType, DialerSays
      <3> QED BY <1>c, <3>1, <3>2 DEF Sending, Said
    <2> HIDE DEF msgs, s, v, leaving, deciding
    <2>5. SlotSound(p, q, t, FALSE) BY <2>2, <2>3 DEF SlotSound, Opened, Handshaking, s
    <2>6. ViewSound(p, q, t, FALSE, v, leaving, deciding, FALSE)
      BY <2>2, <2>3 DEF ViewSound, SlotSound
    <2> QED BY <1>a, <1>e, <2>1, <2>4, <2>5, <2>6, SoundProcess DEF t, msgs, leaving, deciding
  <1>2. CASE OnNonsense(p, q)
    <2>1. /\ CloseSlot(p, q) /\ s.mode = "UNVERIFIED_SENDER"
          /\ UNCHANGED <<requested, offline, commands, drain, app, misreports>>
      BY <1>2 DEF OnNonsense
    <2>2. /\ SlotSound(p, q, s, Pending(p, q))
          /\ ViewSound(p, q, s, Pending(p, q), v, leaving, deciding, drain[p])
      BY PairFacts
    <2>3. SlotFrame(p, q) /\ slot'[p][q] = Inactive /\ SpeechSound'
      BY <1>0, <2>1, CloseEffect, SpeechOnClose
    <2>4. RequestFrame(p, q) /\ AppFrame(p, q) /\ ReportsMakeSense' /\ RequestsSound' /\ QueueFrame(p, q)
      BY <2>1, Frames, SilentOK, RequestsKept, QuietQueue
    <2>5. app'[p][q] = v /\ (requested'[p][q] # NoRequest <=> Pending(p, q)) /\ drain'[p] = drain[p]
      BY <2>1 DEF Pending
    <2>6. CloseQueued(commands'[p], q) = leaving /\ DecisionQueued(commands'[p], q) = deciding
      BY <2>1
    <2> HIDE DEF s, v, leaving, deciding
    <2>7. SlotSound(p, q, slot'[p][q], requested'[p][q] # NoRequest)
      BY <2>2, <2>3, <2>5 DEF SlotSound, Inactive
    <2>8. ViewSound(p, q, slot'[p][q], requested'[p][q] # NoRequest, app'[p][q],
                    CloseQueued(commands'[p], q), DecisionQueued(commands'[p], q), drain'[p])
      BY <2>1, <2>2, <2>3, <2>5, <2>6
         DEF ViewSound, SlotSound, Inactive, Handshaking, Opened
    <2> QED BY <1>a, <2>3, <2>4, <2>7, <2>8, Assemble
  <1>3. CASE OnNewIncomingConnection(p, q)
    <2> DEFINE t == IF s.mode = "HANDLING_CONNECTION_REQUEST"
                    THEN [ClearSessionConfig(s) EXCEPT !.mode = "EXCHANGING_SESSION_DATA"] ELSE s
    <2>1. Process(p, q, "NEW_INCOMING", t, <<>>) /\ Silent BY <1>3 DEF OnNewIncomingConnection
    <2>2. t = s \/ (s.mode = "HANDLING_CONNECTION_REQUEST" /\ t.mode = "EXCHANGING_SESSION_DATA"
                    /\ t.initiated = s.initiated /\ t.connecting = FALSE
                    /\ t.awaiting = FALSE /\ t.reported = FALSE)
      BY <1>0 DEF RemoteSystem, ClearSessionConfig
    <2> HIDE DEF t
    <2>3. /\ s.mode # "INACTIVE" /\ SlotSound(p, q, s, FALSE)
          /\ ViewSound(p, q, s, FALSE, v, leaving, deciding, FALSE)
          /\ <<q, p>> \in Dials /\ <<p, q>> \notin Dials
      BY <1>d, <2>1 DEF DialerSays
    <2> HIDE DEF s, v, leaving, deciding
    <2>4. SlotSound(p, q, t, FALSE) BY <2>2, <2>3 DEF SlotSound
    <2>5. ViewSound(p, q, t, FALSE, v, leaving, deciding, FALSE)
      BY <2>2, <2>3 DEF ViewSound, SlotSound, Opened, Handshaking
    <2> QED BY <1>a, <1>c, <1>e, <2>1, <2>4, <2>5, SoundProcess DEF leaving, deciding
  <1>4. CASE OnConnectionRequestAccepted(p, q)
    <2> DEFINE allow == s.mode \in {"HANDLING_CONNECTION_REQUEST", "REQUESTED_CONNECTION"}
               t == IF allow THEN [ClearSessionConfig(s) EXCEPT
                                     !.mode = "EXCHANGING_SESSION_DATA", !.connecting = TRUE]
                             ELSE s
               msgs == IF allow THEN <<"NEW_INCOMING", "CONFIG_REQUEST">> ELSE <<>>
    <2>1. Process(p, q, "REQUEST_ACCEPTED", t, msgs) /\ Silent
      BY <1>4 DEF OnConnectionRequestAccepted
    <2>2. t = s \/ (allow /\ t.mode = "EXCHANGING_SESSION_DATA"
                    /\ t.initiated = s.initiated /\ t.connecting = TRUE
                    /\ t.awaiting = FALSE /\ t.reported = FALSE)
      BY <1>0 DEF RemoteSystem, ClearSessionConfig
    <2> HIDE DEF t
    <2>3. /\ s.mode # "INACTIVE" /\ SlotSound(p, q, s, FALSE)
          /\ ViewSound(p, q, s, FALSE, v, leaving, deciding, FALSE)
          /\ <<p, q>> \in Dials /\ <<q, p>> \notin Dials
      <3> HIDE DEF msgs, s, v, leaving, deciding
      <3> QED BY <1>d, <2>1
    <2>4. msgs \in Seq(Speech(p, q))
      <3>1. <<"NEW_INCOMING", "CONFIG_REQUEST">> \in Seq(Speech(p, q))
        BY <2>3 DEF Speech, OnlineType, DialerSays
      <3> QED BY <1>c, <3>1
    <2> HIDE DEF msgs, s, v, leaving, deciding
    <2>5. SlotSound(p, q, t, FALSE) BY <2>2, <2>3 DEF SlotSound, Handshaking
    <2>6. ViewSound(p, q, t, FALSE, v, leaving, deciding, FALSE)
      BY <2>2, <2>3 DEF ViewSound, SlotSound, Opened, Handshaking
    <2> QED BY <1>a, <1>e, <2>1, <2>4, <2>5, <2>6, SoundProcess DEF leaving, deciding
  <1>5. CASE OnDisconnectionNotification(p, q)
    <2> DEFINE t == [s EXCEPT !.mode = "DISCONNECT_ON_NO_ACK"]
    <2>1. Process(p, q, "DISCONNECTION", t, <<>>) /\ Silent /\ s.mode # "UNVERIFIED_SENDER"
      BY <1>5 DEF OnDisconnectionNotification, Verified
    <2>2. t.mode = "DISCONNECT_ON_NO_ACK" /\ t.initiated = s.initiated
          /\ t.connecting = s.connecting /\ t.awaiting = s.awaiting /\ t.reported = s.reported
      BY <1>0 DEF RemoteSystem
    <2> HIDE DEF t
    <2>3. /\ s.mode # "INACTIVE" /\ SlotSound(p, q, s, FALSE)
          /\ ViewSound(p, q, s, FALSE, v, leaving, deciding, FALSE)
      BY <1>d, <2>1
    <2>4. ~Dismissed(s)
      <3>1. p # q BY <2>1, ActiveDistinct DEF Process
      <3>2. "DISCONNECTION" \in ToSet(wire[q][p]) BY <2>1 DEF Process, ToSet
      <3> QED BY <3>1, <3>2 DEF Parting, PartingSound
    <2> HIDE DEF s, v, leaving, deciding
    <2>5. SlotSound(p, q, t, FALSE) BY <2>2, <2>3 DEF SlotSound, Opened, Handshaking
    <2>6. ViewSound(p, q, t, FALSE, v, leaving, deciding, FALSE)
      BY <2>2, <2>3, <2>4 DEF ViewSound, SlotSound, Dismissed
    <2> QED BY <1>a, <1>c, <1>e, <2>1, <2>5, <2>6, SoundProcess DEF leaving, deciding
  <1>6. CASE OnSessionConfigRequest(p, q)
    <2> DEFINE exchange == s.mode = "EXCHANGING_SESSION_DATA" /\ ~s.awaiting
               ask == exchange /\ p \in Interactive
               answer == exchange /\ p \notin Interactive
               t == CASE ask -> [s EXCEPT !.awaiting = TRUE]
                      [] answer -> Established(s) [] OTHER -> s
               msgs == IF answer THEN <<"CONFIG">> ELSE <<>>
               e == CASE ask -> "REQUEST" [] answer -> "UP" [] OTHER -> "NONE"
               w == app'[p][q]
    <2>1. Process(p, q, "CONFIG_REQUEST", t, msgs) /\ Report(p, q, e, FALSE)
      BY <1>6 DEF OnSessionConfigRequest
    <2>2. \/ t = s /\ e = "NONE"
          \/ /\ exchange /\ e = "REQUEST" /\ t.mode = s.mode /\ t.awaiting = TRUE
             /\ t.initiated = s.initiated /\ t.connecting = s.connecting /\ t.reported = s.reported
          \/ /\ exchange /\ e = "UP" /\ t.mode = "CONNECTED" /\ t.awaiting = s.awaiting
             /\ t.initiated = s.initiated /\ t.connecting = s.connecting /\ t.reported = TRUE
      BY <1>0 DEF RemoteSystem, Established
    <2>3. msgs \in Seq(Speech(p, q))
      <3>1. <<"CONFIG">> \in Seq(Speech(p, q)) BY FreeSpeech DEF OnlineType, DialerSays
      <3> QED BY <1>c, <3>1
    <2>a. e \in Event BY DEF Event
    <2> HIDE DEF t, msgs, e
    <2>4. /\ s.mode # "INACTIVE" /\ SlotSound(p, q, s, FALSE)
          /\ ViewSound(p, q, s, FALSE, v, leaving, deciding, FALSE)
          /\ <<q, p>> \in Dials /\ <<p, q>> \notin Dials
      BY <1>d, <2>1 DEF DialerSays
    <2>5. /\ AppFrame(p, q)
          /\ w.up <=> e = "UP" \/ (e \notin {"LOST", "CLOSED"} /\ v.up)
          /\ w.asked <=> v.asked /\ e \notin ConnectionReport
          /\ w.held <=> e = "REQUEST" \/ v.held
          /\ w.closed <=> v.closed /\ (e \in {"NONE", "DATA", "DROPPED"} \/ leaving)
      BY <1>f, <2>1, <2>a
    <2> HIDE DEF s, v, w, leaving, deciding
    <2>6. e = "UP" => ~v.up BY <2>2, <2>4 DEF ViewSound, SlotSound, Opened
    <2>7. ReportsMakeSense'
      <3>1. e \in ConnectionReport => ~IsMisreport(v, e)
        BY <2>2, <2>6 DEF IsMisreport, ConnectionReport
      <3> QED BY <2>1, <3>1, ReportOK DEF v
    <2>8. SlotSound(p, q, t, FALSE) BY <2>2, <2>4 DEF SlotSound, Opened, Handshaking
    <2>9. ViewSound(p, q, t, FALSE, w, leaving, deciding, FALSE)
      BY <2>2, <2>4, <2>5 DEF ViewSound, SlotSound, ConnectionReport, Opened
    <2> QED BY <1>a, <2>1, <2>3, <2>5, <2>7, <2>8, <2>9, SoundProcess DEF w, leaving, deciding
  <1>7. CASE OnSessionConfig(p, q)
    <2> DEFINE t == IF AwaitsAnswer(s) THEN Established(s) ELSE s
               e == IF AwaitsAnswer(s) THEN "UP" ELSE "NONE"
               w == app'[p][q]
    <2>1. Process(p, q, "CONFIG", t, <<>>) /\ Report(p, q, e, FALSE) BY <1>7 DEF OnSessionConfig
    <2>2. \/ t = s /\ e = "NONE"
          \/ /\ s.mode = "EXCHANGING_SESSION_DATA" /\ s.connecting
             /\ e = "UP" /\ t.mode = "CONNECTED" /\ t.awaiting = s.awaiting
             /\ t.initiated = s.initiated /\ t.connecting = s.connecting /\ t.reported = TRUE
      BY <1>0 DEF RemoteSystem, Established, AwaitsAnswer
    <2>a. e \in Event BY DEF Event
    <2> HIDE DEF t, e
    <2>4. /\ s.mode # "INACTIVE" /\ SlotSound(p, q, s, FALSE)
          /\ ViewSound(p, q, s, FALSE, v, leaving, deciding, FALSE)
      BY <1>d, <2>1
    <2>5. /\ AppFrame(p, q)
          /\ w.up <=> e = "UP" \/ (e \notin {"LOST", "CLOSED"} /\ v.up)
          /\ w.held <=> e = "REQUEST" \/ v.held
          /\ w.asked <=> v.asked /\ e \notin ConnectionReport
          /\ w.closed <=> v.closed /\ (e \in {"NONE", "DATA", "DROPPED"} \/ leaving)
      BY <1>f, <2>1, <2>a
    <2> HIDE DEF s, v, w, leaving, deciding
    <2>6. e = "UP" => ~v.up BY <2>2, <2>4 DEF ViewSound, SlotSound, Opened
    <2>7. ReportsMakeSense'
      <3>1. e \in ConnectionReport => ~IsMisreport(v, e)
        BY <2>2, <2>6 DEF IsMisreport, ConnectionReport
      <3> QED BY <2>1, <3>1, ReportOK DEF v
    <2>8. SlotSound(p, q, t, FALSE) BY <1>b, <2>2, <2>4 DEF SlotSound, Opened, Handshaking
    <2>9. ViewSound(p, q, t, FALSE, w, leaving, deciding, FALSE)
      BY <1>b, <2>2, <2>4, <2>5 DEF ViewSound, SlotSound, ConnectionReport
    <2> QED BY <1>a, <1>c, <2>1, <2>5, <2>7, <2>8, <2>9, SoundProcess DEF w, leaving, deciding
  <1>8. CASE OnSessionConfigStatus(p, q)
    <2>1. Process(p, q, "STATUS", s, <<>>) /\ Silent BY <1>8 DEF OnSessionConfigStatus
    <2>2. SlotSound(p, q, s, FALSE) /\ ViewSound(p, q, s, FALSE, v, leaving, deciding, FALSE)
      BY <1>d, <2>1
    <2> HIDE DEF s, v
    <2> QED BY <1>a, <1>c, <1>e, <2>1, <2>2, SoundProcess
  <1>9. ASSUME NEW m, NEW ours \in BOOLEAN,
               ours => \/ s.mode = "EXCHANGING_SESSION_DATA" /\ s.connecting
                       \/ s.mode = "REQUESTED_CONNECTION",
               Process(p, q, m, Silenced(s, ours), <<>>),
               Report(p, q, IF ours THEN "FAILED" ELSE "NONE", FALSE)
        PROVE  Sound'
    <2> DEFINE t == Silenced(s, ours)
               e == IF ours THEN "FAILED" ELSE "NONE"
               w == app'[p][q]
    <2>2. \/ t = s /\ e = "NONE" /\ ~ours
          \/ /\ ours /\ e = "FAILED" /\ t.mode = "DISCONNECT_ASAP_SILENTLY"
             /\ t.awaiting = s.awaiting /\ t.initiated = s.initiated
             /\ t.connecting = s.connecting /\ t.reported = s.reported
      BY <1>0 DEF RemoteSystem, Silenced
    <2>a. e \in Event BY DEF Event
    <2>b. Process(p, q, m, t, <<>>) /\ Report(p, q, e, FALSE) BY <1>9
    <2> HIDE DEF t, e
    <2>4. /\ s.mode # "INACTIVE" /\ SlotSound(p, q, s, FALSE)
          /\ ViewSound(p, q, s, FALSE, v, leaving, deciding, FALSE)
      BY <1>d, <2>b
    <2>5. /\ AppFrame(p, q)
          /\ w.up <=> e = "UP" \/ (e \notin {"LOST", "CLOSED"} /\ v.up)
          /\ w.held <=> e = "REQUEST" \/ v.held
          /\ w.asked <=> v.asked /\ e \notin ConnectionReport
          /\ w.closed <=> v.closed /\ (e \in {"NONE", "DATA", "DROPPED"} \/ leaving)
      BY <1>f, <2>b, <2>a
    <2> HIDE DEF s, v, w, leaving, deciding
    <2>6. e = "FAILED" => v.asked \/ v.closed
      BY <1>9, <1>b, <2>2, <2>4 DEF ViewSound, SlotSound, Opened
    <2>7. ReportsMakeSense'
      <3>1. e \in ConnectionReport => ~IsMisreport(v, e)
        BY <2>2, <2>6 DEF IsMisreport, ConnectionReport
      <3> QED BY <2>b, <3>1, ReportOK DEF v
    <2>8. SlotSound(p, q, t, FALSE) BY <1>9, <2>2, <2>4 DEF SlotSound, Opened, Handshaking
    <2>9. ViewSound(p, q, t, FALSE, w, leaving, deciding, FALSE)
      BY <1>9, <1>b, <2>2, <2>4, <2>5 DEF ViewSound, SlotSound, ConnectionReport, Opened
    <2> QED BY <1>a, <1>c, <2>b, <2>5, <2>7, <2>8, <2>9, SoundProcess DEF w, leaving, deciding
  <1>10. CASE OnSessionConfigRejected(p, q)
    <2>1. AwaitsAnswer(s) \in BOOLEAN /\ Process(p, q, "REJECTED", Silenced(s, AwaitsAnswer(s)), <<>>)
          /\ Report(p, q, IF AwaitsAnswer(s) THEN "FAILED" ELSE "NONE", FALSE)
          /\ (AwaitsAnswer(s) => s.mode = "EXCHANGING_SESSION_DATA" /\ s.connecting)
      BY <1>0, <1>10 DEF OnSessionConfigRejected, AwaitsAnswer, RemoteSystem
    <2> DEFINE ours == AwaitsAnswer(s)
    <2> HIDE DEF s, ours
    <2> QED BY <1>9, <2>1 DEF ours
  <1>11. CASE OnInvalidPassword(p, q)
    <2> DEFINE ours == s.mode = "REQUESTED_CONNECTION"
    <2>1. ours \in BOOLEAN /\ Process(p, q, "INVALID_PASSWORD", Silenced(s, ours), <<>>)
          /\ Report(p, q, IF ours THEN "FAILED" ELSE "NONE", FALSE)
      BY <1>11 DEF OnInvalidPassword
    <2>2. ours => s.mode = "REQUESTED_CONNECTION" OBVIOUS
    <2> HIDE DEF s, ours
    <2> QED BY <1>9, <2>1, <2>2
  <1>12. CASE OnApplicationData(p, q)
    <2> DEFINE e == IF s.mode = "EXCHANGING_SESSION_DATA" THEN "DROPPED" ELSE "DATA"
               w == app'[p][q]
    <2>1. e \in {"DROPPED", "DATA"} /\ Report(p, q, e, FALSE) BY <1>12 DEF OnApplicationData
    <2>2. PICK kind \in DataKinds : Process(p, q, kind, s, <<>>) BY <1>12 DEF OnApplicationData
    <2>a. e \in Event BY <2>1 DEF Event
    <2> HIDE DEF e
    <2>3. SlotSound(p, q, s, FALSE) /\ ViewSound(p, q, s, FALSE, v, leaving, deciding, FALSE)
      BY <1>d, <2>2
    <2>4. /\ AppFrame(p, q)
          /\ w.up <=> e = "UP" \/ (e \notin {"LOST", "CLOSED"} /\ v.up)
          /\ w.held <=> e = "REQUEST" \/ v.held
          /\ w.asked <=> v.asked /\ e \notin ConnectionReport
          /\ w.closed <=> v.closed /\ (e \in {"NONE", "DATA", "DROPPED"} \/ leaving)
      BY <1>f, <2>1, <2>2, <2>a
    <2> HIDE DEF s, v, w, leaving, deciding
    <2>5. ReportsMakeSense' BY <2>1, ReportOK DEF ConnectionReport
    <2>6. ViewSound(p, q, s, FALSE, w, leaving, deciding, FALSE)
      BY <2>1, <2>3, <2>4 DEF ViewSound, ConnectionReport
    <2> QED BY <1>a, <1>c, <2>2, <2>3, <2>4, <2>5, <2>6, SoundProcess DEF w, leaving, deciding
  <1> QED BY <1>1, <1>2, <1>3, <1>4, <1>5, <1>6, <1>7, <1>8, <1>10, <1>11, <1>12 DEF OnlineStep

(* A slot that is closed with a report.                                    *)
LEMMA SoundDrop ==
  ASSUME NoCrossDials, Sound, TypeOK', NEW p \in Peer, NEW q \in Peer,
         NEW e \in {"NONE", "FAILED", "LOST", "CLOSED"}, NEW abandoned \in BOOLEAN,
         Active(p, q), ~IsMisreport(app[p][q], e),
         app[p][q].up => e \in {"LOST", "CLOSED"},
         app[p][q].held => abandoned,
         UNCHANGED <<requested, commands, offline, drain>>,
         Report(p, q, e, abandoned), CloseSlot(p, q)
  PROVE  Sound'
  <1> DEFINE s == slot[p][q]
             v == app[p][q]
             w == app'[p][q]
             leaving == CloseQueued(commands[p], q)
             deciding == DecisionQueued(commands[p], q)
  <1>1. /\ TypeOK /\ SlotSound(p, q, s, Pending(p, q))
        /\ ViewSound(p, q, s, Pending(p, q), v, leaving, deciding, drain[p])
    BY PairFacts
  <1>2. SlotFrame(p, q) /\ slot'[p][q] = Inactive /\ SpeechSound'
    BY <1>1, CloseEffect, SpeechOnClose
  <1>3. RequestFrame(p, q) /\ RequestsSound' /\ QueueFrame(p, q)
    BY Frames, RequestsKept, QuietQueue
  <1>4. CloseQueued(commands'[p], q) = leaving /\ DecisionQueued(commands'[p], q) = deciding
        /\ drain'[p] = drain[p] /\ (requested'[p][q] # NoRequest <=> Pending(p, q))
    BY DEF Pending
  <1>5. ~Pending(p, q) BY <1>1 DEF SlotSound, Active
  <1>6. e \in Event BY DEF Event
  <1>7. /\ AppFrame(p, q)
        /\ w.up <=> e = "UP" \/ (e \notin {"LOST", "CLOSED"} /\ v.up)
        /\ w.held <=> e = "REQUEST" \/ (v.held /\ ~abandoned)
        /\ w.closed <=> v.closed /\ (e \in {"NONE", "DATA", "DROPPED"} \/
                                     CloseQueued(commands'[p], q))
    BY <1>1, <1>6, ReportEffect
  <1>8. ReportsMakeSense' BY ReportOK
  <1> HIDE DEF s, v, w, leaving, deciding
  <1>9. ~w.up /\ ~w.held BY <1>7 DEF v
  <1>10. SlotSound(p, q, slot'[p][q], requested'[p][q] # NoRequest)
    BY <1>2, <1>4, <1>5 DEF SlotSound, Inactive
  <1>11. ViewSound(p, q, slot'[p][q], requested'[p][q] # NoRequest, w,
                   CloseQueued(commands'[p], q), DecisionQueued(commands'[p], q), drain'[p])
    BY <1>1, <1>2, <1>4, <1>5, <1>7, <1>9 DEF ViewSound, Inactive
  <1> QED BY <1>2, <1>3, <1>7, <1>8, <1>10, <1>11, Assemble DEF w

(* The timers and the repeated requests.                                   *)
LEMMA SoundTimerStep ==
  ASSUME NoCrossDials, Sound, NEW p \in Peer, NEW q \in Peer,
         \/ SendOpenConnectionRequest(p, q) \/ ConnectionAttemptFailed(p, q)
         \/ DropConnection(p, q) \/ SessionTimeout(p, q) \/ BanExpires(p, q)
  PROVE  Sound'
  <1> DEFINE s == slot[p][q]
             v == app[p][q]
             leaving == CloseQueued(commands[p], q)
             deciding == DecisionQueued(commands[p], q)
  <1>0. /\ TypeOK /\ s \in RemoteSystem /\ v \in View
        /\ SlotSound(p, q, s, Pending(p, q))
        /\ ViewSound(p, q, s, Pending(p, q), v, leaving, deciding, drain[p])
    BY PairFacts
  <1>a. TypeOK' BY <1>0, TypeTimerStep
  <1>b. <<p, q>> \in Dials => <<q, p>> \notin Dials BY DEF NoCrossDials
  <1>c. /\ s.initiated \in BOOLEAN /\ s.connecting \in BOOLEAN
        /\ s.awaiting \in BOOLEAN /\ s.reported \in BOOLEAN /\ s.mode \in ConnectMode
    BY <1>0 DEF RemoteSystem
  <1>1. CASE SendOpenConnectionRequest(p, q)
    <2>1. /\ requested' = [requested EXCEPT ![p][q] = @ + 1] /\ requested[p][q] \in 0..(MaxRequests - 1)
          /\ Answer("REQUEST_1", p, q)
          /\ UNCHANGED <<slot, wire, commands, drain, app, misreports>>
      BY <1>1 DEF SendOpenConnectionRequest
    <2> DEFINE r == requested[p][q] + 1
    <2>2. requested' = [requested EXCEPT ![p][q] = r] BY <2>1
    <2>3. Pending(p, q) /\ r # NoRequest BY <2>1, PeerAssumption DEF Pending, NoRequest
    <2> HIDE DEF r
    <2>4. RequestFrame(p, q) /\ requested'[p][q] = r BY <1>0, <2>2, RequestEffect
    <2>5. SlotFrame(p, q) /\ AppFrame(p, q) /\ SpeechSound' /\ ReportsMakeSense' /\ QueueFrame(p, q)
      BY <2>1, Frames, SpeechKept, SilentOK, QuietQueue
    <2>6. RequestsSound' BY <2>1 DEF Sound, RequestsSound, Answer, Datagram
    <2>7. slot'[p][q] = s /\ app'[p][q] = v /\ drain'[p] = drain[p]
          /\ CloseQueued(commands'[p], q) = leaving /\ DecisionQueued(commands'[p], q) = deciding
      BY <2>1
    <2> HIDE DEF s, v, leaving, deciding
    <2>8. SlotSound(p, q, slot'[p][q], requested'[p][q] # NoRequest)
      BY <1>0, <2>3, <2>4, <2>7 DEF SlotSound
    <2>9. ViewSound(p, q, slot'[p][q], requested'[p][q] # NoRequest, app'[p][q],
                    CloseQueued(commands'[p], q), DecisionQueued(commands'[p], q), drain'[p])
      BY <1>0, <2>3, <2>4, <2>7 DEF ViewSound
    <2> QED BY <1>a, <2>4, <2>5, <2>6, <2>8, <2>9, Assemble
  <1>2. CASE ConnectionAttemptFailed(p, q)
    <2>1. Pending(p, q)
      BY <1>2, PeerAssumption DEF ConnectionAttemptFailed, Pending, NoRequest
    <2>2. UNCHANGED <<commands, drain>> BY <1>2 DEF ConnectionAttemptFailed
    <2>3. QueueFrame(p, q) BY <2>2, QuietQueue
    <2> QED BY <1>2, <1>a, <2>1, <2>3, SoundAttemptFails DEF ConnectionAttemptFailed
  <1>3. CASE DropConnection(p, q)
    <2> DEFINE e == CloseReport(s)
               abandoned == Abandons(s)
    <2>1. /\ Report(p, q, e, abandoned) /\ CloseSlot(p, q)
          /\ UNCHANGED <<requested, commands, offline, drain>>
      BY <1>3 DEF DropConnection
    <2>2. Active(p, q)
      BY <1>3 DEF DropConnection, FailureCondition, Active, Handshaking
    <2>3. /\ e \in {"NONE", "FAILED", "LOST", "CLOSED"} /\ abandoned \in BOOLEAN
          /\ s.reported => e \in {"LOST", "CLOSED"}
          /\ ~s.reported /\ (~s.initiated \/ s.mode = "DISCONNECT_ASAP_SILENTLY") => e = "NONE"
          /\ abandoned <=> ~s.initiated /\ s.awaiting
      <3>1. e \in {"NONE", "FAILED", "LOST", "CLOSED"} BY DEF CloseReport
      <3>2. s.reported => e \in {"LOST", "CLOSED"}
        <4>1. s.reported => s.mode \in Opened BY <1>0 DEF SlotSound
        <4> HIDE DEF s
        <4> QED BY <4>1 DEF Opened, CloseReport
      <3>3. ~s.reported /\ (~s.initiated \/ s.mode = "DISCONNECT_ASAP_SILENTLY") => e = "NONE"
        <4> HIDE DEF s
        <4> QED BY DEF CloseReport
      <3>4. abandoned <=> ~s.initiated /\ s.awaiting BY DEF Abandons
      <3> QED BY <1>c, <3>1, <3>2, <3>3, <3>4 DEF Abandons
    <2>4. ~IsMisreport(v, e)
      <3> HIDE DEF e, abandoned, s, v, leaving, deciding
      <3> QED BY <1>0, <1>c, <2>3 DEF IsMisreport, ViewSound
    <2>5. v.up => e \in {"LOST", "CLOSED"}
      <3> HIDE DEF e, abandoned, s, v, leaving, deciding
      <3> QED BY <1>0, <2>3 DEF ViewSound
    <2>6. v.held => abandoned
      <3> HIDE DEF e, abandoned, s, v, leaving, deciding
      <3> QED BY <1>0, <1>b, <2>3 DEF ViewSound, SlotSound
    <2> HIDE DEF e, abandoned
    <2> QED BY <1>a, <2>1, <2>2, <2>3, <2>4, <2>5, <2>6, SoundDrop
  <1>4. CASE SessionTimeout(p, q)
    <2> DEFINE e == IF s.connecting THEN "FAILED" ELSE "NONE"
               abandoned == ~s.connecting /\ Abandons(s)
    <2>1. /\ Report(p, q, e, abandoned) /\ CloseSlot(p, q)
          /\ UNCHANGED <<requested, commands, offline, drain>> /\ s.mode = "EXCHANGING_SESSION_DATA"
      BY <1>4 DEF SessionTimeout
    <2>2. Active(p, q) BY <2>1 DEF Active
    <2>3. ~v.up /\ ~s.reported
      <3> HIDE DEF s, v, leaving, deciding
      <3> QED BY <1>0, <2>1 DEF ViewSound, SlotSound, Opened
    <2>4. v.held => abandoned
      <3>1. v.held => s.awaiting /\ ~s.initiated /\ ~s.connecting
        <4> HIDE DEF s, v, leaving, deciding
        <4> QED BY <1>0, <1>b DEF ViewSound, SlotSound
      <3> QED BY <3>1 DEF Abandons
    <2>5. ~IsMisreport(v, e)
      <3>1. s.connecting => v.asked \/ v.closed
        <4> HIDE DEF s, v, leaving, deciding
        <4> QED BY <1>0, <1>b, <2>1, <2>3 DEF ViewSound, SlotSound
      <3> QED BY <3>1 DEF IsMisreport
    <2>6. e \in {"NONE", "FAILED", "LOST", "CLOSED"} /\ abandoned \in BOOLEAN BY <1>c
    <2>7. v.up => e \in {"LOST", "CLOSED"} BY <2>3
    <2> HIDE DEF e, abandoned
    <2> QED BY <1>a, <2>1, <2>2, <2>4, <2>5, <2>6, <2>7, SoundDrop
  <1>5. CASE BanExpires(p, q)
    <2>1. UNCHANGED <<requested, slot, offline, wire, commands, drain, app, misreports>>
      BY <1>5 DEF BanExpires
    <2>2. \A a, b \in Peer : PairSound(a, b)' <=> PairSound(a, b)
      BY <2>1, Zenon DEF PairSound, Pending
    <2>3. SpeechSound' /\ RequestsSound' /\ ReportsMakeSense' BY <2>1, SpeechKept, RequestsKept, SilentOK
    <2> QED BY <1>a, <2>2, <2>3 DEF Sound
  <1> QED BY <1>1, <1>2, <1>3, <1>4, <1>5

-----------------------------------------------------------------------------
(* The last words of a slot                                                *)

(* The words of a longer message sequence, and of what is carried of it.   *)
LEMMA Words ==
  ASSUME NEW a \in Seq(OnlineType), NEW b \in Seq(OnlineType)
  PROVE  ToSet(a \o b) = ToSet(a) \cup ToSet(b)
  <1> DEFINE c == a \o b
  <1>1. Len(c) = Len(a) + Len(b) /\ Len(a) \in Nat /\ Len(b) \in Nat OBVIOUS
  <1>2. \A i \in 1..Len(a) : c[i] = a[i] /\ i \in DOMAIN c BY <1>1
  <1>3. \A i \in 1..Len(b) : c[Len(a) + i] = b[i] /\ Len(a) + i \in DOMAIN c BY <1>1
  <1>4. \A i \in DOMAIN c : c[i] \in ToSet(a) \cup ToSet(b)
    <2> SUFFICES ASSUME NEW i \in DOMAIN c PROVE c[i] \in ToSet(a) \cup ToSet(b) OBVIOUS
    <2>1. CASE i <= Len(a) BY <1>1, <1>2, <2>1 DEF ToSet
    <2>2. CASE i > Len(a)
      <3>1. i - Len(a) \in 1..Len(b) BY <1>1, <2>2
      <3>2. c[i] = b[i - Len(a)] BY <2>2
      <3> QED BY <3>1, <3>2 DEF ToSet
    <2> QED BY <1>1, <2>1, <2>2
  <1> HIDE DEF c
  <1>5. ToSet(a) \subseteq ToSet(c) /\ ToSet(b) \subseteq ToSet(c)
    BY SMTT(30), <1>2, <1>3 DEF ToSet
  <1>6. ToSet(c) \subseteq ToSet(a) \cup ToSet(b) BY <1>4 DEF ToSet
  <1> QED BY <1>5, <1>6 DEF c

(* A queue holds the messages of its set of messages.                       *)
LEMMA SomeWords ==
  ASSUME NEW S, NEW a \in Seq(S)
  PROVE  ToSet(a) \subseteq S /\ a \in Seq(ToSet(a)) /\ (a = <<>> <=> ToSet(a) = {})
  <1>1. ToSet(a) \subseteq S BY DEF ToSet
  <1>2. \A i \in 1..Len(a) : a[i] \in ToSet(a) BY DEF ToSet
  <1>3. a \in Seq(ToSet(a)) BY <1>2
  <1>4. a = <<>> => ToSet(a) = {} BY DEF ToSet
  <1>5. a # <<>> => a[1] \in ToSet(a) BY DEF ToSet
  <1> QED BY <1>1, <1>3, <1>4, <1>5

(* The other layer receives no message that was not sent.                   *)
LEMMA CarriedWords ==
  ASSUME NEW p, NEW q, NEW msgs \in Seq(OnlineType)
  PROVE  /\ ToSet(Carried(p, q, msgs)) \subseteq ToSet(msgs)
         /\ slot[p][q].younger => Carried(p, q, msgs) = <<>>
  <1>1. msgs \in Seq(ToSet(msgs)) BY SomeWords
  <1>2. Carried(p, q, msgs) \in Seq(ToSet(msgs)) BY <1>1, CarriedType
  <1>3. ToSet(Carried(p, q, msgs)) \subseteq ToSet(msgs) BY <1>2, SomeWords
  <1>4. slot[p][q].younger => Carried(p, q, msgs) = <<>> BY DEF Carried
  <1> QED BY <1>3, <1>4

(* What is said last.                                                      *)
Farewell == Dismissal \cup {"DISCONNECTION"}

(* A side that speaks and moves on with its slot.                          *)
LEMMA PartingOnSpeak ==
  ASSUME Sound, Parting, NEW p \in Peer, NEW q \in Peer, p # q,
         NEW t \in RemoteSystem, NEW msgs \in Seq(OnlineType),
         slot' = [slot EXCEPT ![p][q] = t],
         wire'[p][q] = wire[p][q] \o Carried(p, q, msgs),
         ToSet(wire'[q][p]) \subseteq ToSet(wire[q][p]),
         \A a, b \in Peer : <<a, b>> \notin {<<p, q>>, <<q, p>>} => wire'[a][b] = wire[a][b],
         t.younger = slot[p][q].younger,
         MaySend(t) => MaySend(slot[p][q]),
         ToSet(msgs) \cap Farewell # {} =>
           MaySend(slot[p][q]) /\ ~MaySend(t) /\ \E m : ToSet(msgs) = {m},
         Dismissed(t) => Dismissed(slot[p][q]) \/ ToSet(wire[q][p]) \cap Dismissal # {}
  PROVE  Parting'
  <1>1. slot \in [Peer -> [Peer -> RemoteSystem]] /\ wire[p][q] \in Seq(OnlineType)
    BY DEF Sound, TypeOK
  <1>2. slot'[p][q] = t BY <1>1
  <1>3. \A a, b \in Peer : <<a, b>> # <<p, q>> => slot'[a][b] = slot[a][b] BY <1>1
  <1> DEFINE more == Carried(p, q, msgs)
  <1>4. more \in Seq(OnlineType) BY CarriedType
  <1>5. ToSet(more) \subseteq ToSet(msgs) /\ (slot[p][q].younger => more = <<>>) BY CarriedWords
  <1>6. ToSet(wire'[p][q]) = ToSet(wire[p][q]) \cup ToSet(more) BY <1>1, <1>4, Words
  <1>7. slot[p][q].younger => ToSet(more) = {} BY <1>4, <1>5, SomeWords
  <1> HIDE DEF more
  <1>8. PartingSound(ToSet(wire'[p][q]), slot'[p][q], slot'[q][p])
    <2>1. PartingSound(ToSet(wire[p][q]), slot[p][q], slot[q][p]) BY DEF Parting
    <2>2. slot'[q][p] = slot[q][p] BY <1>3
    <2>3. ToSet(wire'[p][q]) \cap Farewell # {} => ~MaySend(t)
      BY <1>5, <1>6, <2>1 DEF PartingSound, Farewell
    <2>4. ASSUME "DISCONNECTION" \in ToSet(wire'[p][q]) PROVE ToSet(wire'[p][q]) \cap Dismissal = {}
      <3>1. CASE "DISCONNECTION" \in ToSet(wire[p][q])
        <4>1. ~MaySend(slot[p][q]) BY <2>1, <3>1 DEF PartingSound
        <4>2. ToSet(msgs) \cap Farewell = {} BY <4>1
        <4> QED BY <1>5, <1>6, <2>1, <3>1, <4>2 DEF PartingSound, Farewell
      <3>2. CASE "DISCONNECTION" \in ToSet(more)
        <4>1. MaySend(slot[p][q]) /\ \E m : ToSet(msgs) = {m} BY <1>5, <3>2 DEF Farewell
        <4>2. ToSet(wire[p][q]) \cap Dismissal = {} BY <2>1, <4>1 DEF PartingSound
        <4>3. ToSet(msgs) = {"DISCONNECTION"} BY <1>5, <3>2, <4>1
        <4> QED BY <1>5, <1>6, <4>2, <4>3 DEF Dismissal
      <3> QED BY <1>6, <2>4, <3>1, <3>2
    <2>5. ASSUME Dismissed(slot[q][p])
          PROVE  "DISCONNECTION" \notin ToSet(wire'[p][q]) /\ (~MaySend(t) \/ t.younger)
      <3>1. "DISCONNECTION" \notin ToSet(wire[p][q])
            /\ (~MaySend(slot[p][q]) \/ slot[p][q].younger)
        BY <2>1, <2>5 DEF PartingSound
      <3>2. "DISCONNECTION" \notin ToSet(more) BY <1>5, <1>7, <3>1 DEF Farewell
      <3> QED BY <1>6, <3>1, <3>2
    <2>6. t.younger => ToSet(wire'[p][q]) = {} BY <1>6, <1>7, <2>1 DEF PartingSound
    <2> QED BY <1>2, <2>2, <2>3, <2>4, <2>5, <2>6 DEF PartingSound, Farewell
  <1>9. PartingSound(ToSet(wire'[q][p]), slot'[q][p], slot'[p][q])
    <2>1. PartingSound(ToSet(wire[q][p]), slot[q][p], slot[p][q]) BY DEF Parting
    <2>2. slot'[q][p] = slot[q][p] BY <1>3
    <2> QED BY <1>2, <2>1, <2>2 DEF PartingSound
  <1>10. ASSUME NEW a \in Peer, NEW b \in Peer, a # b PROVE PartingSound(ToSet(wire'[a][b]), slot'[a][b], slot'[b][a])
    <2>1. CASE <<a, b>> \in {<<p, q>>, <<q, p>>} BY <1>8, <1>9, <2>1
    <2>2. CASE <<a, b>> \notin {<<p, q>>, <<q, p>>}
      <3>1. wire'[a][b] = wire[a][b] /\ slot'[a][b] = slot[a][b] /\ slot'[b][a] = slot[b][a]
        BY <1>3, <2>2
      <3> QED BY <1>10, <3>1 DEF Parting
    <2> QED BY <2>1, <2>2
  <1> QED BY <1>10 DEF Parting

(* A step that leaves all pairs of distinct peers alone.                   *)
LEMMA PartingKept ==
  ASSUME Parting,
         \A a, b \in Peer : a # b => wire'[a][b] = wire[a][b] /\ slot'[a][b] = slot[a][b]
  PROVE  Parting'
  BY DEF Parting

(* A slot that is given back.                                              *)
LEMMA PartingOnClose ==
  ASSUME Sound, Parting, NEW p \in Peer, NEW q \in Peer, p # q, CloseSlot(p, q)
  PROVE  Parting'
  <1>1. slot \in [Peer -> [Peer -> RemoteSystem]] /\ wire \in [Peer -> [Peer -> Seq(OnlineType)]]
    BY DEF Sound, TypeOK
  <1>2. slot' = [slot EXCEPT ![p][q] = Inactive] BY DEF CloseSlot
  <1>3. slot'[p][q] = Inactive BY <1>1, <1>2
  <1>4. \A a, b \in Peer : <<a, b>> # <<p, q>> => slot'[a][b] = slot[a][b] BY <1>1, <1>2
  <1>5. PICK w \in {<<>>, wire[p][q]} :
          wire' = [wire EXCEPT ![p][q] = w, ![q][p] = IF Active(q, p) THEN @ ELSE <<>>]
    BY DEF CloseSlot, WireAfterClose
  <1>6. \A a, b \in Peer : wire'[a][b] \in {<<>>, wire[a][b]} BY <1>1, <1>5
  <1>7. \A a, b \in Peer : ToSet(wire'[a][b]) \subseteq ToSet(wire[a][b])
    <2>1. ToSet(<<>>) = {} BY DEF ToSet
    <2> QED BY <1>6, <2>1
  <1>8. ASSUME NEW a \in Peer, NEW b \in Peer, a # b
        PROVE  PartingSound(ToSet(wire'[a][b]), slot'[a][b], slot'[b][a])
    <2>1. PartingSound(ToSet(wire[a][b]), slot[a][b], slot[b][a]) BY <1>8 DEF Parting
    <2>2. slot'[a][b] \in {Inactive, slot[a][b]} /\ slot'[b][a] \in {Inactive, slot[b][a]}
      BY <1>3, <1>4
    <2>3. ~MaySend(Inactive) /\ ~Inactive.younger /\ ~Dismissed(Inactive)
      BY DEF MaySend, Inactive, Dismissed
    <2> QED BY <1>7, <2>1, <2>2, <2>3 DEF PartingSound
  <1> QED BY <1>8 DEF Parting

(* A slot that is taken: the words of the one before are gone.             *)
LEMMA PartingOnTake ==
  ASSUME Sound, Parting, NEW p \in Peer, NEW q \in Peer, p # q,
         NEW s \in RemoteSystem, NEW msgs \in Seq(OnlineType), TakeSlot(p, q, s, msgs),
         ~Dismissed(s), ToSet(msgs) \cap Farewell = {}
  PROVE  Parting'
  <1> DEFINE younger == Active(q, p) /\
        slot[q][p].mode \notin {"UNVERIFIED_SENDER", "REQUESTED_CONNECTION"}
             t == [s EXCEPT !.younger = younger]
             u == [slot[q][p] EXCEPT !.younger = FALSE]
             first == IF younger THEN <<>> ELSE msgs
             rest == IF younger THEN OnlyUnordered(wire[q][p]) ELSE wire[q][p]
  <1>1. slot \in [Peer -> [Peer -> RemoteSystem]] /\ wire \in [Peer -> [Peer -> Seq(OnlineType)]]
    BY DEF Sound, TypeOK
  <1>2. slot'[p][q] = t /\ slot'[q][p] = u
        /\ \A a, b \in Peer : <<a, b>> \notin {<<p, q>>, <<q, p>>} => slot'[a][b] = slot[a][b]
    <2>1. slot' = [slot EXCEPT ![p][q] = t, ![q][p].younger = FALSE] BY DEF TakeSlot
    <2> HIDE DEF t
    <2> QED BY <1>1, <2>1
  <1>3. wire'[p][q] = first /\ wire'[q][p] = rest
        /\ \A a, b \in Peer : <<a, b>> \notin {<<p, q>>, <<q, p>>} => wire'[a][b] = wire[a][b]
    <2>1. wire' = [wire EXCEPT ![p][q] = IF younger THEN <<>> ELSE msgs,
                               ![q][p] = IF younger THEN OnlyUnordered(@) ELSE @]
      BY DEF TakeSlot
    <2> HIDE DEF younger
    <2> QED BY <1>1, <2>1
  <1>4. wire[q][p] \in Seq(OnlineType) /\ wire[q][p] \in Seq(ToSet(wire[q][p]))
    BY <1>1, SomeWords
  <1>5. rest \in Seq(ToSet(wire[q][p])) BY <1>4, OnlyUnorderedType
  <1>6. ToSet(rest) \subseteq ToSet(wire[q][p]) BY <1>5, SomeWords
  <1>7. younger => ToSet(first) = {} BY DEF ToSet
  <1>8. ToSet(first) \cap Farewell = {}
    <2>1. ToSet(<<>>) = {} BY DEF ToSet
    <2> QED BY <2>1
  <1>9. t.younger = younger /\ t.mode = s.mode /\ t.initiated = s.initiated BY DEF RemoteSystem
  <1>10. u.younger = FALSE /\ u.mode = slot[q][p].mode /\ u.initiated = slot[q][p].initiated
    <2>1. slot[q][p] \in RemoteSystem BY <1>1
    <2> QED BY <2>1 DEF RemoteSystem
  <1>11. Dismissed(u) => younger BY <1>10 DEF Dismissed, Active
  <1> HIDE DEF younger, t, u, first, rest
  <1>12. PartingSound(ToSet(first), t, u)
    BY <1>7, <1>8, <1>9, <1>11 DEF PartingSound, Farewell
  <1>13. PartingSound(ToSet(rest), u, t)
    <2>1. PartingSound(ToSet(wire[q][p]), slot[q][p], slot[p][q]) BY DEF Parting
    <2>2. ~Dismissed(t) BY <1>9 DEF Dismissed
    <2>3. MaySend(u) <=> MaySend(slot[q][p]) BY <1>10 DEF MaySend
    <2> QED BY <1>6, <1>10, <2>1, <2>2, <2>3 DEF PartingSound
  <1>14. ASSUME NEW a \in Peer, NEW b \in Peer, a # b
         PROVE  PartingSound(ToSet(wire'[a][b]), slot'[a][b], slot'[b][a])
    <2>1. CASE <<a, b>> \in {<<p, q>>, <<q, p>>} BY <1>2, <1>3, <1>12, <1>13, <2>1
    <2>2. CASE <<a, b>> \notin {<<p, q>>, <<q, p>>}
      <3>1. wire'[a][b] = wire[a][b] /\ slot'[a][b] = slot[a][b] /\ slot'[b][a] = slot[b][a]
        BY <1>2, <1>3, <2>2
      <3> QED BY <1>14, <3>1 DEF Parting
    <2> QED BY <2>1, <2>2
  <1> QED BY <1>14 DEF Parting

(* A side that processes a message, answers and moves on with its slot.    *)
LEMMA PartingOnProcess ==
  ASSUME Sound, Parting, TypeOK', NEW p \in Peer, NEW q \in Peer, NEW m, NEW t,
         NEW msgs \in Seq(OnlineType), Process(p, q, m, t, msgs),
         t.younger = slot[p][q].younger,
         MaySend(t) => MaySend(slot[p][q]),
         ToSet(msgs) \cap Farewell # {} =>
           MaySend(slot[p][q]) /\ ~MaySend(t) /\ \E x : ToSet(msgs) = {x},
         Dismissed(t) => Dismissed(slot[p][q]) \/ m \in Dismissal
  PROVE  Parting'
  <1>1. TypeOK /\ p # q /\ slot' = [slot EXCEPT ![p][q] = t]
    BY ActiveDistinct DEF Process, Sound
  <1>2. t \in RemoteSystem
    <2>1. slot'[p][q] = t BY <1>1, SetEffect
    <2>2. slot'[p][q] \in RemoteSystem BY DEF TypeOK
    <2> QED BY <2>1, <2>2
  <1> DEFINE more == Carried(p, q, msgs)
  <1>3. PICK i \in DOMAIN wire[q][p] : wire[q][p][i] = m /\
          wire' = [wire EXCEPT ![q][p] = RemoveAt(@, i), ![p][q] = @ \o more]
    BY DEF Process
  <1>4. wire \in [Peer -> [Peer -> Seq(OnlineType)]] BY <1>1 DEF TypeOK
  <1> DEFINE rest == RemoveAt(wire[q][p], i)
  <1>5. wire' = [wire EXCEPT ![q][p] = rest, ![p][q] = @ \o more] BY <1>3
  <1>6. m \in ToSet(wire[q][p]) BY <1>3 DEF ToSet
  <1>7. ToSet(rest) \subseteq ToSet(wire[q][p])
    <2>1. wire[q][p] \in Seq(OnlineType) BY <1>4
    <2>2. wire[q][p] \in Seq(ToSet(wire[q][p])) BY <2>1, SomeWords
    <2>3. i \in 1..Len(wire[q][p]) BY <1>3, <2>1
    <2>4. rest \in Seq(ToSet(wire[q][p])) BY <2>2, <2>3, RemoveAtType
    <2> HIDE DEF rest
    <2> QED BY <2>4, SomeWords
  <1> HIDE DEF rest, more
  <1>8. /\ wire'[p][q] = wire[p][q] \o more /\ wire'[q][p] = rest
        /\ \A a, b \in Peer : <<a, b>> \notin {<<p, q>>, <<q, p>>} => wire'[a][b] = wire[a][b]
    BY <1>1, <1>4, <1>5
  <1>9. Dismissed(t) => Dismissed(slot[p][q]) \/ ToSet(wire[q][p]) \cap Dismissal # {}
    BY <1>6
  <1> QED BY <1>1, <1>2, <1>7, <1>8, <1>9, PartingOnSpeak DEF more

(* A message that is processed keeps what is known of partings.             *)
LEMMA PartingOnlineStep ==
  ASSUME NoCrossDials, Sound, Parting, NEW p \in Peer, NEW q \in Peer, OnlineStep(p, q)
  PROVE  Parting'
  <1> DEFINE s == slot[p][q]
  <1>0. TypeOK /\ s \in RemoteSystem BY PairFacts
  <1>a. TypeOK' BY <1>0, TypeOnlineStep
  <1>b. <<>> \in Seq(OnlineType) /\ ToSet(<<>>) = {} BY DEF ToSet
  <1>c. ASSUME NEW m, NEW t, Process(p, q, m, t, <<>>), t.younger = s.younger,
               MaySend(t) => MaySend(s), Dismissed(t) => Dismissed(s) \/ m \in Dismissal
        PROVE  Parting'
    BY <1>a, <1>b, <1>c, PartingOnProcess
  <1>1. CASE OnConnectionRequest(p, q)
    <2> DEFINE parse == s.mode \in {"UNVERIFIED_SENDER", "REQUESTED_CONNECTION"}
               Left(wrong) == CASE wrong -> [s EXCEPT !.mode = "DISCONNECT_ASAP_SILENTLY"]
                                [] parse /\ ~wrong ->
                                     [s EXCEPT !.mode = "HANDLING_CONNECTION_REQUEST"]
                                [] OTHER -> s
               Said(wrong) == Sending(s, IF wrong THEN <<"INVALID_PASSWORD">>
                                                  ELSE <<"REQUEST_ACCEPTED">>)
    <2>1. PICK wrong \in {FALSE} \cup {parse /\ <<q, p>> \in WrongPassword} :
            Process(p, q, "CONNECTION_REQUEST", Left(wrong), Said(wrong))
      BY <1>1 DEF OnConnectionRequest
    <2> DEFINE t == Left(wrong)
               msgs == Said(wrong)
    <2>2. /\ t.younger = s.younger /\ t.initiated = s.initiated
          /\ t = s \/ (parse /\ t.mode \in {"DISCONNECT_ASAP_SILENTLY", "HANDLING_CONNECTION_REQUEST"})
          /\ wrong => parse /\ t.mode = "DISCONNECT_ASAP_SILENTLY"
      BY <1>0, <2>1 DEF RemoteSystem
    <2>3. msgs \in Seq(OnlineType) /\ (~wrong => ToSet(msgs) \subseteq {"REQUEST_ACCEPTED"})
          /\ ToSet(msgs) \subseteq {"INVALID_PASSWORD", "REQUEST_ACCEPTED"}
          /\ (wrong => \E x : ToSet(msgs) = {x})
      <3>1. <<"INVALID_PASSWORD">> \in Seq(OnlineType) /\ <<"REQUEST_ACCEPTED">> \in Seq(OnlineType)
        BY DEF OnlineType
      <3>2. ToSet(<<"INVALID_PASSWORD">>) = {"INVALID_PASSWORD"}
            /\ ToSet(<<"REQUEST_ACCEPTED">>) = {"REQUEST_ACCEPTED"}
        BY DEF ToSet
      <3>3. wrong => MaySend(s) BY <2>2 DEF MaySend, Closing
      <3> QED BY <1>b, <3>1, <3>2, <3>3 DEF Sending
    <2> HIDE DEF t, msgs, Left, Said
    <2>4. ~Dismissed(t)
      <3>1. SlotSound(p, q, s, FALSE) /\ "CONNECTION_REQUEST" \in Speech(q, p) BY <2>1, ProcessFacts
      <3>2. <<p, q>> \notin Dials BY <3>1 DEF Speech, DialerSays, NoCrossDials
      <3> QED BY <2>2, <3>1, <3>2 DEF SlotSound, Dismissed
    <2>5. MaySend(t) => MaySend(s) BY <2>2 DEF MaySend, Closing
    <2>6. ToSet(msgs) \cap Farewell # {} => MaySend(s) /\ ~MaySend(t) /\ \E x : ToSet(msgs) = {x}
      BY <2>2, <2>3 DEF Farewell, Dismissal, MaySend, Closing
    <2> HIDE DEF s
    <2> QED BY <1>a, <2>1, <2>2, <2>3, <2>4, <2>5, <2>6, PartingOnProcess DEF t, msgs, s
  <1>2. CASE OnNonsense(p, q)
    <2>1. CloseSlot(p, q) /\ Active(p, q) BY <1>2 DEF OnNonsense, Active
    <2> QED BY <2>1, ActiveDistinct, PartingOnClose
  <1>3. CASE OnNewIncomingConnection(p, q)
    <2> DEFINE t == IF s.mode = "HANDLING_CONNECTION_REQUEST"
                    THEN [ClearSessionConfig(s) EXCEPT !.mode = "EXCHANGING_SESSION_DATA"] ELSE s
    <2>1. Process(p, q, "NEW_INCOMING", t, <<>>) BY <1>3 DEF OnNewIncomingConnection
    <2>2. t.younger = s.younger /\ (MaySend(t) => MaySend(s)) /\ (Dismissed(t) => Dismissed(s))
      BY <1>0 DEF RemoteSystem, ClearSessionConfig, MaySend, Closing, Dismissed
    <2> HIDE DEF t
    <2> QED BY <1>c, <2>1, <2>2
  <1>4. CASE OnConnectionRequestAccepted(p, q)
    <2> DEFINE allow == s.mode \in {"HANDLING_CONNECTION_REQUEST", "REQUESTED_CONNECTION"}
               t == IF allow THEN [ClearSessionConfig(s) EXCEPT
                                     !.mode = "EXCHANGING_SESSION_DATA", !.connecting = TRUE]
                             ELSE s
               msgs == IF allow THEN <<"NEW_INCOMING", "CONFIG_REQUEST">> ELSE <<>>
    <2>1. Process(p, q, "REQUEST_ACCEPTED", t, msgs) BY <1>4 DEF OnConnectionRequestAccepted
    <2>2. t.younger = s.younger /\ (MaySend(t) => MaySend(s)) /\ (Dismissed(t) => Dismissed(s))
      BY <1>0 DEF RemoteSystem, ClearSessionConfig, MaySend, Closing, Dismissed
    <2>3. msgs \in Seq(OnlineType) /\ ToSet(msgs) \cap Farewell = {}
      <3>1. <<"NEW_INCOMING", "CONFIG_REQUEST">> \in Seq(OnlineType) BY DEF OnlineType
      <3>2. ToSet(<<"NEW_INCOMING", "CONFIG_REQUEST">>) \subseteq {"NEW_INCOMING", "CONFIG_REQUEST"}
        BY DEF ToSet
      <3> QED BY <1>b, <3>1, <3>2 DEF Farewell, Dismissal
    <2> HIDE DEF t, msgs
    <2> QED BY <1>a, <2>1, <2>2, <2>3, PartingOnProcess
  <1>5. CASE OnDisconnectionNotification(p, q)
    <2> DEFINE t == [s EXCEPT !.mode = "DISCONNECT_ON_NO_ACK"]
    <2>1. Process(p, q, "DISCONNECTION", t, <<>>) BY <1>5 DEF OnDisconnectionNotification
    <2>2. t.younger = s.younger /\ ~MaySend(t) /\ ~Dismissed(t)
      BY <1>0 DEF RemoteSystem, MaySend, Closing, Dismissed
    <2> HIDE DEF t
    <2> QED BY <1>c, <2>1, <2>2
  <1>6. CASE OnSessionConfigRequest(p, q)
    <2> DEFINE exchange == s.mode = "EXCHANGING_SESSION_DATA" /\ ~s.awaiting
               ask == exchange /\ p \in Interactive
               answer == exchange /\ p \notin Interactive
               t == CASE ask -> [s EXCEPT !.awaiting = TRUE]
                      [] answer -> Established(s) [] OTHER -> s
               msgs == IF answer THEN <<"CONFIG">> ELSE <<>>
    <2>1. Process(p, q, "CONFIG_REQUEST", t, msgs) BY <1>6 DEF OnSessionConfigRequest
    <2>2. t.younger = s.younger /\ (MaySend(t) => MaySend(s)) /\ (Dismissed(t) => Dismissed(s))
      BY <1>0 DEF RemoteSystem, Established, MaySend, Closing, Dismissed
    <2>3. msgs \in Seq(OnlineType) /\ ToSet(msgs) \cap Farewell = {}
      <3>1. <<"CONFIG">> \in Seq(OnlineType) BY DEF OnlineType
      <3>2. ToSet(<<"CONFIG">>) = {"CONFIG"} BY DEF ToSet
      <3> QED BY <1>b, <3>1, <3>2 DEF Farewell, Dismissal
    <2> HIDE DEF t, msgs
    <2> QED BY <1>a, <2>1, <2>2, <2>3, PartingOnProcess
  <1>7. CASE OnSessionConfig(p, q)
    <2> DEFINE t == IF AwaitsAnswer(s) THEN Established(s) ELSE s
    <2>1. Process(p, q, "CONFIG", t, <<>>) BY <1>7 DEF OnSessionConfig
    <2>2. t.younger = s.younger /\ (MaySend(t) => MaySend(s)) /\ (Dismissed(t) => Dismissed(s))
      BY <1>0 DEF RemoteSystem, Established, AwaitsAnswer, MaySend, Closing, Dismissed
    <2> HIDE DEF t
    <2> QED BY <1>c, <2>1, <2>2
  <1>8. CASE OnSessionConfigStatus(p, q) \/ OnApplicationData(p, q)
    <2>1. \E m : Process(p, q, m, s, <<>>)
      BY <1>8 DEF OnSessionConfigStatus, OnApplicationData
    <2> QED BY <1>c, <2>1
  <1>9. CASE OnSessionConfigRejected(p, q) \/ OnInvalidPassword(p, q)
    <2>1. \E m \in Dismissal, ours \in BOOLEAN : Process(p, q, m, Silenced(s, ours), <<>>)
      <3>1. AwaitsAnswer(s) \in BOOLEAN /\ (s.mode = "REQUESTED_CONNECTION") \in BOOLEAN
        BY <1>0 DEF AwaitsAnswer, RemoteSystem
      <3> QED BY <1>9, <3>1 DEF OnSessionConfigRejected, OnInvalidPassword, Dismissal
    <2>2. PICK m \in Dismissal, ours \in BOOLEAN : Process(p, q, m, Silenced(s, ours), <<>>)
      BY <2>1
    <2> DEFINE t == Silenced(s, ours)
    <2>3. t.younger = s.younger /\ (MaySend(t) => MaySend(s))
      BY <1>0 DEF RemoteSystem, Silenced, MaySend, Closing
    <2> HIDE DEF t
    <2> QED BY <1>c, <2>2, <2>3 DEF t
  <1> QED BY <1>1, <1>2, <1>3, <1>4, <1>5, <1>6, <1>7, <1>8, <1>9 DEF OnlineStep

(* A command that runs keeps what is known of partings.                     *)
LEMMA PartingCommandStep ==
  ASSUME Sound, Parting, NEW p \in Peer, CommandStep(p) PROVE Parting'
  <1> DEFINE c == Head(commands[p])
             q == c.to
             s == slot[p][q]
  <1>1. TypeOK BY DEF Sound
  <1>2. TakeCommand(p) /\ q \in Peer
    <2>1. TakeCommand(p)
      BY DEF CommandStep, RunSend, RunSessionDecision, RunSessionStatus, RunClose
    <2> QED BY <1>1, <2>1, TakeCommandType
  <1>3. s \in RemoteSystem BY <1>2, PairFacts
  <1>4. slot \in [Peer -> [Peer -> RemoteSystem]] /\ wire \in [Peer -> [Peer -> Seq(OnlineType)]]
    BY <1>1 DEF TypeOK
  <1>a. ASSUME NEW t \in RemoteSystem, NEW msgs \in Seq(OnlineType),
               slot' = [slot EXCEPT ![p][q] = t],
               wire' = [wire EXCEPT ![p][q] = @ \o Carried(p, q, msgs)],
               t.younger = s.younger, MaySend(t) => MaySend(s), Dismissed(t) => Dismissed(s),
               ToSet(msgs) \cap Farewell # {} =>
                 MaySend(s) /\ ~MaySend(t) /\ \E m : ToSet(msgs) = {m}
        PROVE  Parting'
    <2> DEFINE more == Carried(p, q, msgs)
    <2> HIDE DEF c, q, s, more
    <2>1. /\ wire'[p][q] = wire[p][q] \o more
          /\ \A a, b \in Peer : <<a, b>> # <<p, q>> => wire'[a][b] = wire[a][b]
      BY <1>2, <1>4, <1>a DEF more
    <2>2. \A a, b \in Peer : <<a, b>> # <<p, q>> => slot'[a][b] = slot[a][b] BY <1>2, <1>4, <1>a
    <2>3. CASE p = q BY <2>1, <2>2, <2>3, PartingKept
    <2>4. CASE p # q
      <3>1. ToSet(wire'[q][p]) \subseteq ToSet(wire[q][p]) BY <1>2, <2>1, <2>4
      <3>2. /\ t.younger = slot[p][q].younger /\ (MaySend(t) => MaySend(slot[p][q]))
            /\ Dismissed(t) => Dismissed(slot[p][q]) \/ ToSet(wire[q][p]) \cap Dismissal # {}
            /\ ToSet(msgs) \cap Farewell # {} =>
                 MaySend(slot[p][q]) /\ ~MaySend(t) /\ \E m : ToSet(msgs) = {m}
        BY <1>a DEF s
      <3>3. wire'[p][q] = wire[p][q] \o Carried(p, q, msgs) BY <2>1 DEF more
      <3>4. \A a, b \in Peer : <<a, b>> \notin {<<p, q>>, <<q, p>>} => wire'[a][b] = wire[a][b]
        BY <2>1
      <3>5. slot' = [slot EXCEPT ![p][q] = t] BY <1>a
      <3> QED BY <1>2, <2>4, <3>1, <3>2, <3>3, <3>4, <3>5, PartingOnSpeak
    <2> QED BY <2>3, <2>4
  <1>b. [slot EXCEPT ![p][q] = s] = slot
    <2> HIDE DEF c, q
    <2> QED BY <1>2, <1>4
  <1>5. CASE RunSend(p)
    <2> DEFINE leave == c.do = "DISCONNECT"
               msgs == Sending(s, IF leave THEN <<"DISCONNECTION">> ELSE <<c.do>>)
               t == IF leave /\ Active(p, q) THEN [s EXCEPT !.mode = "DISCONNECT_ASAP"] ELSE s
    <2>1. /\ wire' = [wire EXCEPT ![p][q] = @ \o Carried(p, q, msgs)]
          /\ c.do \in DataKinds \cup {"DISCONNECT"}
          /\ slot' = IF leave /\ Active(p, q)
                     THEN [slot EXCEPT ![p][q].mode = "DISCONNECT_ASAP"] ELSE slot
      BY <1>5 DEF RunSend
    <2>2. slot' = [slot EXCEPT ![p][q] = t]
      <3> HIDE DEF c, q
      <3> QED BY <1>2, <1>4, <1>b, <2>1
    <2>3. t \in RemoteSystem /\ t.younger = s.younger /\ (MaySend(t) => MaySend(s))
          /\ (Dismissed(t) => Dismissed(s)) /\ (leave /\ MaySend(s) => ~MaySend(t))
      <3> HIDE DEF c, q
      <3> QED BY <1>3 DEF RemoteSystem, MaySend, Closing, Dismissed, ConnectMode, Active
    <2>4. c.do # "DISCONNECT" => c.do \in {"DATA_ORDERED", "DATA_UNORDERED"} BY <2>1, PeerAssumption
    <2>5. msgs \in Seq(OnlineType) /\ (~leave => ToSet(msgs) \cap Farewell = {})
          /\ (ToSet(msgs) # {} => MaySend(s)) /\ (MaySend(s) => \E m : ToSet(msgs) = {m})
      <3> DEFINE word == IF leave THEN "DISCONNECTION" ELSE c.do
      <3>1. word \in OnlineType /\ (~leave => word \notin Farewell)
        BY <2>4 DEF OnlineType, Farewell, Dismissal
      <3>2. msgs = Sending(s, <<word>>) OBVIOUS
      <3> HIDE DEF word, msgs, s, c
      <3>3. <<>> \in Seq(OnlineType) /\ ToSet(<<>>) = {} BY DEF ToSet
      <3>4. <<word>> \in Seq(OnlineType) /\ ToSet(<<word>>) = {word} BY <3>1 DEF ToSet
      <3>5. msgs = IF MaySend(s) THEN <<word>> ELSE <<>> BY <3>2 DEF Sending
      <3> QED BY <3>1, <3>3, <3>4, <3>5
    <2> HIDE DEF t, msgs, s, q, c
    <2>6. ToSet(msgs) \cap Farewell # {} => MaySend(s) /\ ~MaySend(t) /\ \E m : ToSet(msgs) = {m}
      BY <2>3, <2>5
    <2> QED BY <1>a, <2>1, <2>2, <2>3, <2>5, <2>6
  <1>6. CASE RunSessionDecision(p)
    <2>1. CASE ~AwaitsDecision(s)
      <3>1. UNCHANGED <<slot, wire>> BY <1>6, <2>1 DEF RunSessionDecision
      <3> QED BY <3>1, PartingKept
    <2>2. MaySend(s) \/ ~AwaitsDecision(s) BY DEF AwaitsDecision, MaySend, Closing
    <2>3. CASE AwaitsDecision(s) /\ c.do = "ACCEPT" /\ MayAccept(p)
      <3> DEFINE t == Accepted(s)
      <3>1. /\ slot' = [slot EXCEPT ![p][q] = t]
            /\ wire' = [wire EXCEPT ![p][q] = @ \o Carried(p, q, <<"CONFIG">>)]
        BY <1>6, <2>3 DEF RunSessionDecision
      <3>2. t \in RemoteSystem /\ t.younger = s.younger /\ ~Dismissed(t)
        BY <1>3 DEF RemoteSystem, Accepted, Established, Dismissed, ConnectMode
      <3>3. <<"CONFIG">> \in Seq(OnlineType) BY DEF OnlineType
      <3>4. ToSet(<<"CONFIG">>) \cap Farewell = {} BY DEF ToSet, Farewell, Dismissal
      <3> HIDE DEF t, s, q, c
      <3> QED BY <1>a, <2>2, <2>3, <3>1, <3>2, <3>3, <3>4
    <2>4. CASE AwaitsDecision(s) /\ ~(c.do = "ACCEPT" /\ MayAccept(p))
      <3> DEFINE t == Rejected(s)
      <3>1. /\ slot' = [slot EXCEPT ![p][q] = t]
            /\ wire' = [wire EXCEPT ![p][q] = @ \o Carried(p, q, <<"REJECTED">>)]
        BY <1>6, <2>4 DEF RunSessionDecision
      <3>2. t \in RemoteSystem /\ t.younger = s.younger /\ ~Dismissed(t) /\ ~MaySend(t)
        BY <1>3 DEF RemoteSystem, Rejected, MaySend, Closing, Dismissed, ConnectMode
      <3>3. <<"REJECTED">> \in Seq(OnlineType) BY DEF OnlineType
      <3>4. ToSet(<<"REJECTED">>) = {"REJECTED"} BY DEF ToSet
      <3> HIDE DEF t, s, q, c
      <3> QED BY <1>a, <2>2, <2>4, <3>1, <3>2, <3>3, <3>4
    <2> QED BY <2>1, <2>3, <2>4
  <1>7. CASE RunSessionStatus(p)
    <2>1. slot' = slot /\ wire' = [wire EXCEPT ![p][q] = @ \o
            (IF AwaitsDecision(s) /\ ~s.connecting THEN Carried(p, q, <<"STATUS">>) ELSE <<>>)]
      BY <1>7 DEF RunSessionStatus
    <2> HIDE DEF s, q, c
    <2>2. CASE AwaitsDecision(s) /\ ~s.connecting
      <3>1. <<"STATUS">> \in Seq(OnlineType) BY DEF OnlineType
      <3>2. ToSet(<<"STATUS">>) \cap Farewell = {} BY DEF ToSet, Farewell, Dismissal
      <3>3. wire' = [wire EXCEPT ![p][q] = @ \o Carried(p, q, <<"STATUS">>)] BY <2>1, <2>2
      <3> QED BY <1>3, <1>a, <1>b, <2>1, <3>1, <3>2, <3>3
    <2>3. CASE ~(AwaitsDecision(s) /\ ~s.connecting)
      <3>1. wire' = [wire EXCEPT ![p][q] = @ \o <<>>] BY <2>1, <2>3
      <3>2. wire[p][q] \in Seq(OnlineType) BY <1>2, <1>4
      <3>3. wire[p][q] \o <<>> = wire[p][q] BY <3>2
      <3>4. \A a, b \in Peer : wire'[a][b] = wire[a][b] BY <1>2, <1>4, <3>1, <3>3
      <3> QED BY <2>1, <3>4, PartingKept
    <2> QED BY <2>2, <2>3
  <1>8. CASE RunClose(p)
    <2>1. (CloseSlot(p, q) /\ Active(p, q)) \/ UNCHANGED <<slot, wire>> BY <1>8 DEF RunClose
    <2> HIDE DEF s, q, c
    <2>2. CASE CloseSlot(p, q) /\ Active(p, q) BY <1>2, <2>2, ActiveDistinct, PartingOnClose
    <2>3. CASE UNCHANGED <<slot, wire>> BY <2>3, PartingKept
    <2> QED BY <2>1, <2>2, <2>3
  <1> QED BY <1>5, <1>6, <1>7, <1>8 DEF CommandStep

(* An offline datagram keeps what is known of partings.                     *)
LEMMA PartingOfflineStep ==
  ASSUME NoCrossDials, Sound, Parting, NEW p \in Peer, NEW q \in Peer, OfflineStep(p, q)
  PROVE  Parting'
  <1>1. ASSUME UNCHANGED <<slot, wire>> PROVE Parting' BY <1>1, PartingKept
  <1>2. CASE OnOpenConnectionRequest2(p, q) /\ ~UNCHANGED <<slot, wire>>
    <2>1. TakeSlot(p, q, Assigned, <<>>) BY <1>2 DEF OnOpenConnectionRequest2
    <2>2. Datagram("REQUEST_2", q, p) \in offline BY <1>2 DEF OnOpenConnectionRequest2, Arrives
    <2>3. <<q, p>> \in Dials BY <2>2 DEF Sound, RequestsSound, Datagram
    <2>4. p # q BY <2>3, PeerAssumption
    <2>5. Assigned \in RemoteSystem /\ ~Dismissed(Assigned)
      BY DEF Assigned, Inactive, RemoteSystem, ConnectMode, Handshaking, Dismissed
    <2>6. <<>> \in Seq(OnlineType) /\ ToSet(<<>>) \cap Farewell = {} BY DEF ToSet
    <2> QED BY <2>1, <2>4, <2>5, <2>6, PartingOnTake
  <1>3. CASE OnOpenConnectionReply2(p, q) /\ ~UNCHANGED <<slot, wire>>
    <2>1. SlotSound(p, q, slot[p][q], Pending(p, q)) BY PairFacts
    <2>2. Pending(p, q) BY <1>3 DEF OnOpenConnectionReply2
    <2>3. ~Active(p, q) /\ <<p, q>> \in Dials BY <2>1, <2>2 DEF SlotSound, Active
    <2>4. p # q BY <2>3, PeerAssumption
    <2>5. TakeSlot(p, q, Requesting(Assigned), <<"CONNECTION_REQUEST">>)
      BY <1>3, <2>3 DEF OnOpenConnectionReply2
    <2>6. Requesting(Assigned) \in RemoteSystem /\ ~Dismissed(Requesting(Assigned))
      BY DEF Assigned, Inactive, RemoteSystem, ConnectMode, Handshaking, Requesting, Dismissed
    <2>7. <<"CONNECTION_REQUEST">> \in Seq(OnlineType) BY DEF OnlineType
    <2>8. ToSet(<<"CONNECTION_REQUEST">>) \cap Farewell = {} BY DEF ToSet, Farewell, Dismissal
    <2> QED BY <2>4, <2>5, <2>6, <2>7, <2>8, PartingOnTake
  <1>4. CASE UNCHANGED <<slot, wire>> BY <1>1, <1>4
  <1> QED BY <1>2, <1>3, <1>4
          DEF OfflineStep, OnOpenConnectionRequest1, OnOpenConnectionReply1, OnRefusal, OnBannedDatagram

(* Nobody parts before the first call.                                      *)
LEMMA PartingInit == Init => Parting
  <1> SUFFICES ASSUME Init, NEW p \in Peer, NEW q \in Peer
               PROVE  PartingSound(ToSet(wire[p][q]), slot[p][q], slot[q][p])
    BY DEF Parting
  <1>1. slot[p][q] = Inactive /\ slot[q][p] = Inactive /\ wire[p][q] = <<>> BY DEF Init
  <1>2. ToSet(wire[p][q]) = {} BY <1>1 DEF ToSet
  <1> QED BY <1>1, <1>2 DEF PartingSound, Inactive, Dismissed

(* The invariant is kept by every step.                                    *)
LEMMA SoundNext ==
  ASSUME NoCrossDials, Sound, Parting, [Next]_vars PROVE Sound' /\ Parting'
  <1>1. CASE UNCHANGED vars
    <2>1. UNCHANGED <<requested, slot, offline, wire, commands, drain, app, misreports>>
      BY <1>1 DEF vars
    <2>2. \A a, b \in Peer : PairSound(a, b)' <=> PairSound(a, b)
      BY <2>1, Zenon DEF PairSound, Pending
    <2>3. SpeechSound' /\ RequestsSound' /\ ReportsMakeSense' BY <2>1, SpeechKept, RequestsKept, SilentOK
    <2>4. TypeOK' BY <1>1, TypeNext DEF Sound
    <2>5. Parting' BY <2>1, PartingKept
    <2> QED BY <2>2, <2>3, <2>4, <2>5 DEF Sound
  <1>2. ASSUME NEW p \in Peer, CommandStep(p) PROVE Sound' /\ Parting'
    BY <1>2, SoundCommandStep, PartingCommandStep
  <1>3. ASSUME NEW p \in Peer, NEW q \in Peer, UserStep(p, q) PROVE Sound' /\ Parting'
    <2>1. UNCHANGED <<slot, wire>>
      BY <1>3 DEF UserStep, Connect, CancelConnectionAttempt, CloseConnection, AnswerSession,
                  SendSessionStatus, Send
    <2> QED BY <1>3, <2>1, SoundUserStep, PartingKept
  <1>4. ASSUME NEW p \in Peer, NEW q \in Peer, OfflineStep(p, q) PROVE Sound' /\ Parting'
    BY <1>4, SoundOfflineStep, PartingOfflineStep
  <1>5. ASSUME NEW p \in Peer, NEW q \in Peer, OnlineStep(p, q) PROVE Sound' /\ Parting'
    BY <1>5, SoundOnlineStep, PartingOnlineStep
  <1>6. ASSUME NEW p \in Peer, NEW q \in Peer,
               \/ SendOpenConnectionRequest(p, q) \/ ConnectionAttemptFailed(p, q)
               \/ DropConnection(p, q) \/ SessionTimeout(p, q) \/ BanExpires(p, q)
        PROVE  Sound' /\ Parting'
    <2>1. UNCHANGED <<slot, wire>> \/ (CloseSlot(p, q) /\ Active(p, q))
      BY <1>6 DEF SendOpenConnectionRequest, ConnectionAttemptFailed, DropConnection,
                  SessionTimeout, BanExpires, FailureCondition, Active, Handshaking
    <2>2. Parting' BY <2>1, PartingKept, PartingOnClose, ActiveDistinct
    <2> QED BY <1>6, <2>2, SoundTimerStep
  <1> QED BY <1>1, <1>2, <1>3, <1>4, <1>5, <1>6 DEF Next

(* The invariant holds throughout, when no two peers dial each other.       *)
LEMMA SoundAlways == NoCrossDials /\ Spec => [](Sound /\ Parting)
  <1>1. NoCrossDials /\ Init => Sound /\ Parting BY SoundInit, PartingInit
  <1>2. NoCrossDials /\ Sound /\ Parting /\ [Next]_vars => Sound' /\ Parting' BY SoundNext
  <1>3. NoCrossDials => NoCrossDials' BY DEF NoCrossDials
  <1> QED BY <1>1, <1>2, <1>3, PTL DEF Spec

(* An application that was told of a connection has the slot that was      *)
(* reported, whichever timer, message or call closes or reuses the slot    *)
(* first (peer.cpp, CloseConnectionInternal2 and RunUpdateCycle).          *)
THEOREM UpMeansOpenAlways == NoCrossDials /\ Spec => []UpMeansOpen
  <1>1. Sound => UpMeansOpen BY DEF Sound, PairSound, ViewSound, UpMeansOpen
  <1> QED BY <1>1, SoundAlways, PTL

(* A session request an application still holds is that of the slot in     *)
(* hand (ProduceSessionAbandoned): its answer cannot reach another one.    *)
THEOREM HeldMeansWaitingAlways == NoCrossDials /\ Spec => []HeldMeansWaiting
  <1>1. Sound => HeldMeansWaiting BY DEF Sound, PairSound, ViewSound, HeldMeansWaiting
  <1> QED BY <1>1, SoundAlways, PTL

(* No connection is reported twice, and none is reported lost, closed or   *)
(* failed that the application neither had nor had asked for (peer.cpp,    *)
(* RunUpdateCycle and CloseConnectionInternal2), whatever data the         *)
(* applications send meanwhile.                                            *)
THEOREM ReportsMakeSenseAlways == NoCrossDials /\ Spec => []ReportsMakeSense
  <1>1. Sound => ReportsMakeSense BY DEF Sound
  <1> QED BY <1>1, SoundAlways, PTL

-----------------------------------------------------------------------------
(* The limit of incoming connections                                       *)

(* The peers that are dialled let their application decide.                *)
AsksFirst == \A d \in Dials : d[2] \in Interactive

Place(s) == ~s.initiated /\ s.mode = "CONNECTED"
NoNewPlace == \A a, b \in Peer : Place(slot'[a][b]) => Place(slot[a][b])

(* A step on one slot takes a place only there.                             *)
LEMMA PlaceOn ==
  ASSUME NEW p \in Peer, NEW q \in Peer, SlotFrame(p, q), Place(slot'[p][q]) => Place(slot[p][q])
  PROVE  NoNewPlace
  <1> SUFFICES ASSUME NEW a \in Peer, NEW b \in Peer, <<a, b>> # <<p, q>>
               PROVE  Place(slot'[a][b]) => Place(slot[a][b])
    BY DEF NoNewPlace
  <1>1. <<a, b>> \in Elsewhere(p, q) /\ <<a, b>>[1] = a /\ <<a, b>>[2] = b BY DEF Elsewhere
  <1>2. SameSlot(slot'[a][b], slot[a][b]) BY <1>1, Zenon DEF SlotFrame
  <1> QED BY <1>2 DEF SameSlot, Place

(* Only a decision of the application gives a remote-initiated slot one of *)
(* the places.                                                             *)
LEMMA PlaceOnlineStep ==
  ASSUME NoCrossDials, AsksFirst, Sound, NEW p \in Peer, NEW q \in Peer, OnlineStep(p, q)
  PROVE  NoNewPlace
  <1> DEFINE s == slot[p][q]
  <1>0. TypeOK /\ s \in RemoteSystem BY PairFacts
  <1>a. ASSUME NEW m, NEW t, NEW msgs, Process(p, q, m, t, msgs), Place(t) => Place(s)
        PROVE  NoNewPlace
    <2>a. slot' = [slot EXCEPT ![p][q] = t] BY <1>a DEF Process
    <2>1. SlotFrame(p, q) /\ slot'[p][q] = t BY <1>0, <2>a, SetEffect
    <2> QED BY <1>a, <2>1, PlaceOn
  <1>1. CASE OnConnectionRequest(p, q)
    <2> DEFINE parse == s.mode \in {"UNVERIFIED_SENDER", "REQUESTED_CONNECTION"}
               Left(wrong) == CASE wrong -> [s EXCEPT !.mode = "DISCONNECT_ASAP_SILENTLY"]
                                [] parse /\ ~wrong ->
                                     [s EXCEPT !.mode = "HANDLING_CONNECTION_REQUEST"]
                                [] OTHER -> s
    <2>1. PICK wrong \in BOOLEAN : \E msgs : Process(p, q, "CONNECTION_REQUEST", Left(wrong), msgs)
      BY <1>1 DEF OnConnectionRequest
    <2>2. Place(Left(wrong)) => Place(s) BY <1>0 DEF RemoteSystem, Place
    <2> HIDE DEF Left, s
    <2> QED BY <1>a, <2>1, <2>2
  <1>2. CASE OnNonsense(p, q)
    <2>1. SlotFrame(p, q) /\ slot'[p][q] = Inactive BY <1>0, <1>2, CloseEffect DEF OnNonsense
    <2>2. ~Place(Inactive) BY DEF Place, Inactive
    <2> QED BY <2>1, <2>2, PlaceOn
  <1>3. CASE OnNewIncomingConnection(p, q)
    <2> DEFINE t == IF s.mode = "HANDLING_CONNECTION_REQUEST"
                    THEN [ClearSessionConfig(s) EXCEPT !.mode = "EXCHANGING_SESSION_DATA"] ELSE s
    <2>1. Process(p, q, "NEW_INCOMING", t, <<>>) BY <1>3 DEF OnNewIncomingConnection
    <2>2. Place(t) => Place(s) BY <1>0 DEF RemoteSystem, ClearSessionConfig, Place
    <2> HIDE DEF t, s
    <2> QED BY <1>a, <2>1, <2>2
  <1>4. CASE OnConnectionRequestAccepted(p, q)
    <2> DEFINE allow == s.mode \in {"HANDLING_CONNECTION_REQUEST", "REQUESTED_CONNECTION"}
               t == IF allow THEN [ClearSessionConfig(s) EXCEPT
                                     !.mode = "EXCHANGING_SESSION_DATA", !.connecting = TRUE]
                             ELSE s
               msgs == IF allow THEN <<"NEW_INCOMING", "CONFIG_REQUEST">> ELSE <<>>
    <2>1. Process(p, q, "REQUEST_ACCEPTED", t, msgs) BY <1>4 DEF OnConnectionRequestAccepted
    <2>2. Place(t) => Place(s) BY <1>0 DEF RemoteSystem, ClearSessionConfig, Place
    <2> HIDE DEF t, s, msgs
    <2> QED BY <1>a, <2>1, <2>2
  <1>5. CASE OnDisconnectionNotification(p, q)
    <2> DEFINE t == [s EXCEPT !.mode = "DISCONNECT_ON_NO_ACK"]
    <2>1. Process(p, q, "DISCONNECTION", t, <<>>) BY <1>5 DEF OnDisconnectionNotification
    <2>2. ~Place(t) BY <1>0 DEF RemoteSystem, Place
    <2> HIDE DEF t, s
    <2> QED BY <1>a, <2>1, <2>2
  <1>6. CASE OnSessionConfigRequest(p, q)
    <2> DEFINE exchange == s.mode = "EXCHANGING_SESSION_DATA" /\ ~s.awaiting
               ask == exchange /\ p \in Interactive
               answer == exchange /\ p \notin Interactive
               t == CASE ask -> [s EXCEPT !.awaiting = TRUE]
                      [] answer -> Established(s) [] OTHER -> s
               msgs == IF answer THEN <<"CONFIG">> ELSE <<>>
    <2>1. Process(p, q, "CONFIG_REQUEST", t, msgs) BY <1>6 DEF OnSessionConfigRequest
    <2>2. p \in Interactive
      <3>1. "CONFIG_REQUEST" \in Speech(q, p) BY <2>1, Heard
      <3>2. <<q, p>> \in Dials BY <3>1 DEF Speech, DialerSays
      <3> QED BY <3>2 DEF AsksFirst
    <2>3. Place(t) => Place(s) BY <1>0, <2>2 DEF RemoteSystem, Place
    <2> HIDE DEF t, s, msgs
    <2> QED BY <1>a, <2>1, <2>3
  <1>7. CASE OnSessionConfig(p, q)
    <2> DEFINE t == IF AwaitsAnswer(s) THEN Established(s) ELSE s
    <2>1. Process(p, q, "CONFIG", t, <<>>) BY <1>7 DEF OnSessionConfig
    <2>2. AwaitsAnswer(s) => s.initiated
      <3>1. SlotSound(p, q, s, FALSE) /\ s.mode # "INACTIVE" BY <2>1, ProcessFacts
      <3> HIDE DEF s
      <3> QED BY <3>1 DEF SlotSound, AwaitsAnswer, NoCrossDials
    <2>3. Place(t) => Place(s) BY <1>0, <2>2 DEF RemoteSystem, Established, Place
    <2> HIDE DEF t, s
    <2> QED BY <1>a, <2>1, <2>3
  <1>8. CASE OnSessionConfigStatus(p, q) \/ OnApplicationData(p, q)
    <2>1. \E m : Process(p, q, m, s, <<>>)
      BY <1>8 DEF OnSessionConfigStatus, OnApplicationData
    <2> QED BY <1>a, <2>1
  <1>9. CASE OnSessionConfigRejected(p, q) \/ OnInvalidPassword(p, q)
    <2>1. PICK m, when : Process(p, q, m, Silenced(s, when), <<>>)
      BY <1>9 DEF OnSessionConfigRejected, OnInvalidPassword
    <2> DEFINE t == Silenced(s, when)
    <2>2. Place(t) => Place(s) BY <1>0 DEF RemoteSystem, Silenced, Place
    <2> HIDE DEF t, s
    <2> QED BY <1>a, <2>1, <2>2 DEF t
  <1> QED BY <1>1, <1>2, <1>3, <1>4, <1>5, <1>6, <1>7, <1>8, <1>9 DEF OnlineStep

(* A command takes a place only where MayAccept allows it.                  *)
LEMMA PlaceCommandStep ==
  ASSUME Sound, NEW p \in Peer, CommandStep(p)
  PROVE  NoNewPlace \/ (MayAccept(p) /\ \E q \in Peer : SlotFrame(p, q))
  <1> DEFINE c == Head(commands[p])
             q == c.to
             s == slot[p][q]
  <1>1. TypeOK BY DEF Sound
  <1>2. TakeCommand(p) /\ q \in Peer
    <2>1. TakeCommand(p)
      BY DEF CommandStep, RunSend, RunSessionDecision, RunSessionStatus, RunClose
    <2> QED BY <1>1, <2>1, TakeCommandType
  <1>3. s \in RemoteSystem /\ slot \in [Peer -> [Peer -> RemoteSystem]]
    BY <1>1, <1>2, PairFacts DEF TypeOK
  <1>a. ASSUME UNCHANGED slot PROVE NoNewPlace BY <1>a DEF NoNewPlace
  <1>b. ASSUME NEW t, slot' = [slot EXCEPT ![p][q] = t], ~Place(t) PROVE NoNewPlace
    <2> HIDE DEF c, q
    <2>1. SlotFrame(p, q) /\ slot'[p][q] = t BY <1>1, <1>2, <1>b, SetEffect
    <2> QED BY <1>2, <1>b, <2>1, PlaceOn
  <1>4. CASE RunSend(p)
    <2>1. slot' = slot \/ slot' = [slot EXCEPT ![p][q].mode = "DISCONNECT_ASAP"]
      BY <1>4 DEF RunSend
    <2> DEFINE t == [s EXCEPT !.mode = "DISCONNECT_ASAP"]
    <2>2. CASE slot' = [slot EXCEPT ![p][q].mode = "DISCONNECT_ASAP"]
      <3>1. slot' = [slot EXCEPT ![p][q] = t]
        <4> HIDE DEF c, q
        <4> QED BY <1>2, <1>3, <2>2
      <3>2. ~Place(t) BY <1>3 DEF Place, RemoteSystem
      <3> HIDE DEF t, s, q, c
      <3> QED BY <1>b, <3>1, <3>2
    <2> QED BY <1>a, <2>1, <2>2
  <1>5. CASE RunSessionDecision(p)
    <2>1. CASE ~AwaitsDecision(s) BY <1>5, <1>a, <2>1 DEF RunSessionDecision
    <2>2. CASE AwaitsDecision(s) /\ c.do = "ACCEPT" /\ MayAccept(p)
      <3> DEFINE t == Accepted(s)
      <3>1. slot' = [slot EXCEPT ![p][q] = t] BY <1>5, <2>2 DEF RunSessionDecision
      <3> HIDE DEF t, s, q, c
      <3>2. SlotFrame(p, q) BY <1>1, <1>2, <3>1, SetEffect
      <3> QED BY <1>2, <2>2, <3>2
    <2>3. CASE AwaitsDecision(s) /\ ~(c.do = "ACCEPT" /\ MayAccept(p))
      <3> DEFINE t == Rejected(s)
      <3>1. slot' = [slot EXCEPT ![p][q] = t] BY <1>5, <2>3 DEF RunSessionDecision
      <3>2. ~Place(t) BY <1>3 DEF Place, Rejected, RemoteSystem
      <3> HIDE DEF t, s, q, c
      <3> QED BY <1>b, <3>1, <3>2
    <2> QED BY <2>1, <2>2, <2>3
  <1>6. CASE RunSessionStatus(p) BY <1>6, <1>a DEF RunSessionStatus
  <1>7. CASE RunClose(p)
    <2>1. slot' = [slot EXCEPT ![p][q] = Inactive] \/ slot' = slot
      BY <1>7 DEF RunClose, CloseSlot
    <2>2. ~Place(Inactive) BY DEF Place, Inactive
    <2> HIDE DEF c, q
    <2> QED BY <1>a, <1>b, <2>1, <2>2
  <1> QED BY <1>4, <1>5, <1>6, <1>7 DEF CommandStep

(* Every step that takes a place was allowed to by MayAccept.               *)
LEMMA PlaceNext ==
  ASSUME NoCrossDials, AsksFirst, Sound, [Next]_vars
  PROVE  NoNewPlace \/ \E p \in Peer : MayAccept(p) /\ \E q \in Peer : SlotFrame(p, q)
  <1>0. TypeOK BY DEF Sound
  <1>a. ASSUME UNCHANGED slot PROVE NoNewPlace BY <1>a DEF NoNewPlace
  <1>1. CASE UNCHANGED vars BY <1>1, <1>a DEF vars
  <1>2. ASSUME NEW p \in Peer, CommandStep(p)
        PROVE  NoNewPlace \/ (MayAccept(p) /\ \E q \in Peer : SlotFrame(p, q))
    BY <1>2, PlaceCommandStep
  <1>3. ASSUME NEW p \in Peer, NEW q \in Peer, UserStep(p, q) PROVE NoNewPlace
    BY <1>3, <1>a DEF UserStep, Connect, CancelConnectionAttempt, CloseConnection, AnswerSession,
                      SendSessionStatus, Send
  <1>4. ASSUME NEW p \in Peer, NEW q \in Peer, OfflineStep(p, q) PROVE NoNewPlace
    <2>1. CASE OnOpenConnectionRequest2(p, q) /\ ~UNCHANGED slot
      <3>1. TakeSlot(p, q, Assigned, <<>>) BY <2>1 DEF OnOpenConnectionRequest2
      <3>2. Datagram("REQUEST_2", q, p) \in offline BY <2>1 DEF OnOpenConnectionRequest2, Arrives
      <3>3. <<q, p>> \in Dials BY <3>2 DEF Sound, RequestsSound, Datagram
      <3>4. p # q BY <3>3, PeerAssumption
      <3>5. Assigned \in RemoteSystem /\ ~Place(Assigned)
        BY DEF Assigned, Inactive, RemoteSystem, ConnectMode, Handshaking, Place
      <3>6. SlotFrame(p, q) /\ SameSlot(slot'[p][q], Assigned)
        BY <1>0, <3>1, <3>4, <3>5, TakeSlotEffect
      <3>7. ~Place(slot'[p][q]) BY <3>5, <3>6 DEF SameSlot, Place
      <3> QED BY <3>6, <3>7, PlaceOn
    <2>2. CASE OnOpenConnectionReply2(p, q) /\ ~UNCHANGED slot
      <3>1. SlotSound(p, q, slot[p][q], Pending(p, q)) BY PairFacts
      <3>2. Pending(p, q) BY <2>2 DEF OnOpenConnectionReply2
      <3>3. ~Active(p, q) /\ <<p, q>> \in Dials BY <3>1, <3>2 DEF SlotSound, Active
      <3>4. p # q BY <3>3, PeerAssumption
      <3>5. TakeSlot(p, q, Requesting(Assigned), <<"CONNECTION_REQUEST">>)
        BY <2>2, <3>3 DEF OnOpenConnectionReply2
      <3>6. Requesting(Assigned) \in RemoteSystem /\ ~Place(Requesting(Assigned))
        BY DEF Assigned, Inactive, RemoteSystem, ConnectMode, Handshaking, Requesting, Place
      <3>7. SlotFrame(p, q) /\ SameSlot(slot'[p][q], Requesting(Assigned))
        BY <1>0, <3>4, <3>5, <3>6, TakeSlotEffect
      <3>8. ~Place(slot'[p][q]) BY <3>6, <3>7 DEF SameSlot, Place
      <3> QED BY <3>7, <3>8, PlaceOn
    <2> QED BY <1>4, <1>a, <2>1, <2>2
            DEF OfflineStep, OnOpenConnectionRequest1, OnOpenConnectionReply1, OnRefusal, OnBannedDatagram
  <1>5. ASSUME NEW p \in Peer, NEW q \in Peer, OnlineStep(p, q) PROVE NoNewPlace
    BY <1>5, PlaceOnlineStep
  <1>6. ASSUME NEW p \in Peer, NEW q \in Peer,
               \/ SendOpenConnectionRequest(p, q) \/ ConnectionAttemptFailed(p, q)
               \/ DropConnection(p, q) \/ SessionTimeout(p, q) \/ BanExpires(p, q)
        PROVE  NoNewPlace
    <2>1. UNCHANGED slot \/ CloseSlot(p, q)
      BY <1>6 DEF SendOpenConnectionRequest, ConnectionAttemptFailed, DropConnection,
                  SessionTimeout, BanExpires
    <2>2. CASE CloseSlot(p, q)
      <3>1. SlotFrame(p, q) /\ slot'[p][q] = Inactive BY <1>0, <2>2, CloseEffect
      <3>2. ~Place(Inactive) BY DEF Place, Inactive
      <3> QED BY <3>1, <3>2, PlaceOn
    <2> QED BY <1>a, <2>1, <2>2
  <1> QED BY <1>1, <1>2, <1>3, <1>4, <1>5, <1>6 DEF Next

(* With a pool of pending sessions and applications that decide, no peer   *)
(* is ever connected to more remote-initiated ones than                    *)
(* SetMaximumIncomingConnections allows, however many sessions compete for *)
(* the places, and however late the decisions are carried out              *)
(* (SessionAdmission::MayAccept in BCS_SESSION_ACCEPT).                    *)
THEOREM IncomingLimitAlways ==
  NoCrossDials /\ AsksFirst /\ UsesPendingPool /\ IsFiniteSet(Peer) /\ Spec => []IncomingLimit
  <1> DEFINE Setting == NoCrossDials /\ AsksFirst /\ UsesPendingPool /\ IsFiniteSet(Peer)
  <1>1. Init => IncomingLimit
    <2> SUFFICES ASSUME Init, NEW p \in Peer PROVE Cardinality(ConnectedPeers(p)) <= MaxIncoming
      BY DEF IncomingLimit
    <2>1. ConnectedPeers(p) = {} BY DEF Init, Inactive, ConnectedPeers, RemoteInitiated
    <2> QED BY <2>1, FS_EmptySet, PeerAssumption
  <1>2. ASSUME Setting, Sound, IncomingLimit, [Next]_vars PROVE IncomingLimit'
    <2> SUFFICES ASSUME NEW a \in Peer PROVE Cardinality(ConnectedPeers(a)') <= MaxIncoming
      BY DEF IncomingLimit
    <2> DEFINE old == ConnectedPeers(a)
               new == ConnectedPeers(a)'
    <2>1. old = {b \in Peer : Place(slot[a][b])} /\ new = {b \in Peer : Place(slot'[a][b])}
      BY DEF ConnectedPeers, RemoteInitiated, Place
    <2>2. IsFiniteSet(old) /\ IsFiniteSet(new) /\ Cardinality(old) \in Nat /\ Cardinality(new) \in Nat
      <3>1. old \subseteq Peer /\ new \subseteq Peer BY <2>1
      <3> HIDE DEF old, new
      <3> QED BY <1>2, <3>1, FS_Subset, FS_CardinalityType
    <2>3. Cardinality(old) <= MaxIncoming BY <1>2 DEF IncomingLimit
    <2>4. new \subseteq old \/
            (Cardinality(old) < MaxIncoming /\ \E q \in Peer : new \subseteq old \cup {q})
      <3>1. CASE NoNewPlace BY <2>1, <3>1 DEF NoNewPlace
      <3>2. ASSUME NEW p \in Peer, MayAccept(p), NEW q \in Peer, SlotFrame(p, q)
            PROVE  new \subseteq old \/
                   (Cardinality(old) < MaxIncoming /\ new \subseteq old \cup {q})
        <4>1. ASSUME NEW b \in Peer, <<a, b>> # <<p, q>>, Place(slot'[a][b]) PROVE Place(slot[a][b])
          <5>1. <<a, b>> \in Elsewhere(p, q) /\ <<a, b>>[1] = a /\ <<a, b>>[2] = b
            BY <4>1 DEF Elsewhere
          <5>2. SameSlot(slot'[a][b], slot[a][b]) BY <3>2, <5>1, Zenon DEF SlotFrame
          <5> QED BY <4>1, <5>2 DEF SameSlot, Place
        <4>2. CASE a = p
          <5>1. Cardinality(old) < MaxIncoming BY <1>2, <3>2, <4>2 DEF MayAccept
          <5>2. new \subseteq old \cup {q} BY <2>1, <4>1, <4>2
          <5> QED BY <5>1, <5>2
        <4>3. CASE a # p BY <2>1, <4>1, <4>3
        <4> QED BY <4>2, <4>3
      <3> QED BY <1>2, <3>1, <3>2, PlaceNext
    <2> HIDE DEF old, new
    <2>5. CASE new \subseteq old
      <3>1. Cardinality(new) <= Cardinality(old) BY <2>2, <2>5, FS_Subset
      <3> QED BY <2>2, <2>3, <3>1, PeerAssumption DEF new
    <2>6. ASSUME NEW q \in Peer, Cardinality(old) < MaxIncoming, new \subseteq old \cup {q}
          PROVE  Cardinality(new) <= MaxIncoming
      <3>1. IsFiniteSet(old \cup {q}) /\ Cardinality(old \cup {q}) <= Cardinality(old) + 1
        <4>1. /\ IsFiniteSet(old \cup {q})
              /\ Cardinality(old \cup {q}) = IF q \in old THEN Cardinality(old) ELSE Cardinality(old) + 1
          BY <2>2, FS_AddElement
        <4> QED BY <2>2, <4>1
      <3>2. Cardinality(new) <= Cardinality(old \cup {q}) /\ Cardinality(old \cup {q}) \in Nat
        BY <2>6, <3>1, FS_Subset, FS_CardinalityType
      <3> QED BY <2>2, <2>6, <3>1, <3>2, PeerAssumption
    <2> QED BY <2>4, <2>5, <2>6 DEF new
  <1>3. Setting => NoCrossDials /\ Setting' BY DEF NoCrossDials, AsksFirst, UsesPendingPool
  <1> HIDE DEF Setting
  <1>4. Setting /\ Spec => []IncomingLimit BY <1>1, <1>2, <1>3, SoundAlways, PTL DEF Spec
  <1> QED BY <1>4 DEF Setting

=============================================================================
