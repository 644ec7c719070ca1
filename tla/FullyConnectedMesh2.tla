------------------------ MODULE FullyConnectedMesh2 ------------------------
(***************************************************************************)
(* The host election of the FullyConnectedMesh2 plugin                     *)
(* (Source/src/fully_connected_mesh2.cpp).  Every peer gives itself a      *)
(* number, higher the later it joined, tells it to the peers it is         *)
(* connected to, and takes the one with the lowest number for the host.    *)
(* Messages travel reliable ordered between two connected peers; each end  *)
(* learns of a new and of a lost connection in its own time.  The verified *)
(* join of a whole mesh, the user context and restarts are not modelled.   *)
(***************************************************************************)
EXTENDS Integers, SequencesExt

CONSTANTS
  Peer,         \* the peers
  Elder,        \* Elder[p]: startupTime of p, as a rank
  Dials,        \* pairs <<p, q>>: p calls Connect to q
  Resetter,     \* the peers that call ResetHostCalculation
  RandomSpan,   \* 2^32, the values of the random part of an FCM2Guid
  Chance,       \* Chance[p]: the random parts p may draw
  LinkBudget,   \* bound: connections made
  UpsetBudget   \* bound: connections lost and calls of ResetHostCalculation

ASSUME MeshAssumption ==
  /\ IsFiniteSet(Peer)
  /\ Elder \in [Peer -> Nat] /\ IsInjective(Elder)
  /\ Dials \subseteq Peer \X Peer /\ \A d \in Dials : d[1] # d[2]
  /\ RandomSpan \in Nat \ {0} /\ Chance \in [Peer -> SUBSET (0..(RandomSpan - 1))]
  /\ \A p, q \in Peer : p # q => Chance[p] \cap Chance[q] = {}
  /\ Resetter \subseteq Peer /\ LinkBudget \in Nat /\ UpsetBudget \in Nat

VARIABLES
  list,     \* list[p][q]: fcm2Guid of q in p's fcm2ParticipantList
  guid,     \* ourFCMGuid, Unassigned at first
  total,    \* totalConnectionCount
  host,     \* hostRakNetGuid
  pushed,   \* lastPushedHost
  started,  \* startupTime, as a rank
  linked,   \* linked[p]: the peers p is connected to
  dialing,  \* pairs <<p, q>>: q has accepted p, p has not learned of it yet
  wire,     \* wire[p][q]: messages from p that q has not handled
  excused,  \* ghost: peers that reset, or lost a participant whose number
            \* they did not know, since they last announced a host
  budget    \* ghost: what may still happen

vars == <<list, guid, total, host, pushed, started, linked, dialing, wire,
          excused, budget>>

Absent == -1
Unassigned == 0
NoHost == "UNASSIGNED_RAKNET_GUID"

Init ==
  /\ list = [p \in Peer |-> [q \in Peer |-> Absent]]
  /\ guid = [p \in Peer |-> Unassigned]
  /\ total = [p \in Peer |-> 0]
  /\ host = [p \in Peer |-> NoHost] /\ pushed = [p \in Peer |-> NoHost]
  /\ started = Elder
  /\ linked = [p \in Peer |-> {}] /\ dialing = {}
  /\ wire = [p \in Peer |-> [q \in Peer |-> <<>>]]
  /\ excused = {}
  /\ budget = [link |-> LinkBudget, upset |-> UpsetBudget]

Spend(kind) == budget[kind] > 0 /\ budget' = [budget EXCEPT ![kind] = @ - 1]

-----------------------------------------------------------------------------
(* A peer while one of its handlers runs, and what it has sent.            *)
Self(p) ==
  [list |-> list[p], guid |-> guid[p], total |-> total[p], host |-> host[p],
   pushed |-> pushed[p], since |-> started[p],
   excused |-> p \in excused, out |-> [q \in Peer |-> <<>>]]
Participants(f) == {q \in Peer : f.list[q] # Absent}

Say(f, whom, m) ==
  [f EXCEPT !.out = [q \in Peer |-> IF q \in whom THEN Append(@[q], m) ELSE @[q]]]
Msg(t, g, n, s) == [type |-> t, guid |-> g, count |-> n, since |-> s]
(* SendFCMGuidRequest: the number, or how long the peer has been running.  *)
FCMGuidRequest(f) ==
  IF f.guid = Unassigned THEN Msg("REQUEST", Unassigned, 0, f.since)
  ELSE Msg("REQUEST", f.guid, f.total, 0)
SendOurFCMGuid(f, whom) == Say(f, whom, Msg("INFORM", f.guid, f.total, 0))
SendConnectionCountResponse(f, q, n) ==
  Say(f, {q}, Msg("RESPOND", Unassigned, n, 0))

(* Mutant: the lower count is kept.                                        *)
KeepLowerCount(f, n) == IF n < f.total THEN [f EXCEPT !.total = n] ELSE f
IncrementTotalConnectionCount(f, n) ==
  IF n > f.total THEN [f EXCEPT !.total = n] ELSE f

(* AssignOurFCMGuid: the count in the high half, chance in the low one.    *)
(* That two peers draw the same number is left out.                        *)
AssignOurFCMGuid(f, r) == [f EXCEPT !.guid = f.total * RandomSpan + r]

(* A known participant's new number replaces the old one; a new one is     *)
(* asked for its own.                                                      *)
AddParticipantInternal(f, q, g) ==
  CASE f.list[q] = Absent -> Say([f EXCEPT !.list[q] = g], {q}, FCMGuidRequest(f))
    [] f.list[q] # Absent /\ g # Unassigned -> [f EXCEPT !.list[q] = g]
    [] OTHER -> f

(* CalculateHost: the lowest number, its own included.  A peer without a   *)
(* number takes itself for the lowest (the assertion is not in a release   *)
(* build).                                                                 *)
CalculateHost(f, p) ==
  LET lower == {q \in Participants(f) : f.list[q] # Unassigned /\ f.list[q] < f.guid}
  IN  IF lower = {} THEN p
      ELSE CHOOSE q \in lower : \A r \in lower : f.list[q] <= f.list[r]
PushNewHost(f, h) == [f EXCEPT !.host = h, !.pushed = h, !.excused = FALSE]
ParticipantListComplete(f) == \A q \in Participants(f) : f.list[q] # Unassigned
(* Mutant: a host once announced is kept as long as it is connected.       *)
PushFirstHost(f, p) ==
  IF ParticipantListComplete(f) /\ f.pushed = NoHost
  THEN PushNewHost(f, CalculateHost(f, p)) ELSE f
CalculateAndPushHost(f, p) ==
  IF ParticipantListComplete(f) /\ CalculateHost(f, p) # f.pushed
  THEN PushNewHost(f, CalculateHost(f, p)) ELSE f

(* The handler ends with p in state f; w is the wire it found.  What is    *)
(* sent to a peer that has closed the connection is lost.                  *)
Listens(q, p) == p \in linked[q] \/ <<q, p>> \in dialing
Become(p, f, w) ==
  /\ list' = [list EXCEPT ![p] = f.list] /\ guid' = [guid EXCEPT ![p] = f.guid]
  /\ total' = [total EXCEPT ![p] = f.total] /\ host' = [host EXCEPT ![p] = f.host]
  /\ pushed' = [pushed EXCEPT ![p] = f.pushed]
  /\ wire' = [w EXCEPT ![p] = [q \in Peer |->
       @[q] \o IF q \in linked'[p] /\ (Listens(q, p) \/ <<q, p>> \in dialing')
               THEN f.out[q] ELSE <<>>]]
  /\ excused' = IF f.excused THEN excused \cup {p} ELSE excused \ {p}

-----------------------------------------------------------------------------
(* Messages                                                                *)

Arrives(p, q, t) == q \in linked[p] /\ wire[q][p] # <<>> /\ Head(wire[q][p]).type = t
Handle(p, q, f) ==
  /\ UNCHANGED <<started, linked, dialing, budget>>
  /\ Become(p, f, [wire EXCEPT ![q][p] = Tail(@)])
(* A peer without a number draws one and tells all its participants.       *)
Draws(f, p) == {AssignOurFCMGuid(f, r) : r \in Chance[p]}
Informed(f) == SendOurFCMGuid(f, Participants(f))

(* Of two peers without a number the older one, as far as the receiver can *)
(* tell, counts first.  The time the request took is taken for its own.    *)
ProbableCount(p, m) == IF started[p] < m.since THEN {2} ELSE {1, 2}
OnRequestFCMGuid(p, q) ==
  /\ Arrives(p, q, "REQUEST")
  /\ LET m == Head(wire[q][p])
         f == AddParticipantInternal(Self(p), q, m.guid)
         joined == IncrementTotalConnectionCount(f, m.count + 1)
         met == IncrementTotalConnectionCount(f, m.count)
     IN  \/ /\ guid[p] = Unassigned /\ m.guid = Unassigned
            /\ \E n \in ProbableCount(p, m) :
                 Handle(p, q, CalculateAndPushHost(SendConnectionCountResponse(f, q, n), p))
         \/ /\ guid[p] = Unassigned /\ m.guid # Unassigned
            /\ \E g \in Draws(joined, p) :
                 Handle(p, q, CalculateAndPushHost(Informed(g), p))
         \/ /\ guid[p] # Unassigned /\ m.guid = Unassigned
            /\ Handle(p, q, CalculateAndPushHost(
                              SendConnectionCountResponse(f, q, f.total + 1), p))
         \/ /\ guid[p] # Unassigned /\ m.guid # Unassigned
            /\ Handle(p, q, CalculateAndPushHost(SendOurFCMGuid(met, {q}), p))

(* The number is drawn with the count of the response, be it 1; what the   *)
(* others are told is at least 2.                                          *)
OnRespondConnectionCount(p, q) ==
  /\ Arrives(p, q, "RESPOND")
  /\ LET f == IncrementTotalConnectionCount(Self(p), Head(wire[q][p]).count)
     IN  IF guid[p] # Unassigned
         THEN Handle(p, q, IncrementTotalConnectionCount(f, 2))
         ELSE \E g \in Draws(f, p) :
                Handle(p, q, CalculateAndPushHost(
                               Informed(IncrementTotalConnectionCount(g, 2)), p))

(* The sender asked for this peer's number before, so it is a participant: *)
(* the code for one that is not, and the message                           *)
(* ID_FCM2_UPDATE_MIN_TOTAL_CONNECTION_COUNT it sends, are never used.     *)
OnInformFCMGuid(p, q) ==
  /\ Arrives(p, q, "INFORM")
  /\ LET m == Head(wire[q][p])
         f == AddParticipantInternal(
                IncrementTotalConnectionCount(Self(p), m.count), q, m.guid)
     IN  IF guid[p] # Unassigned
         THEN Handle(p, q, CalculateAndPushHost(f, p))
         ELSE \E g \in Draws(f, p) :
                Handle(p, q, CalculateAndPushHost(Informed(g), p))

OnReceive(p, q) ==
  \/ OnRequestFCMGuid(p, q) \/ OnRespondConnectionCount(p, q)
  \/ OnInformFCMGuid(p, q)

-----------------------------------------------------------------------------
(* Connections                                                             *)

(* OnNewConnection with autoParticipateConnections.  The accepting end     *)
(* ends the session exchange, so it learns of the connection first; the    *)
(* dialing one may not learn of it if it is gone again by then.            *)
Accept(p, q) ==
  /\ <<q, p>> \in Dials /\ Spend("link")
  /\ p \notin linked[q] /\ q \notin linked[p]
  /\ <<p, q>> \notin dialing /\ <<q, p>> \notin dialing
  /\ linked' = [linked EXCEPT ![p] = @ \cup {q}]
  /\ dialing' = dialing \cup {<<q, p>>} /\ UNCHANGED started
  /\ Become(p, AddParticipantInternal(Self(p), q, Unassigned),
            [wire EXCEPT ![p][q] = <<>>, ![q][p] = <<>>])
Accepted(p, q) ==
  /\ <<p, q>> \in dialing
  /\ linked' = [linked EXCEPT ![p] = @ \cup {q}]
  /\ dialing' = dialing \ {<<p, q>>} /\ UNCHANGED <<started, budget>>
  /\ Become(p, AddParticipantInternal(Self(p), q, Unassigned), wire)

AcceptLost(p, q) ==
  /\ <<p, q>> \in dialing /\ p \notin linked[q]
  /\ dialing' = dialing \ {<<p, q>>}
  /\ UNCHANGED <<list, guid, total, host, pushed, started, linked, wire, excused, budget>>

(* OnClosedConnection: only the loss of the host makes a peer calculate    *)
(* the host anew.                                                          *)
OnClosedConnection(p, q) ==
  /\ q \in linked[p]
  /\ IF p \in linked[q] \/ <<q, p>> \in dialing THEN Spend("upset") ELSE UNCHANGED budget
  /\ linked' = [linked EXCEPT ![p] = @ \ {q}]
  /\ UNCHANGED <<dialing, started>>
  /\ LET f == [Self(p) EXCEPT !.list[q] = Absent,
                              !.excused = @ \/ list[p][q] = Unassigned]
     IN  Become(p, IF list[p][q] # Absent /\ host[p] = q /\ guid[p] # Unassigned
                   THEN PushNewHost(f, CalculateHost(f, p)) ELSE f,
                [wire EXCEPT ![q][p] = <<>>])

(* What was last pushed to the application is kept.                        *)
ResetHostCalculation(p) ==
  LET f == [Self(p) EXCEPT !.host = NoHost, !.total = 0, !.guid = Unassigned,
                           !.excused = TRUE,
                           !.since = Max({started[q] : q \in Peer}) + 1]
  IN  /\ Spend("upset") /\ UNCHANGED <<linked, dialing>>
      /\ started' = [started EXCEPT ![p] = f.since]
      /\ Become(p, Say(f, Participants(f), FCMGuidRequest(f)), wire)

Next ==
  \/ \E p, q \in Peer : \/ OnReceive(p, q) \/ Accept(p, q) \/ Accepted(p, q)
                        \/ AcceptLost(p, q) \/ OnClosedConnection(p, q)
  \/ \E p \in Resetter : ResetHostCalculation(p)

Spec == Init /\ [][Next]_vars

-----------------------------------------------------------------------------
Message == [type : {"REQUEST", "RESPOND", "INFORM"},
            guid : Nat, count : Nat, since : Nat]
(* The variables have their types; a number is never drawn with count 0,   *)
(* and a number is told only to a peer that has the teller as participant. *)
TypeOK ==
  /\ list \in [Peer -> [Peer -> Nat \cup {Absent}]]
  /\ guid \in [Peer -> Nat] /\ \A p \in Peer : guid[p] \notin 1..(RandomSpan - 1)
  /\ total \in [Peer -> Nat] /\ started \in [Peer -> Nat]
  /\ host \in [Peer -> Peer \cup {NoHost}] /\ pushed \in [Peer -> Peer \cup {NoHost}]
  /\ linked \in [Peer -> SUBSET Peer] /\ dialing \subseteq Peer \X Peer
  /\ wire \in [Peer -> [Peer -> Seq(Message)]]
  /\ \A p, q \in Peer : Arrives(p, q, "INFORM") => list[p][q] # Absent

(* A peer without a number is its own host.                                *)
GetHostSystem(p) == IF guid[p] = Unassigned THEN p ELSE host[p]

(* A mesh: everyone in it is connected to everyone else in it and to no    *)
(* one else, and nothing is under way.                                     *)
Settled(G) ==
  /\ \A p \in G : linked[p] = G \ {p} /\ ~\E q \in Peer : <<p, q>> \in dialing
  /\ \A p, q \in G : wire[p][q] = <<>>

(* GetHostSystem gives the same peer everywhere once a mesh has settled, a *)
(* peer of the mesh, the one with the lowest number: whatever order its    *)
(* connections and messages came in, whoever left, the host included, and  *)
(* whoever started its calculation anew.  Not covered: a peer that has not *)
(* announced a host since it lost a participant whose number it had not    *)
(* heard (nothing makes it calculate) or since it reset (the host it       *)
(* announced before is not stored again).                                  *)
HostAgreed ==
  \A G \in (SUBSET Peer) \ {{}} :
    Settled(G) =>
      \E h \in G : /\ \A p \in G \ excused : GetHostSystem(p) = h
                   /\ \A p \in G : guid[h] <= guid[p]
=============================================================================
