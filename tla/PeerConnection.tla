--------------------------- MODULE PeerConnection ---------------------------
(***************************************************************************)
(* How RakPeer opens, admits and closes a connection                       *)
(* (Source/src/peer.cpp).  Every peer runs the same code: its user thread  *)
(* dials, cancels, closes and answers session requests, its network thread *)
(* handles offline datagrams (before a slot of remoteSystemList exists)    *)
(* and the messages the reliability layer hands up (afterwards).           *)
(*                                                                         *)
(* An offline datagram may be lost, repeated and delayed: a sent one stays *)
(* in offline and is handled any number of times.  Messages of an open     *)
(* slot travel on the reliability layer: wire[p][q] holds those p sent and *)
(* q has not processed; the ones sent Reliable but not ordered may pass    *)
(* and be passed.  Timers are actions that may fire.                       *)
(***************************************************************************)
EXTENDS Integers, SequencesExt

CONSTANTS
  Peer,              \* the peers, each with one address and one guid
  Dials,             \* set of pairs <<p, q>>: p's application may dial q
  HostOf,            \* the IP of a peer's address
  MaxRequests,       \* sendConnectionAttemptCount + 1
  MaxPeers,          \* maximumNumberOfPeers, the size of remoteSystemList
  MaxIncoming,       \* SetMaximumIncomingConnections
  MaxPending,        \* SetMaximumPendingSessions, total (0: no pool)
  MaxPendingPerHost, \* SetMaximumPendingSessions, perAddress (0: no bound)
  Interactive,       \* peers with SetSessionConfigInteractive(true)
  WrongPassword,     \* pairs <<p, q>>: p may dial q with a wrong password
  DataKinds,         \* reliabilities of the application's messages
  DialBudget,        \* bound: Connect calls of all applications
  CloseBudget,       \* bound: CloseConnection and CancelConnectionAttempt calls
  TalkBudget         \* bound: Send and SendSessionStatus calls

ASSUME PeerAssumption ==
  /\ Dials \subseteq Peer \X Peer /\ \A d \in Dials : d[1] # d[2]
  /\ Interactive \subseteq Peer /\ WrongPassword \subseteq Dials
  /\ DataKinds \subseteq {"DATA_ORDERED", "DATA_UNORDERED"}
  /\ MaxRequests \in Nat \ {0} /\ MaxPeers \in Nat
  /\ MaxIncoming \in Nat /\ MaxPending \in Nat /\ MaxPendingPerHost \in Nat
  /\ DialBudget \in Nat /\ CloseBudget \in Nat /\ TalkBudget \in Nat

VARIABLES
  requested,   \* requestedConnectionQueue: requestsMade, or NoRequest
  slot,        \* remoteSystemList, by the address of the other peer
  banned,      \* banList: the peers a peer answers only with a ban
  offline,     \* offline datagrams ever sent
  wire,        \* messages of the reliability layers under way
  commands,    \* bufferedCommands
  drain,       \* an offline datagram was handled with commands waiting
  app,         \* ghost: what the application has been told
  misreports,  \* ghost: reports that contradict what it had been told, and
               \* whether data was freed instead of reported
  budget       \* ghost: calls the applications may still make

vars == <<requested, slot, banned, offline, wire, commands, drain, app,
          misreports, budget>>

NoRequest == -1
Handshaking == {"REQUESTED_CONNECTION", "HANDLING_CONNECTION_REQUEST",
                "UNVERIFIED_SENDER"}
Closing == {"DISCONNECT_ASAP", "DISCONNECT_ASAP_SILENTLY",
            "DISCONNECT_ON_NO_ACK"}
ConnectMode == Handshaking \cup Closing \cup
               {"INACTIVE", "EXCHANGING_SESSION_DATA", "CONNECTED"}

(* A slot: connectMode, weInitiatedTheConnection,                          *)
(* sessionConfigIsConnectingSide, sessionConfigAwaitingLocalDecision and   *)
(* connectionReportedToApplication; younger marks a slot whose reliability *)
(* layer was reset after the other end's had begun to talk.                *)
RemoteSystem ==
  [mode : ConnectMode, initiated : BOOLEAN, connecting : BOOLEAN,
   awaiting : BOOLEAN, reported : BOOLEAN, younger : BOOLEAN]
Inactive ==
  [mode |-> "INACTIVE", initiated |-> FALSE, connecting |-> FALSE,
   awaiting |-> FALSE, reported |-> FALSE, younger |-> FALSE]

OfflineType == {"REQUEST_1", "REPLY_1", "REQUEST_2", "REPLY_2",
                "ALREADY_CONNECTED", "NO_FREE_INCOMING", "BANNED"}
Refusal == {"ALREADY_CONNECTED", "NO_FREE_INCOMING", "BANNED"}
OnlineType == {"CONNECTION_REQUEST", "INVALID_PASSWORD", "REQUEST_ACCEPTED",
               "NEW_INCOMING", "CONFIG_REQUEST", "CONFIG", "STATUS",
               "REJECTED", "DISCONNECTION", "DATA_ORDERED", "DATA_UNORDERED"}
Unordered == {"CONNECTION_REQUEST", "INVALID_PASSWORD", "DATA_UNORDERED"}
Command == [do : {"DISCONNECT", "CLOSE", "ACCEPT", "REJECT", "STATUS"} \cup
                 DataKinds, to : Peer]

(* What an application knows of another peer: the connection is up, a      *)
(* Connect of its own is unanswered, it holds a session request, it has    *)
(* closed the connection itself.                                           *)
View == [up : BOOLEAN, asked : BOOLEAN, held : BOOLEAN, closed : BOOLEAN]
Stranger == [up |-> FALSE, asked |-> FALSE, held |-> FALSE, closed |-> FALSE]

Init ==
  /\ requested = [p \in Peer |-> [q \in Peer |-> NoRequest]]
  /\ slot = [p \in Peer |-> [q \in Peer |-> Inactive]]
  /\ banned = [p \in Peer |-> {}]
  /\ offline = {}
  /\ wire = [p \in Peer |-> [q \in Peer |-> <<>>]]
  /\ commands = [p \in Peer |-> <<>>]
  /\ drain = [p \in Peer |-> FALSE]
  /\ app = [p \in Peer |-> [q \in Peer |-> Stranger]]
  /\ misreports = {}
  /\ budget = [dial |-> DialBudget, close |-> CloseBudget, talk |-> TalkBudget]

(* The network thread may go on with its slots: commands queued before an  *)
(* offline datagram was handled come first in RunUpdateCycle.              *)
SystemsTurn(p) == ~drain[p]
OfflineTurn(p) == drain' = [drain EXCEPT ![p] = commands[p] # <<>>]

Active(p, q) == slot[p][q].mode # "INACTIVE"
Pending(p, q) == requested[p][q] # NoRequest
(* Which slots SendImmediate serves.                                       *)
MaySend(s) == s.mode \notin Closing \cup {"INACTIVE"}
Sending(s, msgs) == IF MaySend(s) THEN msgs ELSE <<>>
(* The unordered ones of msgs, in their order: the k-th is the one that    *)
(* has k of them up to it.                                                 *)
OnlyUnordered(msgs) ==
  LET kept == {i \in DOMAIN msgs : msgs[i] \in Unordered}
      rank(i) == Cardinality({j \in kept : j <= i})
  IN  [k \in 1 .. Cardinality(kept) |-> msgs[CHOOSE i \in kept : rank(i) = k]]
(* What of msgs the reliability layer at the other end will hand up: an    *)
(* older one takes the numbers of a younger one for duplicates, a younger  *)
(* one misses the messages before those of an older one.                   *)
Carried(p, q, msgs) ==
  CASE slot[p][q].younger -> <<>>
    [] ~slot[p][q].younger /\ slot[q][p].younger ->
         OnlyUnordered(msgs)
    [] OTHER -> msgs

-----------------------------------------------------------------------------
(* Reports to the application                                              *)

(* Data of a peer the application was not told of is given to it on        *)
(* purpose; data it is never given is freed.                               *)
ConnectionReport == {"UP", "LOST", "CLOSED", "FAILED"}
IsMisreport(view, e) ==
  \/ e = "UP" /\ view.up
  \/ e \in {"LOST", "CLOSED"} /\ ~view.up /\ ~view.asked /\ ~view.closed
  \/ e = "FAILED" /\ ~view.asked /\ ~view.closed
  \/ e = "DROPPED"

(* e is the packet added to the producer queue, abandoned tells of an      *)
(* ID_SESSION_CONFIG_ABANDONED.  A report answers a Connect of the         *)
(* application's own only once that has left the queue, and ends a close   *)
(* of its own only once that has.                                          *)
AppAfter(view, e, abandoned, stillAsking, stillClosing) ==
  [up |-> CASE e = "UP" -> TRUE [] e \in {"LOST", "CLOSED"} -> FALSE
            [] OTHER -> view.up,
   asked |-> view.asked /\ (e \in {"UP", "FAILED", "LOST", "CLOSED"} => stillAsking),
   held |-> e = "REQUEST" \/ (view.held /\ ~abandoned),
   closed |-> view.closed /\ (e \in {"NONE", "DATA", "DROPPED"} \/ stillClosing)]

CloseQueued(queue, q) == \E c \in ToSet(queue) : c.do \in {"DISCONNECT", "CLOSE"} /\ c.to = q

Report(p, q, e, abandoned) ==
  /\ app' = [app EXCEPT ![p][q] =
               AppAfter(@, e, abandoned, requested'[p][q] # NoRequest,
                        CloseQueued(commands'[p], q))]
  /\ misreports' = misreports \cup
                   (IF IsMisreport(app[p][q], e) THEN {e} ELSE {})

Silent == UNCHANGED <<app, misreports>>

-----------------------------------------------------------------------------
(* The user thread                                                         *)

Spend(kind) == budget[kind] > 0 /\ budget' = [budget EXCEPT ![kind] = @ - 1]
Queue(p, c, q) == commands' = [commands EXCEPT ![p] = Append(@, [do |-> c, to |-> q])]

(* Connect: refused while a slot or a request for the address exists.      *)
Connect(p, q) ==
  /\ <<p, q>> \in Dials /\ ~Active(p, q) /\ ~Pending(p, q)
  /\ Spend("dial")
  /\ requested' = [requested EXCEPT ![p][q] = 0]
  /\ app' = [app EXCEPT ![p][q] =
       [Stranger EXCEPT !.asked = TRUE, !.closed = CloseQueued(commands[p], q)]]
  /\ UNCHANGED <<slot, banned, offline, wire, commands, drain, misreports>>

CancelConnectionAttempt(p, q) ==
  /\ Pending(p, q) /\ Spend("close")
  /\ requested' = [requested EXCEPT ![p][q] = NoRequest]
  /\ app' = [app EXCEPT ![p][q].asked = FALSE]
  /\ UNCHANGED <<slot, banned, offline, wire, commands, drain, misreports>>

(* With a notification the slot is closed once that is acknowledged and    *)
(* the application told then; without one the application is told at once. *)
CloseConnection(p, q, notify) ==
  /\ app[p][q].up \/ app[p][q].held \/ (app[p][q].asked /\ Active(p, q))
  /\ Spend("close")
  /\ Queue(p, IF notify THEN "DISCONNECT" ELSE "CLOSE", q)
  /\ app' = [app EXCEPT ![p][q] =
       [up |-> @.up /\ notify, asked |-> @.asked /\ Pending(p, q),
        held |-> FALSE, closed |-> TRUE]]
  /\ UNCHANGED <<requested, slot, banned, offline, wire, drain, misreports>>

(* AcceptSession and RejectSession                                         *)
AnswerSession(p, q, accept) ==
  /\ app[p][q].held
  /\ Queue(p, IF accept THEN "ACCEPT" ELSE "REJECT", q)
  /\ app' = [app EXCEPT ![p][q].held = FALSE]
  /\ UNCHANGED <<requested, slot, banned, offline, wire, drain, misreports,
                 budget>>

SendSessionStatus(p, q) ==
  /\ app[p][q].held /\ Spend("talk") /\ Queue(p, "STATUS", q)
  /\ UNCHANGED <<requested, slot, banned, offline, wire, drain, app, misreports>>

(* Send: refused while the session handshake runs.                         *)
Send(p, q, kind) ==
  /\ app[p][q].up /\ slot[p][q].mode # "EXCHANGING_SESSION_DATA"
  /\ Spend("talk") /\ Queue(p, kind, q)
  /\ UNCHANGED <<requested, slot, banned, offline, wire, drain, app, misreports>>

UserStep(p, q) ==
  \/ Connect(p, q) \/ CancelConnectionAttempt(p, q)
  \/ \E notify \in BOOLEAN : CloseConnection(p, q, notify)
  \/ \E accept \in BOOLEAN : AnswerSession(p, q, accept)
  \/ SendSessionStatus(p, q)
  \/ \E kind \in DataKinds : Send(p, q, kind)

-----------------------------------------------------------------------------
(* Slots                                                                   *)

(* CloseConnectionInternal2, performed at once: the slot and its           *)
(* reliability layer are reset.  What was under way may still arrive or be *)
(* lost; nothing of it outlives the other end's slot.                      *)
WireAfterClose(p, q) ==
  { [wire EXCEPT ![p][q] = w,
                 ![q][p] = IF Active(q, p) THEN @ ELSE <<>>] :
      w \in {<<>>} \cup (IF Active(q, p) THEN {wire[p][q]} ELSE {}) }
CloseSlot(p, q) ==
  /\ slot' = [slot EXCEPT ![p][q] = Inactive]
  /\ wire' \in WireAfterClose(p, q)

(* AssignSystemAddressToRemoteSystemList                                   *)
HasFreeSlot(p) == Cardinality({q \in Peer : Active(p, q)}) < MaxPeers
Assigned == [Inactive EXCEPT !.mode = "UNVERIFIED_SENDER"]
(* p takes a slot for q and leaves it as s; msgs are its first messages.   *)
TakeSlot(p, q, s, msgs) ==
  LET younger == Active(q, p) /\
        slot[q][p].mode \notin {"UNVERIFIED_SENDER", "REQUESTED_CONNECTION"}
  IN  /\ slot' = [slot EXCEPT ![p][q] = [s EXCEPT !.younger = younger],
                              ![q][p].younger = FALSE]
      /\ wire' = [wire EXCEPT
           ![p][q] = IF younger THEN <<>> ELSE msgs,
           ![q][p] = IF younger THEN OnlyUnordered(@) ELSE @]

(* CountRemoteInitiatedPeers                                               *)
RemoteInitiated(p, modes) ==
  {q \in Peer : ~slot[p][q].initiated /\ slot[p][q].mode \in modes}
ConnectedPeers(p) == RemoteInitiated(p, {"CONNECTED"})
ExchangingPeers(p) == RemoteInitiated(p, {"EXCHANGING_SESSION_DATA"})
PendingPeers(p) ==
  RemoteInitiated(p, {"EXCHANGING_SESSION_DATA", "UNVERIFIED_SENDER",
                      "HANDLING_CONNECTION_REQUEST"})

(* SessionAdmission                                                        *)
UsesPendingPool == MaxPending # 0
MayStartConnecting(p, q) ==
  IF ~UsesPendingPool
  THEN Cardinality(ConnectedPeers(p)) + Cardinality(ExchangingPeers(p)) < MaxIncoming
  ELSE /\ Cardinality(PendingPeers(p)) < MaxPending
       /\ \/ MaxPendingPerHost = 0
          \/ Cardinality({r \in PendingPeers(p) : HostOf[r] = HostOf[q]})
               < MaxPendingPerHost
(* Mutant: an accepted session is taken for one already counted. *)
AcceptUncounted(p) == TRUE
MayAccept(p) == ~UsesPendingPool \/ Cardinality(ConnectedPeers(p)) < MaxIncoming

(* ClearSessionConfig                                                      *)
ClearSessionConfig(s) ==
  [s EXCEPT !.awaiting = FALSE, !.connecting = FALSE, !.reported = FALSE]
Established(s) == [s EXCEPT !.mode = "CONNECTED", !.reported = TRUE]

-----------------------------------------------------------------------------
(* Offline datagrams                                                       *)

Datagram(t, from, to) == [type |-> t, from |-> from, to |-> to]
Arrives(t, q, p) ==
  Datagram(t, q, p) \in offline /\ q \notin banned[p]
Answer(t, p, q) == offline' = offline \cup {Datagram(t, p, q)}

OnOpenConnectionRequest1(p, q) ==
  /\ Arrives("REQUEST_1", q, p) /\ Answer("REPLY_1", p, q) /\ OfflineTurn(p)
  /\ UNCHANGED <<requested, slot, banned, wire, commands, app, misreports, budget>>

OnOpenConnectionReply1(p, q) ==
  /\ Arrives("REPLY_1", q, p) /\ Pending(p, q)
  /\ Answer("REQUEST_2", p, q) /\ OfflineTurn(p)
  /\ UNCHANGED <<requested, slot, banned, wire, commands, app, misreports, budget>>

(* The address and the guid of a peer are in use together.  A repeated     *)
(* request is answered as the first one was.  With no slot left the reply  *)
(* is sent all the same.                                                   *)
OnOpenConnectionRequest2(p, q) ==
  /\ Arrives("REQUEST_2", q, p) /\ OfflineTurn(p)
  /\ LET fresh == ~Active(p, q) /\ MayStartConnecting(p, q)
     IN  /\ Answer(CASE fresh \/ slot[p][q].mode = "UNVERIFIED_SENDER" -> "REPLY_2"
                     [] Active(p, q) /\ slot[p][q].mode # "UNVERIFIED_SENDER"
                          -> "ALREADY_CONNECTED"
                     [] OTHER -> "NO_FREE_INCOMING", p, q)
         /\ IF fresh /\ HasFreeSlot(p)
            THEN TakeSlot(p, q, Assigned, <<>>)
            ELSE UNCHANGED <<slot, wire>>
  /\ UNCHANGED <<requested, banned, commands, app, misreports, budget>>

(* A slot the other peer opened meanwhile (a cross-connection) is used as  *)
(* it is, whatever its mode.                                               *)
Requesting(s) ==
  [s EXCEPT !.initiated = TRUE, !.mode = "REQUESTED_CONNECTION"]
OnOpenConnectionReply2(p, q) ==
  /\ Arrives("REPLY_2", q, p) /\ Pending(p, q) /\ OfflineTurn(p)
  /\ requested' = [requested EXCEPT ![p][q] = NoRequest] /\ UNCHANGED commands
  /\ CASE Active(p, q) ->
            /\ slot' = [slot EXCEPT ![p][q] = Requesting(@)]
            /\ wire' = [wire EXCEPT ![p][q] =
                          @ \o Carried(p, q, <<"CONNECTION_REQUEST">>)]
            /\ Silent
       [] ~Active(p, q) /\ HasFreeSlot(p) ->
            /\ TakeSlot(p, q, Requesting(Assigned), <<"CONNECTION_REQUEST">>)
            /\ Silent
       [] OTHER -> Report(p, q, "FAILED", FALSE) /\ UNCHANGED <<slot, wire>>
  /\ UNCHANGED <<banned, offline, budget>>

OnRefusal(p, q) ==
  /\ \E t \in Refusal : Arrives(t, q, p)
  /\ Pending(p, q) /\ OfflineTurn(p)
  /\ requested' = [requested EXCEPT ![p][q] = NoRequest] /\ UNCHANGED commands
  /\ Report(p, q, "FAILED", FALSE)
  /\ UNCHANGED <<slot, banned, offline, wire, budget>>

(* Any datagram of a banned address.                                       *)
OnBannedDatagram(p, q) ==
  /\ q \in banned[p]
  /\ wire[q][p] # <<>> \/ \E t \in OfflineType : Datagram(t, q, p) \in offline
  /\ Answer("BANNED", p, q) /\ OfflineTurn(p)
  /\ UNCHANGED <<requested, slot, banned, wire, commands, app, misreports, budget>>

OfflineStep(p, q) ==
  \/ OnOpenConnectionRequest1(p, q) \/ OnOpenConnectionReply1(p, q)
  \/ OnOpenConnectionRequest2(p, q) \/ OnOpenConnectionReply2(p, q)
  \/ OnRefusal(p, q) \/ OnBannedDatagram(p, q)

-----------------------------------------------------------------------------
(* RunUpdateCycle: bufferedCommands and requestedConnectionQueue           *)

TakeCommand(p) ==
  /\ commands[p] # <<>>
  /\ commands' = [commands EXCEPT ![p] = Tail(@)]
  /\ drain' = [drain EXCEPT ![p] = @ /\ Len(commands[p]) > 1]

(* BCS_SEND.  The mode that comes with a disconnection notification is     *)
(* given to the slot that has the address now, and only then.              *)
RunSend(p) ==
  /\ TakeCommand(p)
  /\ LET c == Head(commands[p])
         q == c.to
         leave == c.do = "DISCONNECT"
     IN  /\ c.do \in DataKinds \cup {"DISCONNECT"}
         /\ wire' = [wire EXCEPT ![p][q] = @ \o Carried(p, q, Sending(slot[p][q],
                       IF leave THEN <<"DISCONNECTION">> ELSE <<c.do>>))]
         /\ slot' = IF leave /\ Active(p, q)
                    THEN [slot EXCEPT ![p][q].mode = "DISCONNECT_ASAP"]
                    ELSE slot
  /\ UNCHANGED <<requested, banned, offline, app, misreports, budget>>

(* SendSessionConfigResponse and SendSessionConfigRejection                *)
Accepted(s) == Established([s EXCEPT !.awaiting = FALSE])
Rejected(s) == [s EXCEPT !.awaiting = FALSE, !.mode = "DISCONNECT_ON_NO_ACK"]
AwaitsDecision(s) == s.mode = "EXCHANGING_SESSION_DATA" /\ s.awaiting

(* BCS_SESSION_ACCEPT and BCS_SESSION_REJECT.  The slots are counted now,  *)
(* not when the application decided.                                       *)
RunSessionDecision(p) ==
  /\ TakeCommand(p) /\ UNCHANGED requested
  /\ LET c == Head(commands[p])
         q == c.to
         s == slot[p][q]
     IN  /\ c.do \in {"ACCEPT", "REJECT"}
         /\ CASE ~AwaitsDecision(s) -> UNCHANGED <<slot, wire, app, misreports>>
              [] AwaitsDecision(s) /\ c.do = "ACCEPT" /\ MayAccept(p) ->
                   /\ slot' = [slot EXCEPT ![p][q] = Accepted(@)]
                   /\ wire' = [wire EXCEPT ![p][q] = @ \o Carried(p, q, <<"CONFIG">>)]
                   /\ Report(p, q, "UP", FALSE)
              [] OTHER ->
                   /\ slot' = [slot EXCEPT ![p][q] = Rejected(@)]
                   /\ wire' = [wire EXCEPT ![p][q] = @ \o Carried(p, q, <<"REJECTED">>)]
                   /\ Silent
  /\ UNCHANGED <<banned, offline, budget>>

(* BCS_SESSION_STATUS                                                      *)
RunSessionStatus(p) ==
  /\ TakeCommand(p)
  /\ LET c == Head(commands[p])
         told == AwaitsDecision(slot[p][c.to]) /\ ~slot[p][c.to].connecting
     IN  /\ c.do = "STATUS"
         /\ wire' = [wire EXCEPT ![p][c.to] = @ \o
              (IF told THEN Carried(p, c.to, <<"STATUS">>) ELSE <<>>)]
  /\ UNCHANGED <<requested, slot, banned, offline, app, misreports, budget>>

(* BCS_CLOSE_CONNECTION                                                    *)
RunClose(p) ==
  /\ TakeCommand(p)
  /\ LET c == Head(commands[p])
     IN  /\ c.do = "CLOSE"
         /\ IF Active(p, c.to) THEN CloseSlot(p, c.to) ELSE UNCHANGED <<slot, wire>>
         /\ app' = [app EXCEPT ![p][c.to] = IF ~@.closed THEN @ ELSE
              [up |-> FALSE, asked |-> @.asked /\ Pending(p, c.to), held |-> FALSE,
               closed |-> CloseQueued(commands'[p], c.to)]]
  /\ UNCHANGED <<requested, banned, offline, misreports, budget>>

CommandStep(p) ==
  RunSend(p) \/ RunSessionDecision(p) \/ RunSessionStatus(p) \/ RunClose(p)

(* Mutant: the attempts are not counted. *)
SendOpenConnectionRequestForever(p, q) ==
  /\ SystemsTurn(p) /\ Pending(p, q)
  /\ requested' = [requested EXCEPT ![p][q] = @ + 1]
  /\ Answer("REQUEST_1", p, q)
  /\ UNCHANGED <<slot, banned, wire, commands, drain, app, misreports, budget>>
(* A request is repeated until the attempts are used up.                   *)
SendOpenConnectionRequest(p, q) ==
  /\ SystemsTurn(p) /\ requested[p][q] \in 0..(MaxRequests - 1)
  /\ requested' = [requested EXCEPT ![p][q] = @ + 1]
  /\ Answer("REQUEST_1", p, q)
  /\ UNCHANGED <<slot, banned, wire, commands, drain, app, misreports, budget>>
ConnectionAttemptFailed(p, q) ==
  /\ SystemsTurn(p) /\ requested[p][q] = MaxRequests
  /\ requested' = [requested EXCEPT ![p][q] = NoRequest] /\ UNCHANGED commands
  /\ Report(p, q, "FAILED", FALSE)
  /\ UNCHANGED <<slot, banned, offline, wire, drain, budget>>

-----------------------------------------------------------------------------
(* RunUpdateCycle: messages of a slot                                      *)

(* p's reliability layer for q hands up message m, and p answers with msgs *)
(* and leaves its slot as s.                                               *)
MayOvertake(w, i) == w[i] \in Unordered \/ \A j \in 1..(i - 1) : w[j] \in Unordered
Process(p, q, m, s, msgs) ==
  /\ SystemsTurn(p) /\ Active(p, q) /\ q \notin banned[p]
  /\ \E i \in DOMAIN wire[q][p] :
       /\ wire[q][p][i] = m /\ MayOvertake(wire[q][p], i)
       /\ wire' = [wire EXCEPT ![q][p] = RemoveAt(@, i),
                                  ![p][q] = @ \o Carried(p, q, msgs)]
  /\ slot' = [slot EXCEPT ![p][q] = s]
  /\ UNCHANGED <<requested, banned, offline, commands, drain, budget>>

Verified(p, q) == slot[p][q].mode # "UNVERIFIED_SENDER"

(* ParseConnectionRequestPacket for an unverified slot and for one whose   *)
(* peer dialled too; any other slot just answers again.                    *)
OnConnectionRequest(p, q) ==
  LET s == slot[p][q]
      parse == s.mode \in {"UNVERIFIED_SENDER", "REQUESTED_CONNECTION"}
  IN  \E wrong \in {FALSE} \cup {parse /\ <<q, p>> \in WrongPassword} :
        /\ Process(p, q, "CONNECTION_REQUEST",
             CASE wrong -> [s EXCEPT !.mode = "DISCONNECT_ASAP_SILENTLY"]
               [] parse /\ ~wrong -> [s EXCEPT !.mode = "HANDLING_CONNECTION_REQUEST"]
               [] OTHER -> s,
             Sending(s, IF wrong THEN <<"INVALID_PASSWORD">> ELSE <<"REQUEST_ACCEPTED">>))
        /\ Silent

(* Anything else from an unverified sender closes the slot and bans the    *)
(* address for a while.                                                    *)
OnNonsense(p, q) ==
  /\ SystemsTurn(p) /\ slot[p][q].mode = "UNVERIFIED_SENDER" /\ q \notin banned[p]
  /\ \E i \in DOMAIN wire[q][p] :
       wire[q][p][i] # "CONNECTION_REQUEST" /\ MayOvertake(wire[q][p], i)
  /\ CloseSlot(p, q)
  /\ banned' = [banned EXCEPT ![p] = @ \cup {q}]
  /\ UNCHANGED <<requested, offline, commands, drain, app, misreports, budget>>
BanExpires(p, q) ==
  /\ q \in banned[p]
  /\ banned' = [banned EXCEPT ![p] = @ \ {q}]
  /\ UNCHANGED <<requested, slot, offline, wire, commands, drain, app,
                 misreports, budget>>

OnNewIncomingConnection(p, q) ==
  LET s == slot[p][q]
  IN  /\ Verified(p, q)
      /\ Process(p, q, "NEW_INCOMING",
           IF s.mode = "HANDLING_CONNECTION_REQUEST"
           THEN [ClearSessionConfig(s) EXCEPT !.mode = "EXCHANGING_SESSION_DATA"]
           ELSE s, <<>>)
      /\ Silent

OnConnectionRequestAccepted(p, q) ==
  LET s == slot[p][q]
      allow == s.mode \in {"HANDLING_CONNECTION_REQUEST", "REQUESTED_CONNECTION"}
  IN  /\ Verified(p, q)
      /\ Process(p, q, "REQUEST_ACCEPTED",
           IF allow THEN [ClearSessionConfig(s) EXCEPT
                            !.mode = "EXCHANGING_SESSION_DATA", !.connecting = TRUE]
                    ELSE s,
           IF allow THEN <<"NEW_INCOMING", "CONFIG_REQUEST">> ELSE <<>>)
      /\ Silent

OnDisconnectionNotification(p, q) ==
  /\ Verified(p, q)
  /\ Process(p, q, "DISCONNECTION",
       [slot[p][q] EXCEPT !.mode = "DISCONNECT_ON_NO_ACK"], <<>>)
  /\ Silent

(* An interactive peer asks its application; any other answers at once.    *)
OnSessionConfigRequest(p, q) ==
  LET s == slot[p][q]
      exchange == s.mode = "EXCHANGING_SESSION_DATA" /\ ~s.awaiting
      ask == exchange /\ p \in Interactive
      answer == exchange /\ p \notin Interactive
  IN  /\ Verified(p, q)
      /\ Process(p, q, "CONFIG_REQUEST",
           CASE ask -> [s EXCEPT !.awaiting = TRUE]
             [] answer -> Established(s)
             [] OTHER -> s,
           IF answer THEN <<"CONFIG">> ELSE <<>>)
      /\ Report(p, q, CASE ask -> "REQUEST" [] answer -> "UP" [] OTHER -> "NONE", FALSE)

AwaitsAnswer(s) == s.mode = "EXCHANGING_SESSION_DATA" /\ s.connecting
OnSessionConfig(p, q) ==
  LET s == slot[p][q]
  IN  /\ Verified(p, q)
      /\ Process(p, q, "CONFIG", IF AwaitsAnswer(s) THEN Established(s) ELSE s, <<>>)
      /\ Report(p, q, IF AwaitsAnswer(s) THEN "UP" ELSE "NONE", FALSE)

(* Restarts the session timer of a client and nothing else.                *)
OnSessionConfigStatus(p, q) ==
  Verified(p, q) /\ Process(p, q, "STATUS", slot[p][q], <<>>) /\ Silent

Silenced(s, when) ==
  IF when THEN [s EXCEPT !.mode = "DISCONNECT_ASAP_SILENTLY"] ELSE s
OnSessionConfigRejected(p, q) ==
  LET s == slot[p][q]
  IN  /\ Verified(p, q)
      /\ Process(p, q, "REJECTED", Silenced(s, AwaitsAnswer(s)), <<>>)
      /\ Report(p, q, IF AwaitsAnswer(s) THEN "FAILED" ELSE "NONE", FALSE)

OnInvalidPassword(p, q) ==
  LET s == slot[p][q]
      ours == s.mode = "REQUESTED_CONNECTION"
  IN  /\ Verified(p, q)
      /\ Process(p, q, "INVALID_PASSWORD", Silenced(s, ours), <<>>)
      /\ Report(p, q, IF ours THEN "FAILED" ELSE "NONE", FALSE)

(* Application data is freed while the session handshake runs.             *)
OnApplicationData(p, q) ==
  /\ Verified(p, q)
  /\ \E kind \in DataKinds : Process(p, q, kind, slot[p][q], <<>>)
  /\ Report(p, q, IF slot[p][q].mode = "EXCHANGING_SESSION_DATA"
                  THEN "DROPPED" ELSE "DATA", FALSE)

OnlineStep(p, q) ==
  \/ OnConnectionRequest(p, q) \/ OnNonsense(p, q)
  \/ OnNewIncomingConnection(p, q) \/ OnConnectionRequestAccepted(p, q)
  \/ OnDisconnectionNotification(p, q) \/ OnSessionConfigRequest(p, q)
  \/ OnSessionConfig(p, q) \/ OnSessionConfigStatus(p, q)
  \/ OnSessionConfigRejected(p, q) \/ OnInvalidPassword(p, q)
  \/ OnApplicationData(p, q)

-----------------------------------------------------------------------------
(* RunUpdateCycle: failure conditions and timers                           *)

(* Mutant: only a dead connection and a finished close end a slot. *)
FailureWithoutHandshakeTimeout(p, q) ==
  \/ Active(p, q) /\ (wire[p][q] # <<>> \/ slot[p][q].mode = "CONNECTED")
  \/ slot[p][q].mode \in Closing
(* IsDeadConnection: a reliable message, in CONNECTED a keep-alive ping at *)
(* the latest, was not acknowledged in time.                               *)
Dead(p, q) == wire[p][q] # <<>> \/ slot[p][q].mode = "CONNECTED"
FailureCondition(p, q) ==
  \/ Active(p, q) /\ Dead(p, q)
  \/ /\ slot[p][q].mode \in {"DISCONNECT_ASAP", "DISCONNECT_ASAP_SILENTLY"}
     /\ wire[p][q] = <<>>
  \/ slot[p][q].mode = "DISCONNECT_ON_NO_ACK"
  \/ slot[p][q].mode \in Handshaking

(* Mutant: nobody tells the application that its decision is not needed. *)
NeverAbandons(s) == FALSE
(* ProduceSessionAbandoned                                                 *)
Abandons(s) == ~s.initiated /\ s.awaiting
(* Mutant: the accepting side's unreported slots are reported too. *)
CloseReportUnreported(s) ==
  CASE s.mode = "REQUESTED_CONNECTION" -> "FAILED"
    [] s.mode = "EXCHANGING_SESSION_DATA" -> IF s.connecting THEN "FAILED" ELSE "LOST"
    [] s.mode = "CONNECTED" -> "LOST"
    [] s.mode \in {"DISCONNECT_ASAP", "DISCONNECT_ON_NO_ACK"} -> "CLOSED"
    [] OTHER -> "NONE"
(* Mutant: only the reported connections are, the attempts are not. *)
CloseReportReportedOnly(s) ==
  CASE ~s.reported -> "NONE"
    [] s.reported /\ s.mode = "CONNECTED" -> "LOST"
    [] s.reported /\ s.mode \in {"DISCONNECT_ASAP", "DISCONNECT_ON_NO_ACK"} -> "CLOSED"
    [] OTHER -> "NONE"
(* Mutant: a connection whose peer said goodbye is dropped silently. *)
CloseReportSilentGoodbye(s) ==
  CASE ~s.reported /\ ~s.initiated -> "NONE"
    [] s.reported /\ s.mode = "CONNECTED" -> "LOST"
    [] ~s.reported /\ s.initiated -> "FAILED"
    [] OTHER -> "NONE"
CloseReport(s) ==
  LET reportable == s.reported \/ s.initiated
  IN  CASE ~reportable -> "NONE"
        [] reportable /\ s.mode = "REQUESTED_CONNECTION" -> "FAILED"
        [] reportable /\ s.mode = "EXCHANGING_SESSION_DATA" ->
             IF s.connecting THEN "FAILED" ELSE "LOST"
        [] reportable /\ s.mode = "CONNECTED" -> "LOST"
        [] reportable /\ s.mode \in {"DISCONNECT_ASAP", "DISCONNECT_ON_NO_ACK"} ->
             "CLOSED"
        [] OTHER -> "NONE"

DropConnection(p, q) ==
  /\ SystemsTurn(p) /\ FailureCondition(p, q)
  /\ UNCHANGED <<requested, commands>>
  /\ Report(p, q, CloseReport(slot[p][q]), Abandons(slot[p][q]))
  /\ CloseSlot(p, q)
  /\ UNCHANGED <<banned, offline, drain, budget>>

SessionTimeout(p, q) ==
  /\ SystemsTurn(p) /\ slot[p][q].mode = "EXCHANGING_SESSION_DATA"
  /\ UNCHANGED <<requested, commands>>
  /\ LET s == slot[p][q]
     IN  Report(p, q, IF s.connecting THEN "FAILED" ELSE "NONE",
                ~s.connecting /\ Abandons(s))
  /\ CloseSlot(p, q)
  /\ UNCHANGED <<banned, offline, drain, budget>>

Next ==
  \/ \E p \in Peer : CommandStep(p)
  \/ \E p \in Peer, q \in Peer :
       \/ UserStep(p, q) \/ OfflineStep(p, q) \/ OnlineStep(p, q)
       \/ SendOpenConnectionRequest(p, q) \/ ConnectionAttemptFailed(p, q)
       \/ DropConnection(p, q) \/ SessionTimeout(p, q) \/ BanExpires(p, q)

Spec == Init /\ [][Next]_vars

-----------------------------------------------------------------------------
(* The variables have their types.                                         *)
TypeOK ==
  /\ requested \in [Peer -> [Peer -> NoRequest..MaxRequests]]
  /\ slot \in [Peer -> [Peer -> RemoteSystem]]
  /\ banned \in [Peer -> SUBSET Peer]
  /\ offline \subseteq [type : OfflineType, from : Peer, to : Peer]
  /\ wire \in [Peer -> [Peer -> Seq(OnlineType)]]
  /\ commands \in [Peer -> Seq(Command)]
  /\ drain \in [Peer -> BOOLEAN]
  /\ app \in [Peer -> [Peer -> View]]
  /\ misreports \subseteq ConnectionReport \cup {"DROPPED"}
  /\ budget \in [dial : 0..DialBudget, close : 0..CloseBudget, talk : 0..TalkBudget]

(* What an application is told of its connection to a peer makes a         *)
(* sensible history: no connection comes up twice, none that was neither   *)
(* up nor being dialled (nor being closed by the application itself) is    *)
(* lost or closed, and no attempt it did not make fails.  The slot is      *)
(* closed by timers, by either application and by messages of an earlier   *)
(* connection, in any order.                                               *)
ReportsMakeSense == misreports \cap ConnectionReport = {}

(* No application data is freed while the session handshake runs: "A peer  *)
(* that respects the protocol cannot send here anyway: its own public send *)
(* path is gated on the same state" (RunUpdateCycle).                      *)
DataGiven == "DROPPED" \notin misreports

(* With a pool of pending sessions more peers handshake than there are     *)
(* incoming places; at no time are more connected than                     *)
(* SetMaximumIncomingConnections allows, however many sessions the         *)
(* application accepted meanwhile.                                         *)
IncomingLimit == \A p \in Peer : Cardinality(ConnectedPeers(p)) <= MaxIncoming

(* An application that was told of a connection, and neither told of its   *)
(* end nor ended it, has a slot for it, the one that was reported: no path *)
(* that closes or reuses a slot forgets to say so.                         *)
UpMeansOpen ==
  \A p \in Peer, q \in Peer : app[p][q].up => slot[p][q].reported

(* A session request the application holds is that of the slot in hand: it *)
(* is told (ID_SESSION_CONFIG_ABANDONED) whenever the slot goes first, so  *)
(* its answer can never reach another session.                             *)
HeldMeansWaiting ==
  \A p \in Peer, q \in Peer : app[p][q].held => slot[p][q].awaiting

-----------------------------------------------------------------------------
(* Fairness: the network thread runs RunUpdateCycle for ever, so queued    *)
(* commands are run, requests are repeated until they expire, and the      *)
(* timers of a slot fire: 10 s for a handshake, the session timeout, the   *)
(* end of a close, a peer that no longer acknowledges.  Nothing is assumed *)
(* of the network or of the applications.                                  *)
Expire(p, q) ==
  /\ \/ slot[p][q].mode \in Handshaking \cup Closing
     \/ Active(p, q) /\ ~Active(q, p)
  /\ DropConnection(p, q)
Fairness ==
  /\ \A p \in Peer : WF_vars(CommandStep(p))
  /\ \A p, q \in Peer :
       /\ WF_vars(SendOpenConnectionRequest(p, q) \/ ConnectionAttemptFailed(p, q))
       /\ WF_vars(Expire(p, q) \/ SessionTimeout(p, q))
FairSpec == Spec /\ Fairness

(* Every Connect is answered, by a connection or by a failure, unless the  *)
(* application withdrew it itself: whatever is lost, repeated or delayed,  *)
(* and whatever became of an earlier connection to the same address.       *)
ConnectAnswered == \A p, q \in Peer : app[p][q].asked ~> ~app[p][q].asked

(* A slot does not stay half open: a handshake, a session exchange or a    *)
(* close that does not complete gives the slot back.                       *)
HalfOpen(p, q) == slot[p][q].mode \notin {"INACTIVE", "CONNECTED"}
SlotsSettle == \A p, q \in Peer : HalfOpen(p, q) ~> ~HalfOpen(p, q)
=============================================================================
