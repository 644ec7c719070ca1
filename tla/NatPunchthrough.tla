--------------------------- MODULE NatPunchthrough ---------------------------
(***************************************************************************)
(* NAT punchthrough: one facilitator (Source/src/nat_punchthrough_server.  *)
(* cpp) that pairs its users one attempt at a time, and the clients        *)
(* (Source/src/nat_punchthrough_client.cpp) that ask for a punch, tell     *)
(* their port, punch when both were told to, and report the result.        *)
(* Client and facilitator talk reliable ordered; the datagrams of a punch  *)
(* go out of band, may be lost and are sent again while the punch lasts.   *)
(* Addresses, ports and the sequence of test modes are abstracted to: the  *)
(* session a port was told for, still sending, one port fixed, waiting.    *)
(***************************************************************************)
EXTENDS Integers, SequencesExt

CONSTANTS
  Client,        \* the clients of the facilitator
  Asks,          \* pairs <<c, d>>: c's application may call OpenNAT for d
  Leavers,       \* clients that may lose the facilitator, once each
  Strideless,    \* clients whose port stride is not known yet
  Retrying,      \* clients with PunchthroughConfiguration::retryOnFailure
  SessionSpan,   \* session numbers on the wire (2^16)
  AskBudget      \* bound: calls of OpenNAT

ASSUME NatAssumption ==
  /\ Asks \subseteq Client \X Client
  /\ Leavers \subseteq Client /\ Strideless \subseteq Client
  /\ \A x \in Asks : x[1] # x[2]
  /\ Retrying \subseteq Client /\ AskBudget \in Nat /\ SessionSpan \in Nat \ {0}

VARIABLES
  users,     \* facilitator: User of each connected client, or NoUser
  attempts,  \* facilitator: the ConnectionAttempts; a user's list holds them
             \* in the order of their sessions
  sessionId, \* facilitator: the next session
  linked,    \* clients that believe to be connected to the facilitator
  up,        \* messages to the facilitator
  down,      \* messages from the facilitator
  sp,        \* clients: SendPing, the punch in progress
  failed,    \* clients: failedAttemptList
  stride,    \* clients: hasPortStride
  queued,    \* clients: queuedOpenNat
  oob,       \* out of band datagrams under way
  asked,     \* ghost: OpenNAT calls the application has no answer to
  left,      \* ghost: clients that have lost the facilitator, or it them
  budget     \* ghost: calls of OpenNAT that may still come

vars == <<users, attempts, sessionId, linked, up, down, sp, failed, stride,
          queued, oob, asked, left, budget>>
serverVars == <<users, attempts, sessionId>>
clientVars == <<sp, failed, stride, queued, asked>>

NoUser == [ready |-> FALSE, port |-> -1]
NoPort == 0
Idle == [mode |-> "IDLE", target |-> "NONE", session |-> 0, sender |-> FALSE]

Init ==
  /\ users = [c \in Client |-> [ready |-> TRUE, port |-> NoPort]]
  /\ attempts = {} /\ sessionId = 1
  /\ linked = Client
  /\ up = [c \in Client |-> <<>>] /\ down = [c \in Client |-> <<>>]
  /\ sp = [c \in Client |-> Idle]
  /\ failed = [c \in Client |-> {}]
  /\ stride = [c \in Client |-> IF c \in Strideless THEN "UNKNOWN" ELSE "KNOWN"]
  /\ queued = [c \in Client |-> <<>>]
  /\ oob = {}
  /\ asked = [c \in Client |-> {}]
  /\ left = {} /\ budget = AskBudget

-----------------------------------------------------------------------------
(* The facilitator                                                         *)

IsUser(c) == users[c] # NoUser
Of(a, c) == a.sender = c \/ a.recipient = c
Other(a, c) == IF a.sender = c THEN a.recipient ELSE a.sender
Msg(t, id, other, sender) == [type |-> t, id |-> id, other |-> other, sender |-> sender]
Request(d) == Msg("REQUEST", 0, d, TRUE)
Ready == Msg("CLIENT_READY", 0, "NONE", FALSE)

(* A session is numbered without wrapping; the code compares uint16_t.     *)
SameSession(i, j) == i % SessionSpan = j % SessionSpan

(* The facilitator's state while a handler runs: users, attempts and what  *)
(* it has sent.                                                            *)
Now == [users |-> users, attempts |-> attempts, down |-> down]
Tell(f, c, m) == [f EXCEPT !.down[c] = Append(@, m)]
Without(f, a) == [f EXCEPT !.attempts = @ \ {a}]
Oldest(S) == CHOOSE a \in S : \A b \in S : a.id <= b.id

(* Mutant: the other user need not be ready.                               *)
StartableAlone(f, c) == {a \in f.attempts : Of(a, c) /\ f.users[c].ready}
(* StartPunchthroughForUser: the first attempt of a ready user whose other *)
(* user is ready too.                                                      *)
Startable(f, c) ==
  {a \in f.attempts : Of(a, c) /\ f.users[c].ready /\ f.users[Other(a, c)].ready}
StartPunchthroughForUser(f, c) ==
  IF Startable(f, c) = {} THEN f
  ELSE LET a == Oldest(Startable(f, c))
           begun == [a EXCEPT !.phase = "GETTING_RECENT_PORTS"]
           waiting == [ready |-> FALSE, port |-> NoPort]
           ask == Msg("GET_PORT", a.id, "NONE", FALSE)
           g == [f EXCEPT !.attempts = (@ \ {a}) \cup {begun},
                          !.users[a.sender] = waiting, !.users[a.recipient] = waiting]
       IN  Tell(Tell(g, a.sender, ask), a.recipient, ask)

Serve(f) == users' = f.users /\ attempts' = f.attempts /\ down' = f.down
(* The facilitator handles the oldest message of a user.                   *)
Receives(c, t) ==
  /\ IsUser(c) /\ up[c] # <<>> /\ Head(up[c]).type = t
  /\ up' = [up EXCEPT ![c] = Tail(@)]
  /\ UNCHANGED <<linked, oob, left, budget>> /\ UNCHANGED clientVars

OnNATPunchthroughRequest(c) ==
  /\ Receives(c, "REQUEST")
  /\ sessionId' = sessionId + 1
  /\ LET d == Head(up[c]).other
         a == [id |-> sessionId, sender |-> c, recipient |-> d, phase |-> "NOT_STARTED"]
     IN  Serve(CASE ~IsUser(d) -> Tell(Now, c, Msg("TARGET_NOT_CONNECTED", 0, d, FALSE))
                 [] IsUser(d) /\ \E x \in attempts : Of(x, c) /\ Of(x, d) ->
                      Tell(Now, c, Msg("ALREADY_IN_PROGRESS", 0, d, FALSE))
                 [] OTHER -> StartPunchthroughForUser(
                               [Now EXCEPT !.attempts = @ \cup {a}], c))

(* Mutant: a ready user's attempts are not looked at.                      *)
OnClientReadyOnly(c) ==
  /\ Receives(c, "CLIENT_READY")
  /\ Serve([Now EXCEPT !.users[c].ready = TRUE])
  /\ UNCHANGED sessionId
OnClientReady(c) ==
  /\ Receives(c, "CLIENT_READY")
  /\ Serve(StartPunchthroughForUser([Now EXCEPT !.users[c].ready = TRUE], c))
  /\ UNCHANGED sessionId

(* OnGetMostRecentPort: the port counts, whichever session it was told     *)
(* for; the attempt of the session told for goes on if both ports are in.  *)
OnMostRecentPort(c) ==
  /\ Receives(c, "PORT")
  /\ LET id == Head(up[c]).id
         f == [Now EXCEPT !.users[c].port = id]
         both == {a \in attempts :
                   /\ Of(a, c) /\ a.phase = "GETTING_RECENT_PORTS" /\ SameSession(a.id, id)
                   /\ f.users[a.sender].port # NoPort
                   /\ f.users[a.recipient].port # NoPort}
     IN  Serve(IF both = {} THEN f
               ELSE LET a == Oldest(both)
                        g == Tell(f, a.recipient, Msg("CONNECT_AT_TIME", a.id, a.sender, FALSE))
                    IN  Without(Tell(g, a.sender, Msg("CONNECT_AT_TIME", a.id, a.recipient, TRUE)), a))
  /\ UNCHANGED sessionId

(* Update: ten seconds without both ports.                                 *)
AttemptTimeout(c) ==
  /\ \E a \in attempts :
       /\ a.sender = c /\ a.phase = "GETTING_RECENT_PORTS"
       /\ LET f == Tell(Tell(Now, c, Msg("TARGET_UNRESPONSIVE", a.id, a.recipient, FALSE)),
                        a.recipient, Msg("TARGET_UNRESPONSIVE", a.id, c, FALSE))
              g == Without([f EXCEPT !.users[c].ready = TRUE,
                                     !.users[a.recipient].ready = TRUE], a)
          IN  Serve(StartPunchthroughForUser(StartPunchthroughForUser(g, c), a.recipient))
  /\ UNCHANGED <<sessionId, linked, up, oob, left, budget>> /\ UNCHANGED clientVars

(* OnClosedConnection: the other user of each attempt is told, and free    *)
(* again if the attempt had begun.  Two users have one attempt at most.    *)
Mine(c) == {a \in attempts : Of(a, c)}
Between(c, d) == CHOOSE a \in Mine(c) : Of(a, d)
Begun(a) == a.phase = "GETTING_RECENT_PORTS"
Partners(c) == {Other(a, c) : a \in Mine(c)}
Freed(c) == {Other(a, c) : a \in {x \in Mine(c) : Begun(x)}}
(* Mutant: the attempts of a user that has gone are kept.                  *)
AttemptsKept(c) == attempts
Remaining(c) == attempts \ Mine(c)
LoseAttempts(c) ==
  [users |-> [d \in Client |-> CASE d = c -> NoUser
                                 [] d # c /\ d \in Freed(c) -> [users[d] EXCEPT !.ready = TRUE]
                                 [] OTHER -> users[d]],
   attempts |-> Remaining(c),
   down |-> [d \in Client |->
               CASE d = c -> <<>>
                 [] d # c /\ d \in Partners(c) ->
                      Append(down[d], Msg("TO_TARGET_LOST", Between(c, d).id, c, FALSE))
                 [] OTHER -> down[d]]]
(* The freed users start what they can, in the order of their attempts.    *)
StartFreed(c) ==
  LET step[n \in 0 .. sessionId] ==
        IF n = 0 THEN LoseAttempts(c)
        ELSE IF \E a \in Mine(c) : a.id = n /\ Begun(a)
             THEN StartPunchthroughForUser(
                    step[n - 1], Other(CHOOSE a \in Mine(c) : a.id = n, c))
             ELSE step[n - 1]
  IN  step[sessionId]
FacilitatorLoses(c) ==
  /\ IsUser(c)
  /\ c \in linked => c \in Leavers \ left
  /\ left' = left \cup {c}
  /\ Serve(StartFreed(c))
  /\ up' = [up EXCEPT ![c] = <<>>]
  /\ UNCHANGED <<sessionId, linked, oob, budget>> /\ UNCHANGED clientVars

(* OnNewConnection, after both ends have dropped the old connection.       *)
Reconnect(c) ==
  /\ ~IsUser(c) /\ c \notin linked
  /\ users' = [users EXCEPT ![c] = [ready |-> TRUE, port |-> NoPort]]
  /\ linked' = linked \cup {c}
  /\ up' = [up EXCEPT ![c] = <<>>] /\ down' = [down EXCEPT ![c] = <<>>]
  /\ UNCHANGED <<attempts, sessionId, oob, left, budget>> /\ UNCHANGED clientVars

-----------------------------------------------------------------------------
(* A client                                                                *)

Punching(c) == sp[c].mode # "IDLE"
(* The datagrams of the punch in progress that are on their way to c: once *)
(* the punch is over nobody will listen to them.                           *)
StillComing(c) == {m \in oob : m.to = c /\ SameSession(m.session, sp[c].session)}
SendUp(c, msgs) ==
  up' = [up EXCEPT ![c] = @ \o IF c \in linked /\ IsUser(c) THEN msgs ELSE <<>>]
Reported(c, others) == asked' = [asked EXCEPT ![c] = @ \ others]

(* OpenNAT: the request waits until the port stride is known.              *)
OpenNAT(c, d) ==
  /\ <<c, d>> \in Asks /\ c \in linked
  /\ budget > 0 /\ budget' = budget - 1
  /\ asked' = [asked EXCEPT ![c] = @ \cup {d}]
  /\ IF stride[c] = "KNOWN"
     THEN SendUp(c, <<Request(d)>>) /\ UNCHANGED <<stride, queued>>
     ELSE /\ stride' = [stride EXCEPT ![c] = "CALCULATING"]
          /\ queued' = [queued EXCEPT ![c] = Append(@, d)]
          /\ UNCHANGED up
  /\ UNCHANGED <<linked, down, sp, failed, oob, left>> /\ UNCHANGED serverVars

(* The port stride is found, or is found not to be, or takes five seconds. *)
QueuedRequests(c) == [i \in DOMAIN queued[c] |-> Request(queued[c][i])]
PortStrideEnds(c) ==
  /\ stride[c] = "CALCULATING"
  /\ \E s \in {"KNOWN", "UNKNOWN"} : stride' = [stride EXCEPT ![c] = s]
  /\ SendUp(c, QueuedRequests(c))
  /\ queued' = [queued EXCEPT ![c] = <<>>]
  /\ UNCHANGED <<linked, down, sp, failed, oob, asked, left, budget>> /\ UNCHANGED serverVars

Hears(c, types) ==
  /\ c \in linked /\ down[c] # <<>> /\ Head(down[c]).type \in types
  /\ down' = [down EXCEPT ![c] = Tail(@)]
  /\ UNCHANGED <<linked, stride, queued, left, budget>> /\ UNCHANGED serverVars

OnGetMostRecentPort(c) ==
  /\ Hears(c, {"GET_PORT"})
  /\ SendUp(c, <<Msg("PORT", Head(down[c]).id, "NONE", FALSE)>>)
  /\ UNCHANGED <<sp, failed, oob, asked>>

OnConnectAtTime(c) ==
  /\ Hears(c, {"CONNECT_AT_TIME"})
  /\ LET m == Head(down[c])
     IN  sp' = [sp EXCEPT ![c] = [mode |-> "TESTING", target |-> m.other,
                                  session |-> m.id, sender |-> m.sender]]
  /\ oob' = oob \ StillComing(c)
  /\ UNCHANGED <<up, failed, asked>>

OnAlreadyInProgress(c) ==
  /\ Hears(c, {"ALREADY_IN_PROGRESS"})
  /\ Reported(c, {Head(down[c]).other})
  /\ UNCHANGED <<up, sp, failed, oob>>

(* The application gets the message in any case.  The punch in progress    *)
(* ends; a message about a session must be about the one in progress.      *)
OnTargetGone(c) ==
  /\ Hears(c, {"TARGET_NOT_CONNECTED", "TO_TARGET_LOST", "TARGET_UNRESPONSIVE"})
  /\ LET m == Head(down[c])
         stop == m.type = "TARGET_NOT_CONNECTED" \/ SameSession(m.id, sp[c].session)
     IN  /\ Reported(c, {m.other})
         /\ failed' = IF stop THEN [failed EXCEPT ![c] = @ \ {m.other}] ELSE failed
         /\ sp' = IF stop THEN [sp EXCEPT ![c].mode = "IDLE"] ELSE sp
         /\ oob' = IF stop THEN oob \ StillComing(c) ELSE oob
  /\ UNCHANGED up

(* Update: datagrams are sent to the target, and after the last of them    *)
(* the client waits a while.                                               *)
Listens(d, id) ==
  \/ Punching(d) /\ SameSession(sp[d].session, id)
  \/ \E m \in ToSet(down[d]) : m.type = "CONNECT_AT_TIME" /\ SameSession(m.id, id)
Datagram(t, c) ==
  {m \in {[type |-> t, from |-> c, to |-> sp[c].target, session |-> sp[c].session]} :
     Listens(m.to, m.session)}
SendOutOfBand(c) ==
  /\ sp[c].mode \in {"TESTING", "PUNCHING_FIXED_PORT"}
  /\ oob' = oob \cup Datagram(IF sp[c].mode = "TESTING" THEN "UNIDIRECTIONAL"
                              ELSE "BIDIRECTIONAL", c)
  /\ UNCHANGED <<linked, up, down, left, budget>> /\ UNCHANGED <<serverVars, clientVars>>
AllSent(c) ==
  /\ sp[c].mode \in {"TESTING", "PUNCHING_FIXED_PORT"}
  /\ sp' = [sp EXCEPT ![c].mode = "WAITING_AFTER_ALL_ATTEMPTS"]
  /\ UNCHANGED <<linked, up, down, failed, stride, queued, oob, asked, left, budget>>
  /\ UNCHANGED serverVars

AfterFailure(c, final, again) ==
  CASE again /\ sp[c].sender -> <<Ready, Request(sp[c].target)>>
    [] final \/ (again /\ ~sp[c].sender) -> <<Ready>>
    [] OTHER -> <<>>
(* OnPunchthroughFailure: the first failure is tried again, by the sender  *)
(* of the request; without the facilitator it is reported, again and again.*)
OnPunchthroughFailure(c) ==
  LET d == sp[c].target
      final == c \notin Retrying \/ d \in failed[c]
      again == ~final /\ c \in linked
  IN  /\ sp[c].mode = "WAITING_AFTER_ALL_ATTEMPTS"
      /\ sp' = IF final \/ again THEN [sp EXCEPT ![c].mode = "IDLE"] ELSE sp
      /\ Reported(c, IF again THEN {} ELSE {d})
      /\ failed' = [failed EXCEPT ![c] =
           CASE again -> @ \cup {d} [] final /\ c \in Retrying -> @ \ {d} [] OTHER -> @]
      /\ SendUp(c, AfterFailure(c, final, again))
      /\ oob' = IF final \/ again THEN oob \ StillComing(c) ELSE oob
      /\ UNCHANGED <<linked, down, stride, queued, left, budget>>
      /\ UNCHANGED serverVars

(* A datagram of the punch in progress.                                    *)
Arrived(c, t, d) == {m \in StillComing(c) : m.type = t /\ m.from = d}
Gets(c, t, d) == Punching(c) /\ sp[c].target = d /\ Arrived(c, t, d) # {}
Taken(c, t, d) == oob \ Arrived(c, t, d)
OnEstablishUnidirectional(c, d) ==
  /\ Gets(c, "UNIDIRECTIONAL", d)
  /\ sp' = [sp EXCEPT ![c].mode = "PUNCHING_FIXED_PORT"]
  /\ oob' = Taken(c, "UNIDIRECTIONAL", d) \cup Datagram("BIDIRECTIONAL", c)
  /\ UNCHANGED <<linked, up, down, failed, stride, queued, asked, left, budget>>
  /\ UNCHANGED serverVars
(* The port the other end saw also gives the stride, unless an internal    *)
(* address is being tested.                                                *)
OnEstablishBidirectional(c, d) ==
  /\ Gets(c, "BIDIRECTIONAL", d)
  /\ oob' = (oob \ StillComing(c)) \cup Datagram("BIDIRECTIONAL", c)
  /\ \/ /\ sp[c].mode = "TESTING"
        /\ SendUp(c, <<Ready>>)
        /\ UNCHANGED <<stride, queued>>
     \/ /\ stride' = [stride EXCEPT ![c] = "KNOWN"]
        /\ queued' = [queued EXCEPT ![c] = <<>>]
        /\ SendUp(c, Append(QueuedRequests(c), Ready))
  /\ Reported(c, {d})
  /\ sp' = [sp EXCEPT ![c].mode = "IDLE"]
  /\ failed' = [failed EXCEPT ![c] = @ \ {d}]
  /\ UNCHANGED <<linked, down, left, budget>> /\ UNCHANGED serverVars

(* OnClosedConnection: earlier failures that wait for another try are      *)
(* reported, in the name of the last target.  The application knows that   *)
(* its other calls go unanswered.                                          *)
ClientLoses(c) ==
  LET kept == IF Punching(c) THEN failed[c] \cap {sp[c].target} ELSE {}
  IN  /\ c \in linked
      /\ IsUser(c) => c \in Leavers \ left
      /\ left' = left \cup {c}
      /\ linked' = linked \ {c}
      /\ Reported(c, asked[c])
      /\ failed' = [failed EXCEPT ![c] = kept]
      /\ down' = [down EXCEPT ![c] = <<>>]
      /\ UNCHANGED <<up, sp, stride, queued, oob, budget>> /\ UNCHANGED serverVars

-----------------------------------------------------------------------------
FacilitatorStep(c) ==
  OnNATPunchthroughRequest(c) \/ OnClientReady(c) \/ OnMostRecentPort(c)
ClientStep(c) ==
  \/ OnGetMostRecentPort(c) \/ OnConnectAtTime(c) \/ OnAlreadyInProgress(c)
  \/ OnTargetGone(c)
UpdateStep(c) == AllSent(c) \/ OnPunchthroughFailure(c)
Leave(c) == FacilitatorLoses(c) \/ ClientLoses(c)

Next ==
  \E c \in Client :
    \/ FacilitatorStep(c) \/ AttemptTimeout(c) \/ Leave(c) \/ Reconnect(c)
    \/ ClientStep(c) \/ UpdateStep(c) \/ SendOutOfBand(c) \/ PortStrideEnds(c)
    \/ \E d \in Client : OpenNAT(c, d) \/ OnEstablishUnidirectional(c, d)
                         \/ OnEstablishBidirectional(c, d)

Spec == Init /\ [][Next]_vars
(* Fairness: both plugins are updated on every cycle, so a punch ends and  *)
(* the port stride is found or given up; the reliable ordered messages of  *)
(* a connection arrive; once one end has lost the connection the other end *)
(* notices.  Nothing is assumed of the datagrams or of the applications.   *)
Fairness ==
  \A c \in Client :
    /\ WF_vars(FacilitatorStep(c)) /\ WF_vars(ClientStep(c))
    /\ WF_vars(AllSent(c)) /\ WF_vars(OnPunchthroughFailure(c))
    /\ WF_vars(PortStrideEnds(c))
    /\ WF_vars(IsUser(c) # (c \in linked) /\ Leave(c))
FairSpec == Spec /\ Fairness

-----------------------------------------------------------------------------
Attempt == [id : Nat, sender : Client, recipient : Client,
            phase : {"NOT_STARTED", "GETTING_RECENT_PORTS"}]
Message == [type : {"REQUEST", "CLIENT_READY", "PORT", "GET_PORT", "CONNECT_AT_TIME",
                    "ALREADY_IN_PROGRESS", "TARGET_NOT_CONNECTED", "TO_TARGET_LOST",
                    "TARGET_UNRESPONSIVE"},
            id : Nat, other : Client \cup {"NONE"}, sender : BOOLEAN]
(* The variables have their types.                                         *)
TypeOK ==
  /\ users \in [Client -> [ready : BOOLEAN, port : Nat] \cup {NoUser}]
  /\ attempts \subseteq Attempt /\ sessionId \in Nat /\ linked \subseteq Client
  /\ up \in [Client -> Seq(Message)] /\ down \in [Client -> Seq(Message)]
  /\ sp \in [Client -> [mode : {"IDLE", "TESTING", "PUNCHING_FIXED_PORT",
                                "WAITING_AFTER_ALL_ATTEMPTS"},
                        target : Client \cup {"NONE"}, session : Nat, sender : BOOLEAN]]
  /\ failed \in [Client -> SUBSET Client]
  /\ stride \in [Client -> {"UNKNOWN", "CALCULATING", "KNOWN"}]
  /\ queued \in [Client -> Seq(Client)]
  /\ asked \in [Client -> SUBSET Client]
  /\ left \subseteq Leavers /\ budget \in 0..AskBudget

(* No attempt waits while both its users are ready: each handler that     *)
(* makes a user ready, ends an attempt or adds one also starts what can be *)
(* started (StartPunchthroughForUser).                                     *)
NoIdlePair ==
  \A a \in attempts : ~users[a.sender].ready \/ ~users[a.recipient].ready

(* A client that has never lost the facilitator is in one punch at most,   *)
(* counting those the facilitator prepares, those it has announced and the *)
(* one in progress, and in none while it is ready or has said so: a punch  *)
(* would be overwritten without a result (OnConnectAtTime, whose assertion *)
(* that no punch is in progress is commented out).                         *)
Prepared(c) == {a \in Mine(c) : Begun(a)}
Announced(c) == {i \in DOMAIN down[c] : down[c][i].type = "CONNECT_AT_TIME"}
OneAtATime ==
  \A c \in Client \ left :
    LET n == Cardinality(Prepared(c)) + Cardinality(Announced(c))
             + (IF Punching(c) THEN 1 ELSE 0)
    IN  n <= IF users[c].ready \/ Ready \in ToSet(up[c]) THEN 0 ELSE 1


(* Every OpenNAT is answered with success or a failure, unless the client  *)
(* that asked loses the facilitator.  nat_punchthrough_client.h says "You  *)
(* will get ID_NAT_PUNCHTHROUGH_SUCCEEDED on success", one of five others  *)
(* "on failures of various types", and "However, if you lose connection to *)
(* the facilitator, you may not necessarily get above".                    *)
OpenNATAnswered ==
  \A x \in Asks : (x[2] \in asked[x[1]]) ~> (x[2] \notin asked[x[1]])
=============================================================================
