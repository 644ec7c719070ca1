----------------------- MODULE NatPunchthroughProofs -----------------------
(***************************************************************************)
(* What NatPunchthrough promises for any number of clients, requests,      *)
(* retries and lost connections: the types, that no attempt waits between  *)
(* two ready users, and that a client that has kept the facilitator is in  *)
(* one punch at most.                                                      *)
(*                                                                         *)
(* The last rests on a token: of being ready, a CLIENT_READY on its way, a *)
(* prepared attempt, an announced punch and a punch in progress a client   *)
(* has one at most, and every handler only passes it on.                   *)
(***************************************************************************)
EXTENDS NatPunchthrough, WireArithmetic, FiniteSetTheorems

-----------------------------------------------------------------------------
(* The inductive invariant                                                 *)

User == [ready : BOOLEAN, port : Nat]
(* What a handler of the facilitator works on.                             *)
FacilitatorState ==
  [users : [Client -> User \cup {NoUser}], attempts : SUBSET Attempt,
   down : [Client -> Seq(Message)]]

(* The attempts of facilitator state f are between two different users and *)
(* have sessions of their own below sid.                                   *)
Sound(f, sid) ==
  /\ \A a \in f.attempts :
       /\ a.sender # a.recipient /\ a.id \in 1 .. sid - 1
       /\ f.users[a.sender] # NoUser /\ f.users[a.recipient] # NoUser
  /\ \A a, b \in f.attempts : a.id = b.id => a = b
(* A message of type t names a client other than c.                        *)
Names(s, t, c) == \A i \in DOMAIN s : s[i].type = t => s[i].other \in Client \ {c}

Holds(s, t) == \E i \in DOMAIN s : s[i].type = t
Once(s, t) == \A i, j \in DOMAIN s : s[i].type = t /\ s[j].type = t => i = j
Prepares(f, c) == {a \in f.attempts : Of(a, c) /\ Begun(a)}
(* The token of client c: u is its way up, punching whether it punches.    *)
Token(f, u, punching, c) ==
  /\ Once(u, "CLIENT_READY") /\ Once(f.down[c], "CONNECT_AT_TIME")
  /\ \A a, b \in Prepares(f, c) : a = b
  /\ f.users[c].ready =>
       ~Holds(u, "CLIENT_READY") /\ Prepares(f, c) = {}
       /\ ~Holds(f.down[c], "CONNECT_AT_TIME") /\ ~punching
  /\ Holds(u, "CLIENT_READY") =>
       Prepares(f, c) = {} /\ ~Holds(f.down[c], "CONNECT_AT_TIME") /\ ~punching
  /\ Prepares(f, c) # {} => ~Holds(f.down[c], "CONNECT_AT_TIME") /\ ~punching
  /\ Holds(f.down[c], "CONNECT_AT_TIME") => ~punching

(* What holds of the facilitator between any two steps of a handler: ways  *)
(* up u, punching clients P, clients L that have lost the connection.      *)
Consistent(f, sid, u, P, L) ==
  /\ f \in FacilitatorState /\ Sound(f, sid)
  /\ \A c \in Client : f.users[c] = NoUser => c \in L
  /\ \A c \in Client : Names(f.down[c], "CONNECT_AT_TIME", c)
  /\ \A c \in Client \ L : Token(f, u[c], c \in P, c)
(* Attempts between two ready users wait only for a user of D.             *)
IdleOnlyOf(f, D) ==
  \A a \in f.attempts :
    f.users[a.sender].ready /\ f.users[a.recipient].ready => \E d \in D : Of(a, d)

(* The clients' side: whom a request or a punch may be for.                *)
Addressed ==
  \A c \in Client :
    /\ Names(up[c], "REQUEST", c)
    /\ \A i \in DOMAIN queued[c] : queued[c][i] # c
    /\ Punching(c) => sp[c].target \in Client \ {c}
    /\ c \notin linked => c \in left
SendPing == [mode : {"IDLE", "TESTING", "PUNCHING_FIXED_PORT", "WAITING_AFTER_ALL_ATTEMPTS"},
             target : Client \cup {"NONE"}, session : Nat, sender : BOOLEAN]
(* The part of TypeOK that is not about the facilitator.                   *)
ClientsTyped ==
  /\ sessionId \in Nat \ {0} /\ linked \subseteq Client /\ up \in [Client -> Seq(Message)]
  /\ sp \in [Client -> SendPing] /\ failed \in [Client -> SUBSET Client]
  /\ stride \in [Client -> {"UNKNOWN", "CALCULATING", "KNOWN"}]
  /\ queued \in [Client -> Seq(Client)] /\ asked \in [Client -> SUBSET Client]
  /\ left \subseteq Leavers /\ budget \in 0 .. AskBudget
Punchers == {c \in Client : Punching(c)}
NatInv ==
  /\ ClientsTyped /\ Addressed
  /\ Consistent(Now, sessionId, up, Punchers, left)
  /\ IdleOnlyOf(Now, {})

-----------------------------------------------------------------------------
(* Sequences of messages                                                   *)

(* What a message at the end adds.                                         *)
LEMMA MessageAppend ==
  ASSUME NEW s \in Seq(Message), NEW m \in Message, NEW t
  PROVE  /\ Append(s, m) \in Seq(Message)
         /\ m.type # t => Holds(Append(s, m), t) = Holds(s, t)
         /\ m.type # t /\ Once(s, t) => Once(Append(s, m), t)
         /\ ~Holds(s, t) => Once(Append(s, m), t)
         /\ \A c : (m.type = t => m.other \in Client \ {c}) /\ Names(s, t, c)
                     => Names(Append(s, m), t, c)
  <1> DEFINE v == Append(s, m)
  <1>1. /\ v \in Seq(Message) /\ v[Len(s) + 1] = m /\ Len(s) + 1 \in DOMAIN v
        /\ \A i \in DOMAIN s : v[i] = s[i] /\ i \in DOMAIN v
        /\ \A i \in DOMAIN v : i \in DOMAIN s \/ i = Len(s) + 1
    OBVIOUS
  <1> HIDE DEF v
  <1>2. m.type # t => Holds(v, t) = Holds(s, t) BY <1>1 DEF Holds
  <1>3. m.type # t /\ Once(s, t) => Once(v, t) BY <1>1 DEF Once
  <1>4. ~Holds(s, t) => Once(v, t) BY <1>1 DEF Once, Holds
  <1>5. \A c : (m.type = t => m.other \in Client \ {c}) /\ Names(s, t, c) => Names(v, t, c)
    BY <1>1 DEF Names
  <1> QED BY <1>1, <1>2, <1>3, <1>4, <1>5 DEF v

(* What is left when the first message is taken.                           *)
LEMMA MessageTail ==
  ASSUME NEW s \in Seq(Message), s # <<>>, NEW t
  PROVE  /\ Tail(s) \in Seq(Message)
         /\ Head(s) \in Message
         /\ Holds(Tail(s), t) => Holds(s, t)
         /\ Head(s).type = t => Holds(s, t)
         /\ Once(s, t) => Once(Tail(s), t)
         /\ Head(s).type = t /\ Once(s, t) => ~Holds(Tail(s), t)
         /\ \A c : Names(s, t, c) => Names(Tail(s), t, c)
         /\ \A c : Names(s, t, c) /\ Head(s).type = t => Head(s).other \in Client \ {c}
  <1> DEFINE v == Tail(s)
  <1>1. /\ Head(s) = s[1] /\ 1 \in DOMAIN s /\ v \in Seq(Message) /\ s[1] \in Message
        /\ \A j \in DOMAIN v : j \in Nat \ {0} /\ v[j] = s[j + 1] /\ j + 1 \in DOMAIN s
    OBVIOUS
  <1> HIDE DEF v
  <1>2. Holds(v, t) => Holds(s, t) BY <1>1 DEF Holds
  <1>3. Head(s).type = t => Holds(s, t) BY <1>1 DEF Holds
  <1>4. Once(s, t) => Once(v, t)
    <2> SUFFICES ASSUME Once(s, t), NEW i \in DOMAIN v, NEW j \in DOMAIN v,
                        v[i].type = t, v[j].type = t
                 PROVE  i = j
      BY DEF Once
    <2>1. i + 1 = j + 1 BY <1>1 DEF Once
    <2> QED BY <1>1, <2>1
  <1>5. Head(s).type = t /\ Once(s, t) => ~Holds(v, t)
    <2> SUFFICES ASSUME Head(s).type = t, Once(s, t), NEW j \in DOMAIN v, v[j].type = t
                 PROVE  FALSE
      BY DEF Holds
    <2>1. 1 = j + 1 BY <1>1 DEF Once
    <2> QED BY <1>1, <2>1
  <1>6. \A c : Names(s, t, c) => Names(v, t, c) BY <1>1 DEF Names
  <1>7. \A c : Names(s, t, c) /\ Head(s).type = t => Head(s).other \in Client \ {c}
    BY <1>1 DEF Names
  <1> QED BY <1>1, <1>2, <1>3, <1>4, <1>5, <1>6, <1>7 DEF v

(* What messages without one of type t add.                                *)
LEMMA MessageConcat ==
  ASSUME NEW s \in Seq(Message), NEW r \in Seq(Message), NEW t
  PROVE  /\ s \o r \in Seq(Message)
         /\ ~Holds(r, t) => Holds(s \o r, t) = Holds(s, t)
         /\ ~Holds(r, t) /\ Once(s, t) => Once(s \o r, t)
         /\ ~Holds(s, t) /\ Once(r, t) => Once(s \o r, t)
         /\ \A c : Names(s, t, c) /\ Names(r, t, c) => Names(s \o r, t, c)
  <1> DEFINE v == s \o r
             n == Len(s)
  <1>1. /\ v \in Seq(Message) /\ n \in Nat
        /\ \A i \in DOMAIN s : v[i] = s[i] /\ i \in DOMAIN v /\ i \in Int
        /\ \A i \in DOMAIN v : i \in Int /\ (i \in DOMAIN s \/ (i - n \in DOMAIN r /\ v[i] = r[i - n]))
    OBVIOUS
  <1> HIDE DEF v, n
  <1>2. ~Holds(r, t) => Holds(v, t) = Holds(s, t) BY <1>1 DEF Holds
  <1>3. ~Holds(r, t) /\ Once(s, t) => Once(v, t) BY <1>1 DEF Once, Holds
  <1>4. ~Holds(s, t) /\ Once(r, t) => Once(v, t)
    <2> SUFFICES ASSUME ~Holds(s, t), Once(r, t), NEW i \in DOMAIN v, NEW j \in DOMAIN v,
                        v[i].type = t, v[j].type = t
                 PROVE  i = j
      BY DEF Once
    <2>1. /\ i - n \in DOMAIN r /\ v[i] = r[i - n] /\ i \in Int
          /\ j - n \in DOMAIN r /\ v[j] = r[j - n] /\ j \in Int
      BY <1>1 DEF Holds
    <2>2. i - n = j - n BY <2>1 DEF Once
    <2> QED BY <1>1, <2>1, <2>2
  <1>5. \A c : Names(s, t, c) /\ Names(r, t, c) => Names(v, t, c) BY <1>1 DEF Names
  <1> QED BY <1>1, <1>2, <1>3, <1>4, <1>5 DEF v

(* The messages the two sides send.                                        *)
LEMMA Messages ==
  ASSUME NEW i \in Nat, NEW d \in Client, NEW b \in BOOLEAN
  PROVE  /\ Ready \in Message /\ Ready.type = "CLIENT_READY"
         /\ Request(d) \in Message /\ Request(d).type = "REQUEST" /\ Request(d).other = d
         /\ \A t \in {"PORT", "GET_PORT"} :
              Msg(t, i, "NONE", FALSE) \in Message /\ Msg(t, i, "NONE", FALSE).type = t
         /\ \A t \in {"CONNECT_AT_TIME", "ALREADY_IN_PROGRESS", "TARGET_NOT_CONNECTED",
                      "TO_TARGET_LOST", "TARGET_UNRESPONSIVE"} :
              /\ Msg(t, i, d, b) \in Message /\ Msg(t, i, d, b).type = t
              /\ Msg(t, i, d, b).other = d
  BY DEF Ready, Request, Msg, Message

-----------------------------------------------------------------------------
(* The facilitator's operators                                             *)

(* The oldest of some attempts is one of them.                             *)
LEMMA OldestIn ==
  ASSUME NEW S \in SUBSET Attempt, S # {} PROVE Oldest(S) \in S
  <1> DEFINE T == {a.id : a \in S}
  <1>1. T \in SUBSET Nat /\ T # {} BY DEF Attempt
  <1>2. PICK n \in T : \A m \in T : n <= m BY <1>1, LeastNumber
  <1>3. \E a \in S : \A b \in S : a.id <= b.id BY <1>2
  <1> QED BY <1>3 DEF Oldest

(* Tell adds a message on one way down.                                    *)
LEMMA TellEffect ==
  ASSUME NEW f \in FacilitatorState, NEW c \in Client, NEW m \in Message
  PROVE  /\ Tell(f, c, m) \in FacilitatorState
         /\ Tell(f, c, m).users = f.users /\ Tell(f, c, m).attempts = f.attempts
         /\ Tell(f, c, m).down = [f.down EXCEPT ![c] = Append(@, m)]
  <1>1. /\ f.users \in [Client -> User \cup {NoUser}] /\ f.attempts \in SUBSET Attempt
        /\ f.down \in [Client -> Seq(Message)]
        /\ f = [users |-> f.users, attempts |-> f.attempts, down |-> f.down]
    BY DEF FacilitatorState
  <1> DEFINE e == [f.down EXCEPT ![c] = Append(@, m)]
  <1>2. Append(f.down[c], m) \in Seq(Message) BY <1>1
  <1>3. e \in [Client -> Seq(Message)] BY <1>1, <1>2
  <1>4. Tell(f, c, m) = [f EXCEPT !.down = e] BY DEF Tell
  <1> HIDE DEF e
  <1>5. Tell(f, c, m) = [users |-> f.users, attempts |-> f.attempts, down |-> e] BY <1>1, <1>4
  <1>6. Tell(f, c, m) \in FacilitatorState BY <1>1, <1>3, <1>5 DEF FacilitatorState
  <1> QED BY <1>5, <1>6 DEF e

(* Attempt a begins: g follows f.                                          *)
Waiting == [ready |-> FALSE, port |-> NoPort]
PortAsked(a) == Msg("GET_PORT", a.id, "NONE", FALSE)
Starts(f, a, g) ==
  /\ g \in FacilitatorState
  /\ g.attempts = (f.attempts \ {a}) \cup {[a EXCEPT !.phase = "GETTING_RECENT_PORTS"]}
  /\ \A x \in Client :
       /\ g.users[x] = IF Of(a, x) THEN Waiting ELSE f.users[x]
       /\ g.down[x] = IF Of(a, x) THEN Append(f.down[x], PortAsked(a)) ELSE f.down[x]

(* The attempt with the phase of one that has begun.                       *)
LEMMA BegunAttempt ==
  ASSUME NEW a \in Attempt, NEW b, b = [a EXCEPT !.phase = "GETTING_RECENT_PORTS"]
  PROVE  /\ b \in Attempt /\ b.id = a.id /\ b.sender = a.sender /\ b.recipient = a.recipient
         /\ b.phase = "GETTING_RECENT_PORTS" /\ \A x : Of(b, x) = Of(a, x)
  BY DEF Attempt, Of

(* StartPunchthroughForUser starts an attempt that can start, if there is  *)
(* one.                                                                    *)
LEMMA StartEffect ==
  ASSUME NEW f \in FacilitatorState, NEW c \in Client,
         \A a \in f.attempts : a.sender # a.recipient
  PROVE  \/ Startable(f, c) = {} /\ StartPunchthroughForUser(f, c) = f
         \/ \E a \in Startable(f, c) : Starts(f, a, StartPunchthroughForUser(f, c))
  <1>1. CASE Startable(f, c) = {} BY <1>1 DEF StartPunchthroughForUser
  <1>2. CASE Startable(f, c) # {}
    <2> DEFINE a == Oldest(Startable(f, c))
               begun == [a EXCEPT !.phase = "GETTING_RECENT_PORTS"]
               ask == PortAsked(a)
               g == [f EXCEPT !.attempts = (@ \ {a}) \cup {begun},
                              !.users[a.sender] = Waiting, !.users[a.recipient] = Waiting]
               h == Tell(g, a.sender, ask)
               k == Tell(h, a.recipient, ask)
    <2>1. /\ f.users \in [Client -> User \cup {NoUser}] /\ f.attempts \in SUBSET Attempt
          /\ f.down \in [Client -> Seq(Message)]
          /\ f = [users |-> f.users, attempts |-> f.attempts, down |-> f.down]
      BY DEF FacilitatorState
    <2>2. a \in Startable(f, c)
      <3>1. Startable(f, c) \in SUBSET Attempt BY <2>1 DEF Startable
      <3> QED BY <1>2, <3>1, OldestIn
    <2>3. StartPunchthroughForUser(f, c) = k
      BY <1>2 DEF StartPunchthroughForUser, Waiting, PortAsked
    <2>4. a \in Attempt /\ a \in f.attempts BY <2>1, <2>2 DEF Startable
    <2> HIDE DEF a
    <2>5. begun \in Attempt /\ a.sender \in Client /\ a.recipient \in Client /\ a.id \in Nat
          /\ a.sender # a.recipient
      BY <2>4 DEF Attempt
    <2> HIDE DEF begun
    <2>6. ask \in Message BY <2>5, Messages DEF PortAsked
    <2> DEFINE us == [f.users EXCEPT ![a.sender] = Waiting, ![a.recipient] = Waiting]
               as == (f.attempts \ {a}) \cup {begun}
    <2>7. Waiting \in User BY DEF Waiting, User, NoPort
    <2>8. us \in [Client -> User \cup {NoUser}] BY <2>1, <2>5, <2>7
    <2>9. as \in SUBSET Attempt BY <2>1, <2>5
    <2>10. g = [users |-> us, attempts |-> as, down |-> f.down]
      <3>1. g = [f EXCEPT !.attempts = as, !.users = us] BY <2>1
      <3> HIDE DEF g, us, as
      <3> QED BY <2>1, <3>1
    <2>11. \A x \in Client : us[x] = IF Of(a, x) THEN Waiting ELSE f.users[x]
      BY <2>1, <2>5 DEF Of
    <2> HIDE DEF ask, us, as, g
    <2>12. g \in FacilitatorState BY <2>1, <2>8, <2>9, <2>10 DEF FacilitatorState
    <2>13. g.users = us /\ g.attempts = as /\ g.down = f.down BY <2>10
    <2>14. /\ h \in FacilitatorState /\ h.users = us /\ h.attempts = as
           /\ h.down = [f.down EXCEPT ![a.sender] = Append(@, ask)]
      <3>1. /\ h \in FacilitatorState /\ h.users = g.users /\ h.attempts = g.attempts
            /\ h.down = [g.down EXCEPT ![a.sender] = Append(@, ask)]
        BY <2>5, <2>6, <2>12, TellEffect, ZenonT(40)
      <3> QED BY <2>13, <3>1, Zenon
    <2> HIDE DEF h
    <2>15. /\ k \in FacilitatorState /\ k.users = us /\ k.attempts = as
           /\ k.down = [h.down EXCEPT ![a.recipient] = Append(@, ask)]
      <3>0. h \in FacilitatorState BY <2>14
      <3>1. /\ k \in FacilitatorState /\ k.users = h.users /\ k.attempts = h.attempts
            /\ k.down = [h.down EXCEPT ![a.recipient] = Append(@, ask)]
        BY <2>5, <2>6, <3>0, TellEffect, ZenonT(40)
      <3> QED BY <2>14, <3>1, Zenon
    <2> HIDE DEF k
    <2>16. \A x \in Client : k.down[x] = IF Of(a, x) THEN Append(f.down[x], ask) ELSE f.down[x]
      <3>1. h.down \in [Client -> Seq(Message)] BY <2>14 DEF FacilitatorState
      <3>2. \A x \in Client : h.down[x] = IF x = a.sender THEN Append(f.down[x], ask) ELSE f.down[x]
        BY <2>1, <2>14
      <3>3. \A x \in Client : k.down[x] = IF x = a.recipient THEN Append(h.down[x], ask) ELSE h.down[x]
        BY <2>15, <3>1
      <3> QED BY <2>5, <3>2, <3>3 DEF Of
    <2>17. Starts(f, a, k)
      BY <2>11, <2>15, <2>16 DEF Starts, as, begun, ask
    <2> QED BY <2>2, <2>3, <2>17
  <1> QED BY <1>1, <1>2

(* A user that waits for a port is a user.                                 *)
LEMMA WaitingUser == Waiting \in User /\ Waiting # NoUser /\ \A v \in User : v # NoUser
  <1>1. Waiting.port = 0 /\ Waiting.ready = FALSE BY DEF Waiting, NoPort
  <1>2. NoUser.port = -1 BY DEF NoUser
  <1>3. Waiting \in User BY DEF Waiting, NoPort, User
  <1>4. \A v \in User : v.port \in Nat BY DEF User
  <1> QED BY <1>2, <1>3, <1>4

(* A facilitator state from its parts ...                                  *)
LEMMA Assembled ==
  ASSUME NEW us \in [Client -> User \cup {NoUser}], NEW as \in SUBSET Attempt,
         NEW dn \in [Client -> Seq(Message)]
  PROVE  [users |-> us, attempts |-> as, down |-> dn] \in FacilitatorState
  BY DEF FacilitatorState

(* ... and its parts.                                                      *)
LEMMA Parts ==
  ASSUME NEW f \in FacilitatorState
  PROVE  /\ f.users \in [Client -> User \cup {NoUser}]
         /\ f.attempts \in SUBSET Attempt
         /\ f.down \in [Client -> Seq(Message)]
         /\ \A x \in Client : f.down[x] \in Seq(Message) /\ f.users[x] \in User \cup {NoUser}
         /\ \A x \in Client : f.users[x].ready \in BOOLEAN
  <1>1. /\ f.users \in [Client -> User \cup {NoUser}]
        /\ f.attempts \in SUBSET Attempt
        /\ f.down \in [Client -> Seq(Message)]
    BY DEF FacilitatorState
  <1>2. \A x \in Client : f.down[x] \in Seq(Message) /\ f.users[x] \in User \cup {NoUser} BY <1>1
  <1>3. (\A v \in User : v.ready \in BOOLEAN) /\ NoUser.ready \in BOOLEAN
    <2>1. NoUser.ready = FALSE BY DEF NoUser
    <2> QED BY <2>1 DEF User
  <1> QED BY <1>1, <1>2, <1>3

(* Both users of an attempt that can start are ready.                      *)
LEMMA StartableReady ==
  ASSUME NEW f \in FacilitatorState, NEW c \in Client, NEW a \in Startable(f, c)
  PROVE  /\ a \in f.attempts /\ a \in Attempt /\ Of(a, c)
         /\ a.sender \in Client /\ a.recipient \in Client /\ a.id \in Nat
         /\ f.users[a.sender].ready /\ f.users[a.recipient].ready
  <1>1. a \in f.attempts /\ Of(a, c) /\ f.users[c].ready /\ f.users[Other(a, c)].ready
    BY DEF Startable
  <1>2. a \in Attempt BY <1>1, Parts
  <1>3. f.users[a.sender].ready /\ f.users[a.recipient].ready BY <1>1 DEF Of, Other
  <1> QED BY <1>1, <1>2, <1>3 DEF Attempt

(* The attempt that begins takes the token of both its users.              *)
LEMMA StartsToken ==
  ASSUME NEW f \in FacilitatorState, NEW c \in Client, NEW a \in Startable(f, c), NEW g,
         Starts(f, a, g), NEW x \in Client, NEW u, NEW p, Token(f, u, p, x)
  PROVE  Token(g, u, p, x)
  <1> DEFINE b == [a EXCEPT !.phase = "GETTING_RECENT_PORTS"]
  <1>1. /\ a \in f.attempts /\ a \in Attempt /\ f.users[a.sender].ready /\ f.users[a.recipient].ready
        /\ a.id \in Nat
    BY StartableReady
  <1>2. b \in Attempt /\ b.phase = "GETTING_RECENT_PORTS" /\ Of(b, x) = Of(a, x)
    BY <1>1, BegunAttempt
  <1>3. g.attempts = (f.attempts \ {a}) \cup {b} BY DEF Starts
  <1> HIDE DEF b
  <1>4. CASE Of(a, x)
    <2>1. f.users[x].ready BY <1>1, <1>4 DEF Of
    <2>2. /\ Prepares(f, x) = {} /\ ~Holds(u, "CLIENT_READY") /\ Once(u, "CLIENT_READY")
          /\ ~Holds(f.down[x], "CONNECT_AT_TIME") /\ ~p /\ Once(f.down[x], "CONNECT_AT_TIME")
      BY <2>1 DEF Token
    <2>3. ~g.users[x].ready BY <1>4 DEF Starts, Waiting
    <2>4. /\ ~Holds(g.down[x], "CONNECT_AT_TIME") /\ Once(g.down[x], "CONNECT_AT_TIME")
      <3>1. g.down[x] = Append(f.down[x], PortAsked(a)) BY <1>4 DEF Starts
      <3>2. PortAsked(a) \in Message /\ PortAsked(a).type = "GET_PORT"
        BY <1>1 DEF PortAsked, Msg, Message
      <3>3. f.down[x] \in Seq(Message) BY Parts
      <3> QED BY <2>2, <3>1, <3>2, <3>3, MessageAppend
    <2>5. Prepares(g, x) = {b} BY <1>2, <1>3, <1>4, <2>2 DEF Prepares, Begun
    <2> QED BY <2>2, <2>3, <2>4, <2>5 DEF Token
  <1>5. CASE ~Of(a, x)
    <2>1. Prepares(g, x) = Prepares(f, x) BY <1>2, <1>3, <1>5 DEF Prepares
    <2>2. g.users[x] = f.users[x] /\ g.down[x] = f.down[x] BY <1>5 DEF Starts
    <2> QED BY <2>1, <2>2 DEF Token
  <1> QED BY <1>4, <1>5

(* StartPunchthroughForUser keeps the facilitator consistent ...           *)
LEMMA StartConsistent ==
  ASSUME NEW f, NEW c \in Client, NEW sid, NEW u, NEW P, NEW L, Consistent(f, sid, u, P, L)
  PROVE  Consistent(StartPunchthroughForUser(f, c), sid, u, P, L)
  <1> DEFINE g == StartPunchthroughForUser(f, c)
  <1>1. f \in FacilitatorState /\ Sound(f, sid) BY DEF Consistent
  <1>2. CASE g = f BY <1>2
  <1>3. CASE \E a \in Startable(f, c) : Starts(f, a, g)
    <2>1. PICK a \in Startable(f, c) : Starts(f, a, g) BY <1>3
    <2> DEFINE b == [a EXCEPT !.phase = "GETTING_RECENT_PORTS"]
    <2> HIDE DEF g
    <2>2. /\ a \in f.attempts /\ a \in Attempt /\ a.sender \in Client /\ a.recipient \in Client
          /\ a.id \in Nat
      BY <1>1, StartableReady
    <2>3. b.id = a.id /\ b.sender = a.sender /\ b.recipient = a.recipient BY <2>2, BegunAttempt
    <2>4. /\ g \in FacilitatorState /\ g.attempts = (f.attempts \ {a}) \cup {b}
          /\ \A x \in Client : g.users[x] = IF Of(a, x) THEN Waiting ELSE f.users[x]
          /\ \A x \in Client :
               g.down[x] = IF Of(a, x) THEN Append(f.down[x], PortAsked(a)) ELSE f.down[x]
      BY <2>1 DEF Starts
    <2> HIDE DEF b
    <2>5. Waiting # NoUser BY WaitingUser
    <2>6. \A x \in Client : f.users[x] # NoUser => g.users[x] # NoUser BY <2>4, <2>5
    <2>7. Sound(g, sid)
      <3>1. \A y \in g.attempts : \E z \in f.attempts :
              y.id = z.id /\ y.sender = z.sender /\ y.recipient = z.recipient
        BY <2>2, <2>3, <2>4
      <3>2. \A z \in f.attempts : z.sender \in Client /\ z.recipient \in Client
        BY <1>1, Parts DEF Attempt
      <3>3. \A y \in g.attempts :
              /\ y.sender # y.recipient /\ y.id \in 1 .. sid - 1
              /\ g.users[y.sender] # NoUser /\ g.users[y.recipient] # NoUser
        BY <1>1, <2>6, <3>1, <3>2 DEF Sound
      <3>4. \A y, z \in g.attempts : y.id = z.id => y = z
        BY <1>1, <2>2, <2>3, <2>4 DEF Sound
      <3> QED BY <3>3, <3>4 DEF Sound
    <2>8. \A x \in Client : Names(g.down[x], "CONNECT_AT_TIME", x)
      <3> SUFFICES ASSUME NEW x \in Client PROVE Names(g.down[x], "CONNECT_AT_TIME", x) OBVIOUS
      <3>1. Names(f.down[x], "CONNECT_AT_TIME", x) BY DEF Consistent
      <3>2. PortAsked(a) \in Message /\ PortAsked(a).type = "GET_PORT"
        BY <2>2 DEF PortAsked, Msg, Message
      <3>3. f.down[x] \in Seq(Message) BY <1>1, Parts
      <3>4. Names(Append(f.down[x], PortAsked(a)), "CONNECT_AT_TIME", x)
        BY <3>1, <3>2, <3>3, MessageAppend
      <3> QED BY <2>4, <3>1, <3>4
    <2>9. \A x \in Client \ L : Token(g, u[x], x \in P, x)
      <3> SUFFICES ASSUME NEW x \in Client \ L PROVE Token(g, u[x], x \in P, x) OBVIOUS
      <3>1. Token(f, u[x], x \in P, x) BY DEF Consistent
      <3> QED BY <1>1, <2>1, <3>1, StartsToken
    <2>10. \A x \in Client : g.users[x] = NoUser => x \in L BY <2>6 DEF Consistent
    <2> QED BY <2>4, <2>7, <2>8, <2>9, <2>10 DEF Consistent, g
  <1>4. \A a \in f.attempts : a.sender # a.recipient BY <1>1 DEF Sound
  <1> QED BY <1>1, <1>2, <1>3, <1>4, StartEffect

(* ... and leaves no attempt that could start with the user it is for.     *)
LEMMA StartIdle ==
  ASSUME NEW f, NEW c \in Client, NEW sid, f \in FacilitatorState, Sound(f, sid),
         NEW D, IdleOnlyOf(f, D)
  PROVE  IdleOnlyOf(StartPunchthroughForUser(f, c), D \ {c})
  <1> DEFINE g == StartPunchthroughForUser(f, c)
  <1>1. CASE Startable(f, c) = {} /\ g = f
    <2> SUFFICES ASSUME NEW y \in f.attempts, f.users[y.sender].ready, f.users[y.recipient].ready
                 PROVE  \E d \in D \ {c} : Of(y, d)
      BY <1>1 DEF IdleOnlyOf
    <2>1. ~Of(y, c) BY <1>1 DEF Startable, Of, Other
    <2> QED BY <2>1 DEF IdleOnlyOf
  <1>2. CASE \E a \in Startable(f, c) : Starts(f, a, g)
    <2>1. PICK a \in Startable(f, c) : Starts(f, a, g) BY <1>2
    <2> DEFINE b == [a EXCEPT !.phase = "GETTING_RECENT_PORTS"]
    <2> HIDE DEF g
    <2>2. /\ a \in f.attempts /\ a \in Attempt /\ a.sender \in Client /\ a.recipient \in Client
          /\ Of(a, c)
      BY StartableReady
    <2>3. b.sender = a.sender BY <2>2, BegunAttempt
    <2>4. /\ g.attempts = (f.attempts \ {a}) \cup {b}
          /\ \A x \in Client : g.users[x] = IF Of(a, x) THEN Waiting ELSE f.users[x]
      BY <2>1 DEF Starts
    <2> HIDE DEF b
    <2>5. ~Waiting.ready BY DEF Waiting
    <2> SUFFICES ASSUME NEW y \in g.attempts, g.users[y.sender].ready, g.users[y.recipient].ready
                 PROVE  \E d \in D \ {c} : Of(y, d)
      BY DEF IdleOnlyOf, g
    <2>6. ~g.users[a.sender].ready /\ ~g.users[c].ready BY <2>2, <2>4, <2>5 DEF Of
    <2>7. y # b BY <2>3, <2>6
    <2>8. y \in f.attempts BY <2>4, <2>7
    <2>9. y.sender \in Client /\ y.recipient \in Client BY <2>8, Parts DEF Attempt
    <2>10. f.users[y.sender].ready /\ f.users[y.recipient].ready BY <2>4, <2>5, <2>9
    <2>11. ~Of(y, c) BY <2>6 DEF Of
    <2> QED BY <2>8, <2>10, <2>11 DEF IdleOnlyOf
  <1>3. \A a \in f.attempts : a.sender # a.recipient BY DEF Sound
  <1> QED BY <1>1, <1>2, <1>3, StartEffect

-----------------------------------------------------------------------------
(* What a handler does to the facilitator's state, one thing at a time     *)

(* Client x has its token nowhere but perhaps in being ready.              *)
Spare(f, u, punching, x) ==
  /\ ~Holds(u, "CLIENT_READY") /\ Prepares(f, x) = {}
  /\ ~Holds(f.down[x], "CONNECT_AT_TIME") /\ ~punching

(* A message that announces no punch.                                      *)
LEMMA TellConsistent ==
  ASSUME NEW f, NEW sid, NEW u, NEW P, NEW L, Consistent(f, sid, u, P, L),
         NEW c \in Client, NEW m \in Message, m.type # "CONNECT_AT_TIME"
  PROVE  /\ Consistent(Tell(f, c, m), sid, u, P, L)
         /\ \A D : IdleOnlyOf(f, D) => IdleOnlyOf(Tell(f, c, m), D)
  <1> DEFINE g == Tell(f, c, m)
  <1>1. f \in FacilitatorState /\ Sound(f, sid) BY DEF Consistent
  <1>2. /\ g \in FacilitatorState /\ g.users = f.users /\ g.attempts = f.attempts
        /\ g.down = [f.down EXCEPT ![c] = Append(@, m)]
    BY <1>1, TellEffect, ZenonT(40)
  <1> HIDE DEF g
  <1>3. \A x \in Client : g.down[x] = IF x = c THEN Append(f.down[x], m) ELSE f.down[x]
    BY <1>1, <1>2, Parts
  <1>4. \A x \in Client : f.down[x] \in Seq(Message) BY <1>1, Parts
  <1>5. \A x \in Client : Names(g.down[x], "CONNECT_AT_TIME", x)
    <2> SUFFICES ASSUME NEW x \in Client PROVE Names(g.down[x], "CONNECT_AT_TIME", x) OBVIOUS
    <2>1. Names(f.down[x], "CONNECT_AT_TIME", x) BY DEF Consistent
    <2>2. f.down[x] \in Seq(Message) BY <1>4
    <2>3. x = c => Names(Append(f.down[x], m), "CONNECT_AT_TIME", x) BY <2>1, <2>2, MessageAppend
    <2> QED BY <1>3, <2>1, <2>3
  <1>6. \A x \in Client \ L : Token(g, u[x], x \in P, x)
    <2> SUFFICES ASSUME NEW x \in Client \ L PROVE Token(g, u[x], x \in P, x) OBVIOUS
    <2>1. Token(f, u[x], x \in P, x) BY DEF Consistent
    <2>2. Holds(g.down[x], "CONNECT_AT_TIME") = Holds(f.down[x], "CONNECT_AT_TIME")
      BY <1>3, <1>4, MessageAppend
    <2>3. Once(f.down[x], "CONNECT_AT_TIME") => Once(g.down[x], "CONNECT_AT_TIME")
      BY <1>3, <1>4, MessageAppend
    <2>4. Prepares(g, x) = Prepares(f, x) BY <1>2 DEF Prepares
    <2> QED BY <1>2, <2>1, <2>2, <2>3, <2>4 DEF Token
  <1>7. Sound(g, sid) BY <1>1, <1>2 DEF Sound
  <1>8. \A x \in Client : g.users[x] = NoUser => x \in L BY <1>2 DEF Consistent
  <1>9. \A D : IdleOnlyOf(f, D) => IdleOnlyOf(g, D) BY <1>2 DEF IdleOnlyOf
  <1> QED BY <1>2, <1>5, <1>6, <1>7, <1>8, <1>9 DEF Consistent, g

(* The announcement of a punch to a client that has no token.              *)
LEMMA TellConnect ==
  ASSUME NEW f, NEW sid, NEW u, NEW P, NEW L, Consistent(f, sid, u, P, L),
         NEW c \in Client, NEW m \in Message, m.other \in Client \ {c},
         c \notin L => Spare(f, u[c], c \in P, c) /\ ~f.users[c].ready
  PROVE  /\ Consistent(Tell(f, c, m), sid, u, P, L)
         /\ \A D : IdleOnlyOf(f, D) => IdleOnlyOf(Tell(f, c, m), D)
         /\ \A x \in Client \ {c} : \A v, p : Spare(f, v, p, x) => Spare(Tell(f, c, m), v, p, x)
  <1> DEFINE g == Tell(f, c, m)
  <1>1. f \in FacilitatorState /\ Sound(f, sid) BY DEF Consistent
  <1>2. /\ g \in FacilitatorState /\ g.users = f.users /\ g.attempts = f.attempts
        /\ g.down = [f.down EXCEPT ![c] = Append(@, m)]
    BY <1>1, TellEffect, ZenonT(40)
  <1> HIDE DEF g
  <1>3. \A x \in Client : g.down[x] = IF x = c THEN Append(f.down[x], m) ELSE f.down[x]
    BY <1>1, <1>2, Parts
  <1>4. \A x \in Client : f.down[x] \in Seq(Message) BY <1>1, Parts
  <1>5. \A x \in Client : Names(g.down[x], "CONNECT_AT_TIME", x)
    <2> SUFFICES ASSUME NEW x \in Client PROVE Names(g.down[x], "CONNECT_AT_TIME", x) OBVIOUS
    <2>1. Names(f.down[x], "CONNECT_AT_TIME", x) BY DEF Consistent
    <2>2. f.down[x] \in Seq(Message) BY <1>4
    <2>3. x = c => Names(Append(f.down[x], m), "CONNECT_AT_TIME", x) BY <2>1, <2>2, MessageAppend
    <2> QED BY <1>3, <2>1, <2>3
  <1>6. \A x \in Client : Prepares(g, x) = Prepares(f, x) BY <1>2 DEF Prepares
  <1>7. \A x \in Client \ L : Token(g, u[x], x \in P, x)
    <2> SUFFICES ASSUME NEW x \in Client \ L PROVE Token(g, u[x], x \in P, x) OBVIOUS
    <2>1. Token(f, u[x], x \in P, x) BY DEF Consistent
    <2>2. CASE x = c
      <3>1. Once(g.down[x], "CONNECT_AT_TIME")
        BY <1>3, <1>4, <2>2, MessageAppend DEF Spare
      <3> QED BY <1>2, <1>6, <2>1, <2>2, <3>1 DEF Token, Spare
    <2>3. CASE x # c BY <1>2, <1>3, <1>6, <2>1, <2>3 DEF Token
    <2> QED BY <2>2, <2>3
  <1>8. Sound(g, sid) BY <1>1, <1>2 DEF Sound
  <1>9. \A x \in Client : g.users[x] = NoUser => x \in L BY <1>2 DEF Consistent
  <1>10. \A D : IdleOnlyOf(f, D) => IdleOnlyOf(g, D) BY <1>2 DEF IdleOnlyOf
  <1>11. \A x \in Client \ {c} : \A v, p : Spare(f, v, p, x) => Spare(g, v, p, x)
    BY <1>3, <1>6 DEF Spare
  <1> QED BY <1>2, <1>5, <1>7, <1>8, <1>9, <1>10, <1>11 DEF Consistent, g

(* Without removes an attempt and nothing else.                            *)
LEMMA WithoutEffect ==
  ASSUME NEW f \in FacilitatorState, NEW a
  PROVE  /\ Without(f, a) \in FacilitatorState
         /\ Without(f, a).users = f.users /\ Without(f, a).attempts = f.attempts \ {a}
         /\ Without(f, a).down = f.down
  <1>1. f = [users |-> f.users, attempts |-> f.attempts, down |-> f.down]
    BY DEF FacilitatorState
  <1>2. Without(f, a) = [users |-> f.users, attempts |-> f.attempts \ {a}, down |-> f.down]
    BY <1>1 DEF Without
  <1>3. /\ f.users \in [Client -> User \cup {NoUser}] /\ f.attempts \ {a} \in SUBSET Attempt
        /\ f.down \in [Client -> Seq(Message)]
    BY Parts
  <1>4. Without(f, a) \in FacilitatorState BY <1>2, <1>3 DEF FacilitatorState
  <1> QED BY <1>2, <1>4

(* An attempt ends; if it had begun its users have no token left.          *)
LEMMA WithoutConsistent ==
  ASSUME NEW f, NEW sid, NEW u, NEW P, NEW L, Consistent(f, sid, u, P, L), NEW a \in f.attempts
  PROVE  /\ Consistent(Without(f, a), sid, u, P, L)
         /\ Without(f, a).users = f.users /\ Without(f, a).down = f.down
         /\ Without(f, a).attempts = f.attempts \ {a}
         /\ \A D : IdleOnlyOf(f, D) => IdleOnlyOf(Without(f, a), D)
         /\ \A x \in Client \ L : Begun(a) /\ Of(a, x) =>
              Spare(Without(f, a), u[x], x \in P, x) /\ ~f.users[x].ready
  <1> DEFINE g == Without(f, a)
  <1>1. f \in FacilitatorState /\ Sound(f, sid) BY DEF Consistent
  <1>5. /\ g \in FacilitatorState
        /\ g.users = f.users /\ g.attempts = f.attempts \ {a} /\ g.down = f.down
    BY <1>1, WithoutEffect, ZenonT(40)
  <1>6. g.users = f.users /\ g.attempts = f.attempts \ {a} /\ g.down = f.down BY <1>5
  <1> HIDE DEF g
  <1>7. Sound(g, sid) BY <1>1, <1>6 DEF Sound
  <1>8. \A x \in Client : Prepares(g, x) = Prepares(f, x) \ {a} BY <1>6 DEF Prepares
  <1>9. \A x \in Client \ L : Token(g, u[x], x \in P, x)
    <2> SUFFICES ASSUME NEW x \in Client \ L PROVE Token(g, u[x], x \in P, x) OBVIOUS
    <2>1. Token(f, u[x], x \in P, x) BY DEF Consistent
    <2> QED BY <1>6, <1>8, <2>1 DEF Token
  <1>10. \A x \in Client \ L : Begun(a) /\ Of(a, x) =>
           Spare(g, u[x], x \in P, x) /\ ~f.users[x].ready
    <2> SUFFICES ASSUME NEW x \in Client \ L, Begun(a), Of(a, x)
                 PROVE  Spare(g, u[x], x \in P, x) /\ ~f.users[x].ready
      OBVIOUS
    <2>1. Token(f, u[x], x \in P, x) BY DEF Consistent
    <2>2. a \in Prepares(f, x) BY DEF Prepares
    <2>3. Prepares(g, x) = {} BY <1>8, <2>1, <2>2 DEF Token
    <2> QED BY <1>6, <2>1, <2>2, <2>3 DEF Token, Spare
  <1>11. (\A x \in Client : g.users[x] = NoUser => x \in L)
         /\ \A x \in Client : Names(g.down[x], "CONNECT_AT_TIME", x)
    BY <1>6 DEF Consistent
  <1>12. \A D : IdleOnlyOf(f, D) => IdleOnlyOf(g, D) BY <1>6 DEF IdleOnlyOf
  <1> QED BY <1>5, <1>6, <1>7, <1>9, <1>10, <1>11, <1>12 DEF Consistent, g

(* The users of S are ready again: g follows f.                            *)
Frees(f, S, g) ==
  /\ g \in FacilitatorState /\ g.attempts = f.attempts /\ g.down = f.down
  /\ \A x \in Client :
       /\ x \in S => g.users[x] \in User
       /\ x \notin S => g.users[x] = f.users[x]

(* Users without a token may become ready.                                 *)
LEMMA FreesConsistent ==
  ASSUME NEW f, NEW sid, NEW u, NEW P, NEW L, Consistent(f, sid, u, P, L), NEW S, NEW g,
         Frees(f, S, g), \A x \in S : x \in Client \ L => Spare(f, u[x], x \in P, x)
  PROVE  /\ Consistent(g, sid, u, P, L)
         /\ IdleOnlyOf(f, {}) => IdleOnlyOf(g, S)
  <1>1. f \in FacilitatorState /\ Sound(f, sid) BY DEF Consistent
  <1>2. \A x \in Client : f.users[x] # NoUser => g.users[x] # NoUser
    BY WaitingUser DEF Frees
  <1>3. \A a \in f.attempts : a.sender \in Client /\ a.recipient \in Client
    BY <1>1, Parts DEF Attempt
  <1>4. Sound(g, sid)
    <2>1. \A a \in g.attempts :
            /\ a.sender # a.recipient /\ a.id \in 1 .. sid - 1
            /\ g.users[a.sender] # NoUser /\ g.users[a.recipient] # NoUser
      BY <1>1, <1>2, <1>3 DEF Sound, Frees
    <2>2. \A a, b \in g.attempts : a.id = b.id => a = b BY <1>1 DEF Sound, Frees
    <2> QED BY <2>1, <2>2 DEF Sound
  <1>5. \A x \in Client \ L : Token(g, u[x], x \in P, x)
    <2> SUFFICES ASSUME NEW x \in Client \ L PROVE Token(g, u[x], x \in P, x) OBVIOUS
    <2>1. Token(f, u[x], x \in P, x) BY DEF Consistent
    <2>2. Prepares(g, x) = Prepares(f, x) /\ g.down = f.down BY DEF Prepares, Frees
    <2>3. CASE x \in S
      <3>1. Spare(f, u[x], x \in P, x) BY <2>3
      <3> QED BY <2>1, <2>2, <3>1 DEF Token, Spare
    <2>4. CASE x \notin S
      <3>1. g.users[x] = f.users[x] BY <2>4 DEF Frees
      <3> QED BY <2>1, <2>2, <3>1 DEF Token
    <2> QED BY <2>3, <2>4
  <1>6. \A x \in Client : g.users[x] = NoUser => x \in L BY <1>2 DEF Consistent
  <1>7. \A x \in Client : Names(g.down[x], "CONNECT_AT_TIME", x) BY DEF Consistent, Frees
  <1>8. ASSUME IdleOnlyOf(f, {}) PROVE IdleOnlyOf(g, S)
    <2> SUFFICES ASSUME NEW a \in g.attempts, g.users[a.sender].ready, g.users[a.recipient].ready
                 PROVE  \E d \in S : Of(a, d)
      BY DEF IdleOnlyOf
    <2>1. a \in f.attempts BY DEF Frees
    <2>2. ~f.users[a.sender].ready \/ ~f.users[a.recipient].ready BY <1>8, <2>1 DEF IdleOnlyOf
    <2>3. a.sender \in S \/ a.recipient \in S BY <1>3, <2>1, <2>2 DEF Frees
    <2> QED BY <2>3 DEF Of
  <1> QED BY <1>4, <1>5, <1>6, <1>7, <1>8 DEF Consistent, Frees

-----------------------------------------------------------------------------
(* The facilitator's handlers                                              *)

(* The facilitator's variables as one record.                              *)
LEMMA NowParts == Now.users = users /\ Now.attempts = attempts /\ Now.down = down
  BY DEF Now

(* The types follow from the invariant.                                    *)
LEMMA TypesFollow == NatInv => TypeOK
  <1> SUFFICES ASSUME NatInv PROVE TypeOK OBVIOUS
  <1>1. Now \in FacilitatorState BY DEF NatInv, Consistent
  <1>2. /\ users \in [Client -> User \cup {NoUser}] /\ attempts \in SUBSET Attempt
        /\ down \in [Client -> Seq(Message)]
    BY <1>1, Parts, NowParts
  <1> QED BY <1>2 DEF NatInv, ClientsTyped, TypeOK, User, SendPing

(* A handler leaves the state g that it has worked out.                    *)
LEMMA Handled ==
  ASSUME NEW g, Serve(g), Consistent(g, sessionId', up', Punchers', left'), IdleOnlyOf(g, {}),
         ClientsTyped', Addressed'
  PROVE  NatInv'
  <1>1. g = [users |-> g.users, attempts |-> g.attempts, down |-> g.down]
    BY DEF Consistent, FacilitatorState
  <1>2. Now' = g BY <1>1 DEF Serve, Now
  <1>3. Consistent(Now', sessionId', up', Punchers', left') /\ IdleOnlyOf(Now', {})
    BY <1>2
  <1> QED BY <1>3 DEF NatInv

(* A message is taken off a way up.                                        *)
LEMMA Received ==
  ASSUME NatInv, NEW c \in Client, NEW t, Receives(c, t)
  PROVE  /\ Consistent(Now, sessionId, up', Punchers', left') /\ IdleOnlyOf(Now, {})
         /\ sessionId' \in Nat \ {0} => ClientsTyped'
         /\ Addressed' /\ left' = left
         /\ IsUser(c) /\ Head(up[c]) \in Message /\ Head(up[c]).type = t
         /\ t = "REQUEST" => Head(up[c]).other \in Client \ {c}
         /\ t = "CLIENT_READY" /\ c \notin left' => Spare(Now, up'[c], c \in Punchers', c)
  <1>1. /\ ClientsTyped /\ Addressed /\ Consistent(Now, sessionId, up, Punchers, left)
        /\ IdleOnlyOf(Now, {})
    BY DEF NatInv
  <1>2. /\ IsUser(c) /\ up[c] # <<>> /\ Head(up[c]).type = t
        /\ up' = [up EXCEPT ![c] = Tail(@)] /\ left' = left /\ linked' = linked /\ budget' = budget
        /\ sp' = sp /\ failed' = failed /\ stride' = stride /\ queued' = queued /\ asked' = asked
    BY DEF Receives, clientVars
  <1>3. up \in [Client -> Seq(Message)] /\ up[c] \in Seq(Message) BY <1>1 DEF ClientsTyped
  <1>4. Tail(up[c]) \in Seq(Message) /\ Head(up[c]) \in Message BY <1>2, <1>3, MessageTail
  <1>5. up' \in [Client -> Seq(Message)] BY <1>2, <1>3, <1>4
  <1>6. \A x \in Client : up'[x] = IF x = c THEN Tail(up[x]) ELSE up[x] BY <1>2, <1>3
  <1>7. sessionId' \in Nat \ {0} => ClientsTyped' BY <1>1, <1>2, <1>5 DEF ClientsTyped
  <1>8. Punchers' = Punchers BY <1>2 DEF Punchers, Punching
  <1>9. Addressed'
    <2> SUFFICES ASSUME NEW x \in Client
                 PROVE  /\ Names(up'[x], "REQUEST", x)
                        /\ \A i \in DOMAIN queued'[x] : queued'[x][i] # x
                        /\ Punching(x)' => sp'[x].target \in Client \ {x}
                        /\ x \notin linked' => x \in left'
      BY DEF Addressed
    <2>1. Names(up[x], "REQUEST", x) BY <1>1 DEF Addressed
    <2>2. x = c => Names(Tail(up[x]), "REQUEST", x) BY <1>2, <1>3, <2>1, MessageTail
    <2>3. Names(up'[x], "REQUEST", x) BY <1>6, <2>1, <2>2
    <2> QED BY <1>1, <1>2, <2>3 DEF Addressed, Punching
  <1>10. Names(up[c], "REQUEST", c) BY <1>1 DEF Addressed
  <1>11. t = "REQUEST" => Head(up[c]).other \in Client \ {c} BY <1>2, <1>3, <1>10, MessageTail
  <1>12. \A x \in Client \ left : Token(Now, up'[x], x \in Punchers, x)
    <2> SUFFICES ASSUME NEW x \in Client \ left PROVE Token(Now, up'[x], x \in Punchers, x) OBVIOUS
    <2>1. Token(Now, up[x], x \in Punchers, x) BY <1>1 DEF Consistent
    <2>2. CASE x = c
      <3>1. Once(up[c], "CLIENT_READY") BY <2>1, <2>2 DEF Token
      <3>2. /\ Once(Tail(up[c]), "CLIENT_READY")
            /\ Holds(Tail(up[c]), "CLIENT_READY") => Holds(up[c], "CLIENT_READY")
        BY <1>2, <1>3, <3>1, MessageTail
      <3>4. Token(Now, Tail(up[c]), x \in Punchers, x) BY <2>1, <2>2, <3>2 DEF Token
      <3> QED BY <1>6, <2>2, <3>4
    <2>3. CASE x # c BY <1>6, <2>1, <2>3
    <2> QED BY <2>2, <2>3
  <1>13. Consistent(Now, sessionId, up', Punchers', left') BY <1>1, <1>2, <1>8, <1>12 DEF Consistent
  <1>14. ASSUME t = "CLIENT_READY", c \notin left' PROVE Spare(Now, up'[c], c \in Punchers', c)
    <2>1. Token(Now, up[c], c \in Punchers, c) BY <1>1, <1>2, <1>14 DEF Consistent
    <2>2. Holds(up[c], "CLIENT_READY") BY <1>2, <1>3, <1>14, MessageTail
    <2>3. Once(up[c], "CLIENT_READY") BY <2>1 DEF Token
    <2>4. ~Holds(Tail(up[c]), "CLIENT_READY") BY <1>2, <1>3, <1>14, <2>3, MessageTail
    <2> QED BY <1>6, <1>8, <2>1, <2>2, <2>4 DEF Token, Spare
  <1> QED BY <1>1, <1>2, <1>4, <1>7, <1>9, <1>11, <1>13, <1>14

(* OnClientReady keeps the invariant.                                      *)
LEMMA ClientReadyStep ==
  ASSUME NatInv, NEW c \in Client, OnClientReady(c) PROVE NatInv'
  <1> DEFINE f == [Now EXCEPT !.users[c].ready = TRUE]
             g == StartPunchthroughForUser(f, c)
  <1>1. Receives(c, "CLIENT_READY") /\ Serve(g) /\ sessionId' = sessionId BY DEF OnClientReady
  <1>2. /\ Consistent(Now, sessionId, up', Punchers', left') /\ IdleOnlyOf(Now, {})
        /\ Addressed' /\ IsUser(c)
        /\ c \notin left' => Spare(Now, up'[c], c \in Punchers', c)
        /\ ClientsTyped'
    BY <1>1, Received DEF NatInv, ClientsTyped
  <1>3. Now \in FacilitatorState BY <1>2 DEF Consistent
  <1>4. Frees(Now, {c}, f)
    <2> DEFINE w == [users[c] EXCEPT !.ready = TRUE]
               us == [users EXCEPT ![c] = w]
    <2>1. /\ users \in [Client -> User \cup {NoUser}] /\ attempts \in SUBSET Attempt
          /\ down \in [Client -> Seq(Message)]
      BY <1>3, Parts, NowParts
    <2>2. users[c] \in User BY <1>2, <2>1 DEF IsUser
    <2>3. w \in User BY <2>2 DEF User
    <2>4. f = [users |-> us, attempts |-> attempts, down |-> down]
      <3>1. f = [Now EXCEPT !.users = [Now.users EXCEPT ![c] = [Now.users[c] EXCEPT !.ready = TRUE]]]
        OBVIOUS
      <3>2. us = [Now.users EXCEPT ![c] = [Now.users[c] EXCEPT !.ready = TRUE]] BY NowParts
      <3> HIDE DEF f, us
      <3>3. f = [Now EXCEPT !.users = us] BY <3>1, <3>2
      <3> QED BY <3>3 DEF Now
    <2> HIDE DEF w, f
    <2>5. us \in [Client -> User \cup {NoUser}] BY <2>1, <2>3
    <2>6. \A x \in Client : us[x] = IF x = c THEN w ELSE users[x] BY <2>1
    <2> HIDE DEF us
    <2>7. f \in FacilitatorState BY <2>1, <2>4, <2>5 DEF FacilitatorState
    <2> QED BY <2>3, <2>4, <2>6, <2>7, NowParts DEF Frees
  <1> HIDE DEF f
  <1>5. Consistent(f, sessionId, up', Punchers', left') /\ IdleOnlyOf(f, {c})
    BY <1>2, <1>4, FreesConsistent
  <1>6. Consistent(g, sessionId, up', Punchers', left') BY <1>5, StartConsistent
  <1>7. f \in FacilitatorState /\ Sound(f, sessionId) BY <1>5 DEF Consistent
  <1>8. IdleOnlyOf(g, {c} \ {c}) BY <1>5, <1>7, StartIdle
  <1>9. {c} \ {c} = {} OBVIOUS
  <1> HIDE DEF g
  <1> QED BY <1>1, <1>2, <1>6, <1>8, <1>9, Handled

(* The next session may be given out.                                      *)
LEMMA NextSession ==
  ASSUME NEW f, NEW sid \in Nat, NEW u, NEW P, NEW L, Consistent(f, sid, u, P, L)
  PROVE  Consistent(f, sid + 1, u, P, L)
  <1>1. Sound(f, sid) BY DEF Consistent
  <1>2. \A n \in 1 .. sid - 1 : n \in 1 .. (sid + 1) - 1 OBVIOUS
  <1>3. Sound(f, sid + 1) BY <1>1, <1>2 DEF Sound
  <1> QED BY <1>3 DEF Consistent

(* A new attempt between two users that has not begun.                     *)
LEMMA NewAttempt ==
  ASSUME NEW sid \in Nat \ {0}, NEW u, NEW P, NEW L, Consistent(Now, sid, u, P, L),
         IdleOnlyOf(Now, {}), NEW c \in Client, NEW d \in Client, c # d, IsUser(c), IsUser(d),
         NEW a, a = [id |-> sid, sender |-> c, recipient |-> d, phase |-> "NOT_STARTED"],
         NEW f, f = [Now EXCEPT !.attempts = @ \cup {a}]
  PROVE  Consistent(f, sid + 1, u, P, L) /\ IdleOnlyOf(f, {c})
  <1>1. a \in Attempt /\ a.id = sid /\ a.sender = c /\ a.recipient = d /\ ~Begun(a)
    BY DEF Attempt, Begun
  <1>2. f = [users |-> users, attempts |-> attempts \cup {a}, down |-> down]
    <2>1. f = [Now EXCEPT !.attempts = attempts \cup {a}] BY NowParts
    <2> QED BY <2>1 DEF Now
  <1>3. Now \in FacilitatorState /\ Sound(Now, sid) BY DEF Consistent
  <1>4. /\ users \in [Client -> User \cup {NoUser}] /\ attempts \in SUBSET Attempt
        /\ down \in [Client -> Seq(Message)]
    BY <1>3, Parts, NowParts
  <1>5. attempts \cup {a} \in SUBSET Attempt BY <1>1, <1>4
  <1>6. f \in FacilitatorState
    <2> DEFINE as == attempts \cup {a}
    <2>1. as \in SUBSET Attempt /\ f = [users |-> users, attempts |-> as, down |-> down] BY <1>2, <1>5
    <2> HIDE DEF as
    <2>2. [users |-> users, attempts |-> as, down |-> down] \in FacilitatorState
      BY <1>4, <2>1, Assembled
    <2> QED BY <2>1, <2>2, Zenon
  <1>7. f.users = users /\ f.attempts = attempts \cup {a} /\ f.down = down BY <1>2
  <1>8. Sound(f, sid + 1)
    <2>1. \A b \in attempts : b.sender # b.recipient /\ b.id \in 1 .. sid - 1
                              /\ users[b.sender] # NoUser /\ users[b.recipient] # NoUser
      BY <1>3, NowParts DEF Sound
    <2>2. \A b, e \in attempts : b.id = e.id => b = e BY <1>3, NowParts DEF Sound
    <2>3. \A b \in attempts \cup {a} :
            /\ b.sender # b.recipient /\ b.id \in 1 .. (sid + 1) - 1
            /\ users[b.sender] # NoUser /\ users[b.recipient] # NoUser
      <3>1. sid \in 1 .. (sid + 1) - 1 /\ \A n \in 1 .. sid - 1 : n \in 1 .. (sid + 1) - 1 OBVIOUS
      <3> QED BY <1>1, <2>1, <3>1 DEF IsUser
    <2>4. \A b, e \in attempts \cup {a} : b.id = e.id => b = e
      <3>1. sid \notin 1 .. sid - 1 OBVIOUS
      <3> QED BY <1>1, <2>1, <2>2, <3>1
    <2> QED BY <1>7, <2>3, <2>4 DEF Sound
  <1>9. \A x \in Client \ L : Token(f, u[x], x \in P, x)
    <2> SUFFICES ASSUME NEW x \in Client \ L PROVE Token(f, u[x], x \in P, x) OBVIOUS
    <2>1. Token(Now, u[x], x \in P, x) BY DEF Consistent
    <2>2. Prepares(f, x) = Prepares(Now, x) BY <1>1, <1>7, NowParts DEF Prepares
    <2>3. f.users = Now.users /\ f.down = Now.down BY <1>7, NowParts
    <2> QED BY <2>1, <2>2, <2>3 DEF Token
  <1>10. /\ \A x \in Client : f.users[x] = NoUser => x \in L
         /\ \A x \in Client : Names(f.down[x], "CONNECT_AT_TIME", x)
    BY <1>7, NowParts DEF Consistent
  <1>11. IdleOnlyOf(f, {c}) BY <1>1, <1>7, NowParts DEF IdleOnlyOf, Of
  <1> QED BY <1>6, <1>8, <1>9, <1>10, <1>11 DEF Consistent

(* OnNATPunchthroughRequest keeps the invariant.                           *)
LEMMA RequestStep ==
  ASSUME NatInv, NEW c \in Client, OnNATPunchthroughRequest(c) PROVE NatInv'
  <1> DEFINE d == Head(up[c]).other
             a == [id |-> sessionId, sender |-> c, recipient |-> d, phase |-> "NOT_STARTED"]
             f == [Now EXCEPT !.attempts = @ \cup {a}]
             gone == Msg("TARGET_NOT_CONNECTED", 0, d, FALSE)
             busy == Msg("ALREADY_IN_PROGRESS", 0, d, FALSE)
             pending == \E x \in attempts : Of(x, c) /\ Of(x, d)
  <1>1. Receives(c, "REQUEST") /\ sessionId' = sessionId + 1 BY DEF OnNATPunchthroughRequest
  <1>2. /\ Consistent(Now, sessionId, up', Punchers', left') /\ IdleOnlyOf(Now, {})
        /\ Addressed' /\ IsUser(c) /\ d \in Client \ {c}
        /\ sessionId' \in Nat \ {0} => ClientsTyped'
    BY <1>1, Received
  <1>3. sessionId \in Nat \ {0} BY DEF NatInv, ClientsTyped
  <1>4. ClientsTyped' BY <1>1, <1>2, <1>3
  <1>5. Consistent(Now, sessionId', up', Punchers', left') BY <1>1, <1>2, <1>3, NextSession
  <1>6. gone \in Message /\ busy \in Message /\ gone.type # "CONNECT_AT_TIME"
        /\ busy.type # "CONNECT_AT_TIME"
    BY <1>2 DEF Msg, Message
  <1>7. CASE ~IsUser(d)
    <2> DEFINE g == Tell(Now, c, gone)
    <2>1. Serve(g) BY <1>7 DEF OnNATPunchthroughRequest
    <2> HIDE DEF gone
    <2>2. Consistent(g, sessionId', up', Punchers', left') /\ IdleOnlyOf(g, {})
      BY <1>2, <1>5, <1>6, TellConsistent
    <2> QED BY <1>2, <1>4, <2>1, <2>2, Handled
  <1>8. CASE IsUser(d) /\ pending
    <2> DEFINE g == Tell(Now, c, busy)
    <2>1. Serve(g) BY <1>8 DEF OnNATPunchthroughRequest
    <2> HIDE DEF busy
    <2>2. Consistent(g, sessionId', up', Punchers', left') /\ IdleOnlyOf(g, {})
      BY <1>2, <1>5, <1>6, TellConsistent
    <2> QED BY <1>2, <1>4, <2>1, <2>2, Handled
  <1>9. CASE IsUser(d) /\ ~pending
    <2> DEFINE g == StartPunchthroughForUser(f, c)
    <2>1. Serve(g) BY <1>9 DEF OnNATPunchthroughRequest
    <2>2. Consistent(f, sessionId', up', Punchers', left') /\ IdleOnlyOf(f, {c})
      BY <1>1, <1>2, <1>3, <1>9, NewAttempt
    <2> HIDE DEF f
    <2>3. Consistent(g, sessionId', up', Punchers', left') BY <2>2, StartConsistent
    <2>4. f \in FacilitatorState /\ Sound(f, sessionId') BY <2>2 DEF Consistent
    <2>5. IdleOnlyOf(g, {c} \ {c}) BY <2>2, <2>4, StartIdle
    <2>6. {c} \ {c} = {} OBVIOUS
    <2> HIDE DEF g
    <2> QED BY <1>2, <1>4, <2>1, <2>3, <2>5, <2>6, Handled
  <1> QED BY <1>7, <1>8, <1>9

(* A user's port is noted.                                                 *)
LEMMA PortNoted ==
  ASSUME NEW sid, NEW u, NEW P, NEW L, Consistent(Now, sid, u, P, L),
         IdleOnlyOf(Now, {}), NEW c \in Client, IsUser(c), NEW n \in Nat,
         NEW f, f = [Now EXCEPT !.users[c].port = n]
  PROVE  /\ Consistent(f, sid, u, P, L) /\ IdleOnlyOf(f, {})
         /\ f.attempts = attempts
  <1> DEFINE w == [users[c] EXCEPT !.port = n]
             us == [users EXCEPT ![c] = w]
  <1>1. Now \in FacilitatorState /\ Sound(Now, sid) BY DEF Consistent
  <1>2. /\ users \in [Client -> User \cup {NoUser}] /\ attempts \in SUBSET Attempt
        /\ down \in [Client -> Seq(Message)]
    BY <1>1, Parts, NowParts
  <1>3. users[c] \in User BY <1>2 DEF IsUser
  <1>4. w \in User /\ w.ready = users[c].ready BY <1>3 DEF User
  <1>5. f = [users |-> us, attempts |-> attempts, down |-> down]
    <2>1. us = [Now.users EXCEPT ![c] = [Now.users[c] EXCEPT !.port = n]] BY NowParts
    <2>2. f = [Now EXCEPT !.users = [Now.users EXCEPT ![c] = [Now.users[c] EXCEPT !.port = n]]]
      OBVIOUS
    <2> HIDE DEF us
    <2>3. f = [Now EXCEPT !.users = us] BY <2>1, <2>2
    <2> QED BY <2>3 DEF Now
  <1> HIDE DEF w
  <1>6. us \in [Client -> User \cup {NoUser}] BY <1>2, <1>4
  <1>7. \A x \in Client : us[x] = IF x = c THEN w ELSE users[x] BY <1>2
  <1> HIDE DEF us
  <1>8. f \in FacilitatorState
    <2>1. [users |-> us, attempts |-> attempts, down |-> down] \in FacilitatorState
      BY <1>2, <1>6, Assembled
    <2> QED BY <1>5, <2>1, Zenon
  <1>9. f.users = us /\ f.attempts = attempts /\ f.down = down BY <1>5
  <1>10. \A x \in Client :
           f.users[x].ready = users[x].ready /\ (f.users[x] = NoUser <=> users[x] = NoUser)
    BY <1>4, <1>7, <1>9, WaitingUser DEF IsUser
  <1>11. \A a \in attempts : a.sender \in Client /\ a.recipient \in Client BY <1>2 DEF Attempt
  <1>12. Sound(f, sid)
    <2>1. \A a \in attempts :
            /\ a.sender # a.recipient /\ a.id \in 1 .. sid - 1
            /\ f.users[a.sender] # NoUser /\ f.users[a.recipient] # NoUser
      BY <1>1, <1>10, <1>11, NowParts DEF Sound
    <2>2. \A a, b \in attempts : a.id = b.id => a = b BY <1>1, NowParts DEF Sound
    <2> QED BY <1>9, <2>1, <2>2 DEF Sound
  <1>13. \A x \in Client \ L : Token(f, u[x], x \in P, x)
    <2> SUFFICES ASSUME NEW x \in Client \ L PROVE Token(f, u[x], x \in P, x) OBVIOUS
    <2>1. Token(Now, u[x], x \in P, x) BY DEF Consistent
    <2>2. Prepares(f, x) = Prepares(Now, x) BY <1>9, NowParts DEF Prepares
    <2>3. f.users[x].ready = Now.users[x].ready /\ f.down = Now.down BY <1>9, <1>10, NowParts
    <2> QED BY <2>1, <2>2, <2>3 DEF Token
  <1>14. /\ \A x \in Client : f.users[x] = NoUser => x \in L
         /\ \A x \in Client : Names(f.down[x], "CONNECT_AT_TIME", x)
    BY <1>9, <1>10, NowParts DEF Consistent
  <1>15. IdleOnlyOf(f, {}) BY <1>9, <1>10, <1>11, NowParts DEF IdleOnlyOf
  <1> QED BY <1>8, <1>9, <1>12, <1>13, <1>14, <1>15 DEF Consistent

(* An attempt ends before or after a message is sent.                      *)
LEMMA TellWithout ==
  ASSUME NEW f \in FacilitatorState, NEW a, NEW c \in Client, NEW m \in Message
  PROVE  Without(Tell(f, c, m), a) = Tell(Without(f, a), c, m)
  <1> DEFINE t == Tell(f, c, m)
             w == Without(f, a)
             l == Without(t, a)
             r == Tell(w, c, m)
  <1>1. /\ t \in FacilitatorState /\ t.users = f.users /\ t.attempts = f.attempts
        /\ t.down = [f.down EXCEPT ![c] = Append(@, m)]
    BY TellEffect, ZenonT(40)
  <1>2. /\ w \in FacilitatorState /\ w.users = f.users /\ w.attempts = f.attempts \ {a}
        /\ w.down = f.down
    BY WithoutEffect, ZenonT(40)
  <1> HIDE DEF t, w
  <1>3. /\ l \in FacilitatorState /\ l.users = t.users /\ l.attempts = t.attempts \ {a}
        /\ l.down = t.down
    <2>1. t \in FacilitatorState BY <1>1
    <2> QED BY <2>1, WithoutEffect, ZenonT(40)
  <1>4. /\ r \in FacilitatorState /\ r.users = w.users /\ r.attempts = w.attempts
        /\ r.down = [w.down EXCEPT ![c] = Append(@, m)]
    <2>1. w \in FacilitatorState BY <1>2
    <2> QED BY <2>1, TellEffect, ZenonT(40)
  <1> HIDE DEF l, r
  <1>5. l.users = r.users /\ l.attempts = r.attempts BY <1>1, <1>2, <1>3, <1>4
  <1>6. l.down = r.down BY <1>1, <1>2, <1>3, <1>4, Zenon
  <1>7. /\ l = [users |-> l.users, attempts |-> l.attempts, down |-> l.down]
        /\ r = [users |-> r.users, attempts |-> r.attempts, down |-> r.down]
    BY <1>3, <1>4 DEF FacilitatorState
  <1>8. l = r BY <1>5, <1>6, <1>7, Zenon
  <1> QED BY <1>8 DEF l, r, t, w

(* OnGetMostRecentPort of the facilitator keeps the invariant.             *)
LEMMA MostRecentPortStep ==
  ASSUME NatInv, NEW c \in Client, OnMostRecentPort(c) PROVE NatInv'
  <1> DEFINE id == Head(up[c]).id
             f == [Now EXCEPT !.users[c].port = id]
             both == {a \in attempts :
                       /\ Of(a, c) /\ a.phase = "GETTING_RECENT_PORTS" /\ SameSession(a.id, id)
                       /\ f.users[a.sender].port # NoPort
                       /\ f.users[a.recipient].port # NoPort}
             a == Oldest(both)
             m == Msg("CONNECT_AT_TIME", a.id, a.sender, FALSE)
             n == Msg("CONNECT_AT_TIME", a.id, a.recipient, TRUE)
             g == Without(Tell(Tell(f, a.recipient, m), a.sender, n), a)
  <1>1. /\ Receives(c, "PORT") /\ sessionId' = sessionId
        /\ Serve(IF both = {} THEN f ELSE g)
    BY DEF OnMostRecentPort
  <1>2. /\ Consistent(Now, sessionId, up', Punchers', left') /\ IdleOnlyOf(Now, {})
        /\ Addressed' /\ IsUser(c) /\ Head(up[c]) \in Message
        /\ ClientsTyped'
    BY <1>1, Received DEF NatInv, ClientsTyped
  <1>3. id \in Nat BY <1>2 DEF Message
  <1>4. /\ Consistent(f, sessionId, up', Punchers', left') /\ IdleOnlyOf(f, {})
        /\ f.attempts = attempts
    <2> HIDE DEF id
    <2> QED BY <1>2, <1>3, PortNoted
  <1>5. both \in SUBSET attempts /\ \A b \in both : Begun(b) BY DEF Begun
  <1> HIDE DEF id, f, both
  <1>6. f \in FacilitatorState /\ Sound(f, sessionId) BY <1>4 DEF Consistent
  <1>7. attempts \in SUBSET Attempt BY <1>4, <1>6, Parts
  <1>8. CASE both = {}
    <2>1. Serve(f) BY <1>1, <1>8
    <2> QED BY <1>1, <1>2, <1>4, <2>1, Handled
  <1>9. CASE both # {}
    <2>1. a \in both BY <1>5, <1>7, <1>9, OldestIn
    <2>2. Serve(g) BY <1>1, <1>9
    <2> HIDE DEF a
    <2>3. a \in f.attempts /\ a \in Attempt /\ Begun(a) BY <1>4, <1>5, <1>7, <2>1
    <2>4. a.sender \in Client /\ a.recipient \in Client /\ a.sender # a.recipient /\ a.id \in Nat
      BY <1>6, <2>3 DEF Sound, Attempt
    <2>5. /\ m \in Message /\ m.other = a.sender /\ n \in Message /\ n.other = a.recipient
      BY <2>4 DEF Msg, Message
    <2> HIDE DEF m, n
    <2> DEFINE h == Without(f, a)
               k == Tell(h, a.recipient, m)
               l == Tell(k, a.sender, n)
    <2>6. g = l
      <3>1. Tell(f, a.recipient, m) \in FacilitatorState BY <1>6, <2>4, <2>5, TellEffect
      <3>2. g = Tell(Without(Tell(f, a.recipient, m), a), a.sender, n)
        BY <2>4, <2>5, <3>1, TellWithout
      <3>3. Without(Tell(f, a.recipient, m), a) = k BY <1>6, <2>4, <2>5, TellWithout
      <3> HIDE DEF k, g
      <3> QED BY <3>2, <3>3
    <2>7. /\ Consistent(h, sessionId, up', Punchers', left') /\ IdleOnlyOf(h, {})
          /\ h.users = f.users
          /\ \A x \in Client \ left' : Of(a, x) =>
               Spare(h, up'[x], x \in Punchers', x) /\ ~f.users[x].ready
      BY <1>4, <2>3, WithoutConsistent
    <2> HIDE DEF h
    <2>8. \A x \in {a.sender, a.recipient} :
            x \notin left' => Spare(h, up'[x], x \in Punchers', x) /\ ~h.users[x].ready
      BY <2>4, <2>7 DEF Of
    <2>9. h \in FacilitatorState BY <2>7 DEF Consistent
    <2>10. /\ Consistent(k, sessionId, up', Punchers', left') /\ IdleOnlyOf(k, {})
           /\ \A x \in Client \ {a.recipient} : \A v, p : Spare(h, v, p, x) => Spare(k, v, p, x)
      BY <2>4, <2>5, <2>7, <2>8, TellConnect
    <2>11. k.users = h.users BY <2>4, <2>5, <2>9, TellEffect
    <2> HIDE DEF k
    <2>12. a.sender \notin left' =>
             Spare(k, up'[a.sender], a.sender \in Punchers', a.sender) /\ ~k.users[a.sender].ready
      BY <2>4, <2>8, <2>10, <2>11
    <2>13. Consistent(l, sessionId, up', Punchers', left') /\ IdleOnlyOf(l, {})
      BY <2>4, <2>5, <2>10, <2>12, TellConnect
    <2> HIDE DEF g, l
    <2> QED BY <1>1, <1>2, <2>2, <2>6, <2>13, Handled
  <1> QED BY <1>8, <1>9

(* Some users are made ready in a handler.                                 *)
LEMMA FreesTwo ==
  ASSUME NEW f \in FacilitatorState, NEW c \in Client, NEW d \in Client, c # d,
         f.users[c] # NoUser, f.users[d] # NoUser, NEW a
  PROVE  Frees(Without(f, a), {c, d},
               Without([f EXCEPT !.users[c].ready = TRUE, !.users[d].ready = TRUE], a))
  <1> DEFINE v == [f.users[c] EXCEPT !.ready = TRUE]
             w == [f.users[d] EXCEPT !.ready = TRUE]
             us == [f.users EXCEPT ![c] = v, ![d] = w]
             h == [f EXCEPT !.users = us]
  <1>1. /\ f.users \in [Client -> User \cup {NoUser}] /\ f.attempts \in SUBSET Attempt
        /\ f.down \in [Client -> Seq(Message)]
        /\ f = [users |-> f.users, attempts |-> f.attempts, down |-> f.down]
    BY DEF FacilitatorState
  <1>2. f.users[c] \in User /\ f.users[d] \in User BY <1>1
  <1>3. v \in User /\ w \in User BY <1>2 DEF User
  <1>4. [f EXCEPT !.users[c].ready = TRUE, !.users[d].ready = TRUE] = h BY <1>1
  <1> HIDE DEF v, w
  <1>5. us \in [Client -> User \cup {NoUser}] BY <1>1, <1>3
  <1>6. \A x \in Client : us[x] = IF x = c THEN v ELSE IF x = d THEN w ELSE f.users[x] BY <1>1
  <1> HIDE DEF us
  <1>7. h = [users |-> us, attempts |-> f.attempts, down |-> f.down] BY <1>1
  <1>8. h.users = us /\ h.attempts = f.attempts /\ h.down = f.down BY <1>7
  <1>9. h \in FacilitatorState
    <2>1. [users |-> us, attempts |-> f.attempts, down |-> f.down] \in FacilitatorState
      BY <1>1, <1>5, Assembled
    <2> HIDE DEF h
    <2> QED BY <1>7, <2>1, Zenon
  <1> HIDE DEF h
  <1> DEFINE k == Without(h, a)
             l == Without(f, a)
  <1>11. k \in FacilitatorState /\ k.users = us /\ k.attempts = f.attempts \ {a} /\ k.down = f.down
    BY <1>8, <1>9, WithoutEffect
  <1>12. l.users = f.users /\ l.attempts = f.attempts \ {a} /\ l.down = f.down BY WithoutEffect
  <1> HIDE DEF k, l
  <1>13. Frees(l, {c, d}, k) BY <1>3, <1>6, <1>11, <1>12 DEF Frees
  <1> QED BY <1>4, <1>13, Zenon DEF k, l

(* Update of the facilitator, when an attempt has waited too long, keeps   *)
(* the invariant.                                                          *)
LEMMA TimeoutStep ==
  ASSUME NatInv, NEW c \in Client, AttemptTimeout(c) PROVE NatInv'
  <1>1. /\ ClientsTyped /\ Addressed /\ Consistent(Now, sessionId, up, Punchers, left)
        /\ IdleOnlyOf(Now, {})
    BY DEF NatInv
  <1>2. /\ sessionId' = sessionId /\ linked' = linked /\ up' = up /\ left' = left /\ budget' = budget
        /\ sp' = sp /\ failed' = failed /\ stride' = stride /\ queued' = queued /\ asked' = asked
    BY DEF AttemptTimeout, clientVars
  <1>3. ClientsTyped' /\ Addressed' /\ Punchers' = Punchers
    BY <1>1, <1>2 DEF ClientsTyped, Addressed, Punchers, Punching
  <1> DEFINE m(a) == Msg("TARGET_UNRESPONSIVE", a.id, a.recipient, FALSE)
             n(a) == Msg("TARGET_UNRESPONSIVE", a.id, c, FALSE)
             h(a) == Tell(Now, c, m(a))
             f(a) == Tell(h(a), a.recipient, n(a))
             g(a) == Without([f(a) EXCEPT !.users[c].ready = TRUE,
                                          !.users[a.recipient].ready = TRUE], a)
             k(a) == StartPunchthroughForUser(g(a), c)
             l(a) == StartPunchthroughForUser(k(a), a.recipient)
  <1>4. PICK a \in attempts :
          a.sender = c /\ a.phase = "GETTING_RECENT_PORTS" /\ Serve(l(a))
    BY DEF AttemptTimeout
  <1>5. Now \in FacilitatorState /\ Sound(Now, sessionId) BY <1>1 DEF Consistent
  <1>6. a \in Attempt /\ Begun(a) BY <1>4, <1>5, Parts, NowParts DEF Begun
  <1>7. /\ a.sender = c /\ a.recipient \in Client /\ a.id \in Nat /\ c # a.recipient
        /\ users[c] # NoUser /\ users[a.recipient] # NoUser
    BY <1>4, <1>5, <1>6, NowParts DEF Sound, Attempt
  <1>8. /\ m(a) \in Message /\ m(a).type # "CONNECT_AT_TIME"
        /\ n(a) \in Message /\ n(a).type # "CONNECT_AT_TIME"
    BY <1>7 DEF Msg, Message
  <1> HIDE DEF m, n
  <1>9. Consistent(h(a), sessionId, up, Punchers, left) /\ IdleOnlyOf(h(a), {})
    BY <1>1, <1>8, TellConsistent
  <1>10. h(a).users = users /\ h(a).attempts = attempts
    BY ZenonT(40), <1>5, <1>8, TellEffect, NowParts
  <1> HIDE DEF h
  <1>11. h(a) \in FacilitatorState BY <1>9 DEF Consistent
  <1>12. Consistent(f(a), sessionId, up, Punchers, left) /\ IdleOnlyOf(f(a), {})
    BY <1>7, <1>8, <1>9, TellConsistent
  <1>13. f(a).users = users /\ f(a).attempts = attempts
    BY ZenonT(40), <1>7, <1>8, <1>10, <1>11, TellEffect
  <1> HIDE DEF f
  <1>14. f(a) \in FacilitatorState BY <1>12 DEF Consistent
  <1>15. Frees(Without(f(a), a), {c, a.recipient}, g(a)) BY <1>7, <1>13, <1>14, FreesTwo
  <1>16. /\ Consistent(Without(f(a), a), sessionId, up, Punchers, left)
         /\ IdleOnlyOf(Without(f(a), a), {})
         /\ \A x \in Client \ left : Begun(a) /\ Of(a, x) =>
              Spare(Without(f(a), a), up[x], x \in Punchers, x)
    BY <1>12, <1>13, <1>4, WithoutConsistent
  <1>17. \A x \in {c, a.recipient} : x \in Client \ left =>
           Spare(Without(f(a), a), up[x], x \in Punchers, x)
    BY <1>6, <1>7, <1>16 DEF Of
  <1> HIDE DEF g
  <1>18. Consistent(g(a), sessionId, up, Punchers, left) /\ IdleOnlyOf(g(a), {c, a.recipient})
    BY <1>15, <1>16, <1>17, FreesConsistent
  <1>19. Consistent(k(a), sessionId, up, Punchers, left) BY <1>18, StartConsistent
  <1>20. g(a) \in FacilitatorState /\ Sound(g(a), sessionId) BY <1>18 DEF Consistent
  <1>21. IdleOnlyOf(k(a), {c, a.recipient} \ {c}) BY <1>18, <1>20, StartIdle
  <1> HIDE DEF k
  <1>22. Consistent(l(a), sessionId, up, Punchers, left) BY <1>7, <1>19, StartConsistent
  <1>23. k(a) \in FacilitatorState /\ Sound(k(a), sessionId) BY <1>19 DEF Consistent
  <1>24. IdleOnlyOf(l(a), ({c, a.recipient} \ {c}) \ {a.recipient}) BY <1>7, <1>21, <1>23, StartIdle
  <1>25. ({c, a.recipient} \ {c}) \ {a.recipient} = {} OBVIOUS
  <1> HIDE DEF l
  <1>26. IdleOnlyOf(l(a), {}) BY <1>24, <1>25
  <1>27. Consistent(l(a), sessionId', up', Punchers', left') BY <1>2, <1>3, <1>22
  <1> QED BY <1>3, <1>4, <1>26, <1>27, Handled

-----------------------------------------------------------------------------
(* OnClosedConnection of the facilitator                                   *)

(* The state before the freed users are made ready.                        *)
Dropped(c) ==
  [users |-> [users EXCEPT ![c] = NoUser], attempts |-> Remaining(c),
   down |-> LoseAttempts(c).down]

(* The other user of an attempt.                                           *)
LEMMA OtherUser ==
  ASSUME NEW a \in Attempt, a.sender # a.recipient, NEW c \in Client, Of(a, c)
  PROVE  Other(a, c) \in Client \ {c} /\ Of(a, Other(a, c))
  BY DEF Attempt, Of, Other

(* What is on the ways down when the partners have been told.              *)
LEMMA LostDown ==
  ASSUME Now \in FacilitatorState, NEW c \in Client
  PROVE  /\ LoseAttempts(c).down \in [Client -> Seq(Message)]
         /\ \A x \in Client \ {c} :
              \/ LoseAttempts(c).down[x] = down[x]
              \/ \E m \in Message : /\ m.type # "CONNECT_AT_TIME"
                                    /\ LoseAttempts(c).down[x] = Append(down[x], m)
         /\ LoseAttempts(c).down[c] = <<>>
  <1> DEFINE dn == [d \in Client |->
               CASE d = c -> <<>>
                 [] d # c /\ d \in Partners(c) ->
                      Append(down[d], Msg("TO_TARGET_LOST", Between(c, d).id, c, FALSE))
                 [] OTHER -> down[d]]
  <1>1. LoseAttempts(c).down = dn BY DEF LoseAttempts
  <1>2. attempts \in SUBSET Attempt /\ \A x \in Client : down[x] \in Seq(Message) BY Parts, NowParts
  <1>3. dn[c] = <<>> OBVIOUS
  <1>4. ASSUME NEW x \in Client \ {c}
        PROVE  \/ dn[x] = down[x]
               \/ \E m \in Message : m.type # "CONNECT_AT_TIME" /\ dn[x] = Append(down[x], m)
    <2>1. CASE x \in Partners(c)
      <3> DEFINE m == Msg("TO_TARGET_LOST", Between(c, x).id, c, FALSE)
      <3>1. \E a \in Mine(c) : Of(a, x) BY <2>1 DEF Partners, Other, Of
      <3>2. Between(c, x) \in Mine(c) BY <3>1 DEF Between
      <3>3. Between(c, x).id \in Nat BY <1>2, <3>2 DEF Mine, Attempt
      <3>4. m \in Message /\ m.type # "CONNECT_AT_TIME" BY <3>3 DEF Msg, Message
      <3>5. dn[x] = Append(down[x], m) BY <2>1
      <3> HIDE DEF m, dn
      <3> QED BY <3>4, <3>5
    <2>2. CASE x \notin Partners(c) BY <2>2
    <2> QED BY <2>1, <2>2
  <1>5. \A x \in Client : dn[x] \in Seq(Message)
    <2> SUFFICES ASSUME NEW x \in Client PROVE dn[x] \in Seq(Message) OBVIOUS
    <2>1. CASE x = c BY <1>3, <2>1
    <2>2. CASE x # c
      <3> HIDE DEF dn
      <3> QED BY <1>2, <1>4, <2>2
    <2> QED BY <2>1, <2>2
  <1>6. dn \in [Client -> Seq(Message)] BY <1>5
  <1> HIDE DEF dn
  <1> QED BY <1>1, <1>3, <1>4, <1>6

(* Without user c, its attempts and its way up the state is consistent,    *)
(* and the freed users have no token.                                      *)
LEMMA DroppedConsistent ==
  ASSUME NEW sid, NEW u \in [Client -> Seq(Message)], NEW P, NEW L, Consistent(Now, sid, u, P, L),
         IdleOnlyOf(Now, {}), NEW c \in Client
  PROVE  /\ Consistent(Dropped(c), sid, [u EXCEPT ![c] = <<>>], P, L \cup {c})
         /\ IdleOnlyOf(Dropped(c), {})
         /\ \A x \in Freed(c) :
              /\ x \in Client \ {c} /\ users[x] # NoUser
              /\ x \notin L => Spare(Dropped(c), u[x], x \in P, x)
  <1> DEFINE f == Dropped(c)
             us == [users EXCEPT ![c] = NoUser]
             dn == LoseAttempts(c).down
             v == [u EXCEPT ![c] = <<>>]
  <1>1. Now \in FacilitatorState /\ Sound(Now, sid) BY DEF Consistent
  <1>2. /\ users \in [Client -> User \cup {NoUser}] /\ attempts \in SUBSET Attempt
        /\ \A x \in Client : down[x] \in Seq(Message)
    BY <1>1, Parts, NowParts
  <1>3. f.users = us /\ f.attempts = Remaining(c) /\ f.down = dn BY DEF Dropped
  <1>4. us \in [Client -> User \cup {NoUser}] BY <1>2
  <1>5. \A x \in Client \ {c} : us[x] = users[x] BY <1>2
  <1>6. Remaining(c) \in SUBSET attempts /\ \A a \in Remaining(c) : ~Of(a, c) BY DEF Remaining, Mine
  <1>7. /\ dn \in [Client -> Seq(Message)] /\ dn[c] = <<>>
        /\ \A x \in Client \ {c} :
             \/ dn[x] = down[x]
             \/ \E m \in Message : m.type # "CONNECT_AT_TIME" /\ dn[x] = Append(down[x], m)
    BY <1>1, LostDown
  <1>8. f \in FacilitatorState
    <2>1. Remaining(c) \in SUBSET Attempt BY <1>2, <1>6
    <2> HIDE DEF us, dn
    <2>2. [users |-> us, attempts |-> Remaining(c), down |-> dn] \in FacilitatorState
      BY <1>4, <1>7, <2>1, Assembled
    <2> QED BY <2>2 DEF Dropped, us, dn
  <1> HIDE DEF f, us, dn
  <1>9. \A a \in attempts : a.sender \in Client /\ a.recipient \in Client BY <1>2 DEF Attempt
  <1>10. Sound(f, sid)
    <2>1. \A a \in Remaining(c) :
            /\ a.sender # a.recipient /\ a.id \in 1 .. sid - 1
            /\ us[a.sender] # NoUser /\ us[a.recipient] # NoUser
      <3> SUFFICES ASSUME NEW a \in Remaining(c)
                   PROVE  /\ a.sender # a.recipient /\ a.id \in 1 .. sid - 1
                          /\ us[a.sender] # NoUser /\ us[a.recipient] # NoUser
        OBVIOUS
      <3>1. a \in attempts /\ a.sender # c /\ a.recipient # c BY <1>6 DEF Of
      <3>2. /\ a.sender # a.recipient /\ a.id \in 1 .. sid - 1
            /\ users[a.sender] # NoUser /\ users[a.recipient] # NoUser
        BY <1>1, <3>1, NowParts DEF Sound
      <3> QED BY <1>5, <1>9, <3>1, <3>2
    <2>2. \A a, b \in Remaining(c) : a.id = b.id => a = b BY <1>1, <1>6, NowParts DEF Sound
    <2> QED BY <1>3, <2>1, <2>2 DEF Sound
  <1>11. \A x \in Client \ {c} :
           /\ Holds(dn[x], "CONNECT_AT_TIME") = Holds(down[x], "CONNECT_AT_TIME")
           /\ Once(down[x], "CONNECT_AT_TIME") => Once(dn[x], "CONNECT_AT_TIME")
           /\ Names(down[x], "CONNECT_AT_TIME", x) => Names(dn[x], "CONNECT_AT_TIME", x)
    <2> SUFFICES ASSUME NEW x \in Client \ {c}
                 PROVE  /\ Holds(dn[x], "CONNECT_AT_TIME") = Holds(down[x], "CONNECT_AT_TIME")
                        /\ Once(down[x], "CONNECT_AT_TIME") => Once(dn[x], "CONNECT_AT_TIME")
                        /\ Names(down[x], "CONNECT_AT_TIME", x) => Names(dn[x], "CONNECT_AT_TIME", x)
      OBVIOUS
    <2>1. CASE dn[x] = down[x] BY <2>1
    <2>2. CASE \E m \in Message : m.type # "CONNECT_AT_TIME" /\ dn[x] = Append(down[x], m)
      <3>1. PICK m \in Message : m.type # "CONNECT_AT_TIME" /\ dn[x] = Append(down[x], m) BY <2>2
      <3>2. down[x] \in Seq(Message) BY <1>2
      <3> DEFINE e == Append(down[x], m)
      <3>3. /\ Holds(e, "CONNECT_AT_TIME") = Holds(down[x], "CONNECT_AT_TIME")
            /\ Once(down[x], "CONNECT_AT_TIME") => Once(e, "CONNECT_AT_TIME")
            /\ Names(down[x], "CONNECT_AT_TIME", x) => Names(e, "CONNECT_AT_TIME", x)
        BY <3>1, <3>2, MessageAppend
      <3> HIDE DEF e
      <3>4. dn[x] = e BY <3>1 DEF e
      <3> QED BY <3>3, <3>4
    <2> QED BY <1>7, <2>1, <2>2
  <1>12. \A x \in Client : Names(f.down[x], "CONNECT_AT_TIME", x)
    <2> SUFFICES ASSUME NEW x \in Client PROVE Names(dn[x], "CONNECT_AT_TIME", x) BY <1>3
    <2>1. CASE x = c BY <1>7, <2>1 DEF Names
    <2>2. CASE x # c BY <1>11, <2>2, NowParts DEF Consistent
    <2> QED BY <2>1, <2>2
  <1>13. \A x \in Client : Prepares(f, x) \in SUBSET Prepares(Now, x)
    BY <1>3, <1>6, NowParts DEF Prepares
  <1>14. \A x \in Client \ (L \cup {c}) : Token(f, v[x], x \in P, x)
    <2> SUFFICES ASSUME NEW x \in Client \ (L \cup {c}) PROVE Token(f, v[x], x \in P, x) OBVIOUS
    <2>1. Token(Now, u[x], x \in P, x) /\ v[x] = u[x] BY DEF Consistent
    <2> HIDE DEF v
    <2>2. f.users[x] = Now.users[x] BY <1>3, <1>5, NowParts
    <2>3. /\ Holds(f.down[x], "CONNECT_AT_TIME") = Holds(Now.down[x], "CONNECT_AT_TIME")
          /\ Once(Now.down[x], "CONNECT_AT_TIME") => Once(f.down[x], "CONNECT_AT_TIME")
      BY <1>3, <1>11, NowParts
    <2> QED BY <1>13, <2>1, <2>2, <2>3 DEF Token
  <1>15. \A x \in Client : f.users[x] = NoUser => x \in L \cup {c}
    BY <1>3, <1>5, NowParts DEF Consistent
  <1>16. IdleOnlyOf(f, {})
    <2> SUFFICES ASSUME NEW a \in Remaining(c), us[a.sender].ready, us[a.recipient].ready
                 PROVE  FALSE
      BY <1>3 DEF IdleOnlyOf
    <2>1. a \in attempts /\ a.sender # c /\ a.recipient # c BY <1>6 DEF Of
    <2>2. users[a.sender].ready /\ users[a.recipient].ready BY <1>5, <1>9, <2>1
    <2> QED BY <2>1, <2>2, NowParts DEF IdleOnlyOf
  <1>17. ASSUME NEW x \in Freed(c)
         PROVE  /\ x \in Client \ {c} /\ users[x] # NoUser
                /\ x \notin L => Spare(f, u[x], x \in P, x)
    <2>1. PICK a \in Mine(c) : Begun(a) /\ x = Other(a, c) BY DEF Freed
    <2>2. a \in attempts /\ Of(a, c) /\ a \in Attempt BY <1>2, <2>1 DEF Mine
    <2>3. a.sender # a.recipient /\ users[a.sender] # NoUser /\ users[a.recipient] # NoUser
      BY <1>1, <2>2, NowParts DEF Sound
    <2>4. x \in Client \ {c} /\ Of(a, x) BY <2>1, <2>2, <2>3, OtherUser
    <2>5. users[x] # NoUser BY <2>3, <2>4 DEF Of
    <2>6. ASSUME x \notin L PROVE Spare(f, u[x], x \in P, x)
      <3>1. Token(Now, u[x], x \in P, x) BY <2>4, <2>6 DEF Consistent
      <3>2. a \in Prepares(Now, x) BY <2>1, <2>2, <2>4, NowParts DEF Prepares
      <3>3. a \notin Prepares(f, x) BY <1>3, <1>6, <2>2 DEF Prepares
      <3>4. Prepares(f, x) = {} BY <1>13, <2>4, <3>1, <3>2, <3>3 DEF Token
      <3>5. ~Holds(f.down[x], "CONNECT_AT_TIME") BY <1>3, <1>11, <2>4, <3>1, <3>2, NowParts DEF Token
      <3> QED BY <3>1, <3>2, <3>4, <3>5 DEF Token, Spare
    <2> QED BY <2>4, <2>5, <2>6
  <1> HIDE DEF v
  <1>18. Consistent(f, sid, v, P, L \cup {c}) BY <1>8, <1>10, <1>12, <1>14, <1>15 DEF Consistent
  <1> QED BY <1>16, <1>17, <1>18 DEF f, v

(* Then the freed users are ready.                                         *)
LEMMA LoseFrees ==
  ASSUME Now \in FacilitatorState, NEW c \in Client,
         \A x \in Freed(c) : x \in Client \ {c} /\ users[x] # NoUser
  PROVE  Frees(Dropped(c), Freed(c), LoseAttempts(c))
  <1> DEFINE us == [d \in Client |-> CASE d = c -> NoUser
                                 [] d # c /\ d \in Freed(c) -> [users[d] EXCEPT !.ready = TRUE]
                                 [] OTHER -> users[d]]
             dn == LoseAttempts(c).down
             l == LoseAttempts(c)
  <1>1. l.users = us /\ l.attempts = Remaining(c) /\ l.down = dn BY DEF LoseAttempts
  <1>2. users \in [Client -> User \cup {NoUser}] /\ attempts \in SUBSET Attempt BY Parts, NowParts
  <1>3. /\ us[c] = NoUser
        /\ \A x \in Client \ {c} : x \notin Freed(c) => us[x] = users[x]
        /\ \A x \in Client \ {c} : x \in Freed(c) => us[x] = [users[x] EXCEPT !.ready = TRUE]
    OBVIOUS
  <1>4. \A x \in Freed(c) : us[x] \in User
    <2> SUFFICES ASSUME NEW x \in Freed(c) PROVE us[x] \in User OBVIOUS
    <2>1. x \in Client \ {c} /\ users[x] \in User BY <1>2
    <2>2. [users[x] EXCEPT !.ready = TRUE] \in User BY <2>1 DEF User
    <2> QED BY <1>3, <2>1, <2>2
  <1>5. us \in [Client -> User \cup {NoUser}]
    <2>1. \A x \in Client : us[x] \in User \cup {NoUser}
      <3> HIDE DEF us
      <3> QED BY <1>2, <1>3, <1>4
    <2> QED BY <2>1
  <1>6. dn \in [Client -> Seq(Message)] BY LostDown
  <1>7. Remaining(c) \in SUBSET Attempt BY <1>2 DEF Remaining
  <1>8. l = [users |-> us, attempts |-> Remaining(c), down |-> dn] BY DEF LoseAttempts
  <1> HIDE DEF us, dn, l
  <1>9. l \in FacilitatorState
    <2>1. [users |-> us, attempts |-> Remaining(c), down |-> dn] \in FacilitatorState
      BY <1>5, <1>6, <1>7, Assembled
    <2> QED BY <1>8, <2>1, Zenon
  <1>10. /\ Dropped(c).attempts = Remaining(c) /\ Dropped(c).down = dn
         /\ \A x \in Client : Dropped(c).users[x] = IF x = c THEN NoUser ELSE users[x]
    BY <1>2 DEF Dropped, dn
  <1>11. c \notin Freed(c) OBVIOUS
  <1>12. Frees(Dropped(c), Freed(c), l) BY <1>1, <1>3, <1>4, <1>9, <1>10, <1>11 DEF Frees
  <1> QED BY <1>12 DEF l

(* The function inside StartFreed: entry k has served the sessions up to k.*)
Serves(s, c, n) ==
  s = [k \in 0 .. n |->
         IF k = 0 THEN LoseAttempts(c)
         ELSE IF \E a \in Mine(c) : a.id = k /\ Begun(a)
              THEN StartPunchthroughForUser(s[k - 1], Other(CHOOSE a \in Mine(c) : a.id = k, c))
              ELSE s[k - 1]]

(* There is such a function for every number of sessions.                  *)
LEMMA ServesExists ==
  ASSUME NEW c PROVE \A n \in Nat : \E s : Serves(s, c, n)
  <1> DEFINE E(k, p) == IF k = 0 THEN LoseAttempts(c)
                        ELSE IF \E a \in Mine(c) : a.id = k /\ Begun(a)
                             THEN StartPunchthroughForUser(p, Other(CHOOSE a \in Mine(c) : a.id = k, c))
                             ELSE p
             S == {n \in Nat : \E s : s = [k \in 0 .. n |-> E(k, s[k - 1])]}
  <1> HIDE DEF E
  <1>1. 0 \in S
    <2> DEFINE s == [k \in 0 .. 0 |-> E(0, {})]
    <2>1. \A p : E(0, p) = E(0, {}) BY DEF E
    <2>2. s = [k \in 0 .. 0 |-> E(k, s[k - 1])]
      <3>1. \A k \in 0 .. 0 : k = 0 OBVIOUS
      <3>2. \A k \in 0 .. 0 : E(k, s[k - 1]) = E(0, {}) BY <2>1, <3>1
      <3> QED BY <3>2
    <2> HIDE DEF s
    <2> QED BY <2>2
  <1>2. ASSUME NEW n \in Nat, n \in S PROVE n + 1 \in S
    <2>1. PICK s : s = [k \in 0 .. n |-> E(k, s[k - 1])] BY <1>2
    <2> DEFINE g == [k \in 0 .. n + 1 |-> IF k <= n THEN s[k] ELSE E(k, s[k - 1])]
    <2>0. \A p : E(0, p) = E(0, {}) BY DEF E
    <2>2. ASSUME NEW k \in 0 .. n + 1 PROVE g[k] = E(k, g[k - 1])
      <3>1. k # 0 => k - 1 \in 0 .. n + 1 /\ g[k - 1] = s[k - 1] OBVIOUS
      <3>2. CASE k <= n
        <4>1. k \in 0 .. n BY <3>2
        <4>2. s[k] = E(k, s[k - 1]) BY <2>1, <4>1, Zenon
        <4>3. g[k] = s[k] BY <3>2
        <4> HIDE DEF g
        <4>4. CASE k = 0 BY <2>0, <4>2, <4>3, <4>4, Zenon
        <4>5. CASE k # 0 BY <3>1, <4>2, <4>3, <4>5, Zenon
        <4> QED BY <4>4, <4>5
      <3>3. CASE ~(k <= n)
        <4>1. k # 0 BY <3>3
        <4>2. g[k] = E(k, s[k - 1]) BY <3>3
        <4> HIDE DEF g
        <4> QED BY <3>1, <4>1, <4>2, Zenon
      <3> QED BY <3>2, <3>3
    <2>3. g = [k \in 0 .. n + 1 |-> E(k, g[k - 1])] BY <2>2
    <2> HIDE DEF g
    <2> QED BY <2>3
  <1> HIDE DEF S
  <1>3. Nat \subseteq S BY <1>1, <1>2, Induction, Zenon
  <1> QED BY <1>3, Zenon DEF S, E, Serves

(* The users freed by the end of attempts with sessions after n.           *)
Later(c, n) == {Other(a, c) : a \in {x \in Mine(c) : Begun(x) /\ x.id > n}}

(* One session more.                                                       *)
LEMMA ServesOne ==
  ASSUME NEW c \in Client, NEW sid \in Nat, Now \in FacilitatorState, Sound(Now, sid), NEW n \in Nat,
         NEW u, NEW P, NEW L, NEW f, Consistent(f, sid, u, P, L), IdleOnlyOf(f, Later(c, n)),
         NEW g, g = IF \E a \in Mine(c) : a.id = n + 1 /\ Begun(a)
                    THEN StartPunchthroughForUser(f, Other(CHOOSE a \in Mine(c) : a.id = n + 1, c))
                    ELSE f
  PROVE  Consistent(g, sid, u, P, L) /\ IdleOnlyOf(g, Later(c, n + 1))
  <1>1. /\ attempts \in SUBSET Attempt /\ \A a \in attempts : a.sender # a.recipient /\ a.id \in Nat
        /\ \A a, b \in attempts : a.id = b.id => a = b
    BY Parts, NowParts DEF Sound, Attempt
  <1>2. \A a \in Mine(c) : a \in attempts /\ Of(a, c) BY DEF Mine
  <1>3. CASE \E a \in Mine(c) : a.id = n + 1 /\ Begun(a)
    <2>1. PICK a \in Mine(c) : a.id = n + 1 /\ Begun(a) BY <1>3
    <2>2. \A b \in Mine(c) : b.id = n + 1 => b = a BY <1>1, <1>2, <2>1
    <2>3. (CHOOSE b \in Mine(c) : b.id = n + 1) = a BY <2>1, <2>2
    <2> DEFINE d == Other(a, c)
    <2>4. d \in Client BY <1>1, <1>2, OtherUser
    <2>5. g = StartPunchthroughForUser(f, d) BY <1>3, <2>3
    <2> HIDE DEF d
    <2>6. f \in FacilitatorState /\ Sound(f, sid) BY DEF Consistent
    <2>7. Consistent(StartPunchthroughForUser(f, d), sid, u, P, L) BY <2>4, StartConsistent
    <2>8. IdleOnlyOf(StartPunchthroughForUser(f, d), Later(c, n) \ {d}) BY <2>4, <2>6, StartIdle
    <2>9. Later(c, n) \ {d} \in SUBSET Later(c, n + 1)
      <3> SUFFICES ASSUME NEW x \in Later(c, n), x # d PROVE x \in Later(c, n + 1) OBVIOUS
      <3>1. PICK b \in Mine(c) : Begun(b) /\ b.id > n /\ x = Other(b, c) BY DEF Later
      <3>2. b.id # n + 1 BY <2>2, <3>1 DEF d
      <3>3. b.id > n + 1 BY <1>1, <1>2, <3>1, <3>2
      <3> QED BY <3>1, <3>3 DEF Later
    <2> DEFINE h == StartPunchthroughForUser(f, d)
    <2> HIDE DEF h
    <2>10. IdleOnlyOf(h, Later(c, n + 1)) BY <2>8, <2>9 DEF IdleOnlyOf, h
    <2> QED BY <2>5, <2>7, <2>10 DEF h
  <1>4. CASE ~\E a \in Mine(c) : a.id = n + 1 /\ Begun(a)
    <2>1. g = f BY <1>4
    <2>2. Later(c, n) \in SUBSET Later(c, n + 1)
      <3> SUFFICES ASSUME NEW x \in Later(c, n) PROVE x \in Later(c, n + 1) OBVIOUS
      <3>1. PICK b \in Mine(c) : Begun(b) /\ b.id > n /\ x = Other(b, c) BY DEF Later
      <3>2. b.id # n + 1 BY <1>4, <3>1
      <3>3. b.id > n + 1 BY <1>1, <1>2, <3>1, <3>2
      <3> QED BY <3>1, <3>3 DEF Later
    <2>3. IdleOnlyOf(f, Later(c, n + 1)) BY <2>2 DEF IdleOnlyOf
    <2> QED BY <2>1, <2>3
  <1> QED BY <1>3, <1>4

(* All sessions.                                                           *)
LEMMA StartFreedConsistent ==
  ASSUME NEW c \in Client, sessionId \in Nat, Now \in FacilitatorState, Sound(Now, sessionId),
         NEW u, NEW P, NEW L, Consistent(LoseAttempts(c), sessionId, u, P, L),
         IdleOnlyOf(LoseAttempts(c), Freed(c))
  PROVE  Consistent(StartFreed(c), sessionId, u, P, L) /\ IdleOnlyOf(StartFreed(c), {})
  <1> DEFINE N == sessionId
             s == CHOOSE s : s = [k \in 0 .. N |->
                    IF k = 0 THEN LoseAttempts(c)
                    ELSE IF \E a \in Mine(c) : a.id = k /\ Begun(a)
                         THEN StartPunchthroughForUser(s[k - 1], Other(CHOOSE a \in Mine(c) : a.id = k, c))
                         ELSE s[k - 1]]
  <1>1. StartFreed(c) = s[N] BY DEF StartFreed
  <1>2. Serves(s, c, N) BY ServesExists, Zenon DEF Serves
  <1> HIDE DEF s
  <1> DEFINE Q(f, n) == Consistent(f, N, u, P, L) /\ IdleOnlyOf(f, Later(c, n))
             S == {n \in Nat : n \in 0 .. N => Q(s[n], n)}
  <1>3. \A a \in Mine(c) : a.id \in 1 .. N - 1 BY NowParts DEF Mine, Sound
  <1>4. 0 \in S
    <2>1. s[0] = LoseAttempts(c)
      <3>1. 0 \in 0 .. N OBVIOUS
      <3> QED BY <1>2, <3>1, Zenon DEF Serves
    <2>2. Later(c, 0) = Freed(c)
      <3>1. \A a \in Mine(c) : a.id > 0 BY <1>3
      <3> QED BY <3>1 DEF Later, Freed
    <2> QED BY <2>1, <2>2
  <1>5. ASSUME NEW n \in Nat, n \in S PROVE n + 1 \in S
    <2> SUFFICES ASSUME n + 1 \in 0 .. N PROVE Q(s[n + 1], n + 1) OBVIOUS
    <2>1. Q(s[n], n) BY <1>5
    <2> DEFINE f == s[n]
               g == s[n + 1]
    <2>2. g = IF n + 1 = 0 THEN LoseAttempts(c)
              ELSE IF \E a \in Mine(c) : a.id = n + 1 /\ Begun(a)
                   THEN StartPunchthroughForUser(s[(n + 1) - 1],
                          Other(CHOOSE a \in Mine(c) : a.id = n + 1, c))
                   ELSE s[(n + 1) - 1]
      BY <1>2, Zenon DEF Serves
    <2>3. n + 1 # 0 /\ (n + 1) - 1 = n OBVIOUS
    <2>4. s[(n + 1) - 1] = f BY <2>3
    <2> HIDE DEF f, g
    <2>5. g = IF \E a \in Mine(c) : a.id = n + 1 /\ Begun(a)
              THEN StartPunchthroughForUser(f, Other(CHOOSE a \in Mine(c) : a.id = n + 1, c))
              ELSE f
      BY <2>2, <2>3, <2>4
    <2>6. Consistent(f, N, u, P, L) /\ IdleOnlyOf(f, Later(c, n)) BY <2>1 DEF f
    <2>7. Consistent(g, N, u, P, L) /\ IdleOnlyOf(g, Later(c, n + 1)) BY <2>5, <2>6, ServesOne
    <2> QED BY <2>7 DEF g
  <1> HIDE DEF S
  <1>6. Nat \subseteq S BY <1>4, <1>5, Induction, Zenon
  <1>7. Q(s[N], N)
    <2>1. N \in S /\ N \in 0 .. N BY <1>6
    <2> QED BY <2>1 DEF S
  <1>8. Later(c, N) = {}
    <2>1. \A a \in Mine(c) : ~(a.id > N) BY <1>3
    <2> QED BY <2>1 DEF Later
  <1> QED BY <1>1, <1>7, <1>8

(* OnClosedConnection of the facilitator keeps the invariant.              *)
LEMMA FacilitatorLosesStep ==
  ASSUME NatInv, NEW c \in Client, FacilitatorLoses(c) PROVE NatInv'
  <1>1. /\ ClientsTyped /\ Addressed /\ Consistent(Now, sessionId, up, Punchers, left)
        /\ IdleOnlyOf(Now, {})
    BY DEF NatInv
  <1>2. /\ c \in linked => c \in Leavers \ left
        /\ left' = left \cup {c} /\ Serve(StartFreed(c))
        /\ up' = [up EXCEPT ![c] = <<>>]
        /\ sessionId' = sessionId /\ linked' = linked /\ budget' = budget
        /\ sp' = sp /\ failed' = failed /\ stride' = stride /\ queued' = queued /\ asked' = asked
    BY DEF FacilitatorLoses, clientVars
  <1>3. up \in [Client -> Seq(Message)] /\ sessionId \in Nat BY <1>1 DEF ClientsTyped
  <1>4. up' \in [Client -> Seq(Message)]
    <2>1. <<>> \in Seq(Message) OBVIOUS
    <2> QED BY <1>2, <1>3, <2>1
  <1>5. left' \subseteq Leavers BY <1>1, <1>2 DEF Addressed, ClientsTyped
  <1>6. ClientsTyped' BY <1>1, <1>2, <1>4, <1>5 DEF ClientsTyped
  <1>7. Punchers' = Punchers BY <1>2 DEF Punchers, Punching
  <1>8. Addressed'
    <2> SUFFICES ASSUME NEW x \in Client
                 PROVE  /\ Names(up'[x], "REQUEST", x)
                        /\ \A i \in DOMAIN queued'[x] : queued'[x][i] # x
                        /\ Punching(x)' => sp'[x].target \in Client \ {x}
                        /\ x \notin linked' => x \in left'
      BY DEF Addressed
    <2>1. Names(up'[x], "REQUEST", x) BY <1>1, <1>2, <1>3 DEF Addressed, Names
    <2> QED BY <1>1, <1>2, <2>1 DEF Addressed, Punching
  <1>9. /\ Consistent(Dropped(c), sessionId, up', Punchers, left')
        /\ IdleOnlyOf(Dropped(c), {})
        /\ \A x \in Freed(c) :
             /\ x \in Client \ {c} /\ users[x] # NoUser
             /\ x \notin left => Spare(Dropped(c), up[x], x \in Punchers, x)
    BY <1>1, <1>2, <1>3, DroppedConsistent
  <1>10. Now \in FacilitatorState /\ Sound(Now, sessionId) BY <1>1 DEF Consistent
  <1>11. Frees(Dropped(c), Freed(c), LoseAttempts(c)) BY <1>9, <1>10, LoseFrees
  <1>12. \A x \in Freed(c) : x \in Client \ left' => Spare(Dropped(c), up'[x], x \in Punchers, x)
    BY <1>2, <1>3, <1>9
  <1>13. /\ Consistent(LoseAttempts(c), sessionId, up', Punchers, left')
         /\ IdleOnlyOf(LoseAttempts(c), Freed(c))
    BY <1>9, <1>11, <1>12, FreesConsistent
  <1>14. Consistent(StartFreed(c), sessionId, up', Punchers, left') /\ IdleOnlyOf(StartFreed(c), {})
    BY <1>3, <1>10, <1>13, StartFreedConsistent
  <1>15. Consistent(StartFreed(c), sessionId', up', Punchers', left') BY <1>2, <1>7, <1>14
  <1> QED BY <1>2, <1>6, <1>8, <1>14, <1>15, Handled

-----------------------------------------------------------------------------
(* The clients' handlers                                                   *)

(* Client c had the token outside the facilitator if it has it there now,  *)
(* and has it in one place.                                                *)
Passed(u, v, d, e, p, q) ==
  /\ Once(v, "CLIENT_READY") /\ Once(e, "CONNECT_AT_TIME")
  /\ ~(Holds(v, "CLIENT_READY") /\ Holds(e, "CONNECT_AT_TIME"))
  /\ ~(Holds(v, "CLIENT_READY") /\ q) /\ ~(Holds(e, "CONNECT_AT_TIME") /\ q)
  /\ Holds(v, "CLIENT_READY") \/ Holds(e, "CONNECT_AT_TIME") \/ q =>
       Holds(u, "CLIENT_READY") \/ Holds(d, "CONNECT_AT_TIME") \/ p

(* The token is passed on by a client ...                                  *)
LEMMA TokenPassed ==
  ASSUME NEW f, NEW g, NEW c, NEW u, NEW v, NEW p \in BOOLEAN, NEW q \in BOOLEAN,
         Token(f, u, p, c), g.users = f.users, Prepares(g, c) = Prepares(f, c),
         Passed(u, v, f.down[c], g.down[c], p, q)
  PROVE  Token(g, v, q, c)
  BY DEF Token, Passed

(* ... or kept.                                                            *)
LEMMA PassedOf ==
  ASSUME NEW f, NEW u, NEW p, NEW c, Token(f, u, p, c)
  PROVE  /\ Once(u, "CLIENT_READY") /\ Once(f.down[c], "CONNECT_AT_TIME")
         /\ ~(Holds(u, "CLIENT_READY") /\ Holds(f.down[c], "CONNECT_AT_TIME"))
         /\ ~(Holds(u, "CLIENT_READY") /\ p) /\ ~(Holds(f.down[c], "CONNECT_AT_TIME") /\ p)
  BY DEF Token

(* A step of client c that leaves the facilitator alone.                   *)
LEMMA ClientMoves ==
  ASSUME NatInv, NEW c \in Client, users' = users, attempts' = attempts, sessionId' = sessionId,
         ClientsTyped', down' \in [Client -> Seq(Message)], left \subseteq left',
         \A x \in Client \ {c} :
           /\ up'[x] = up[x] /\ down'[x] = down[x] /\ sp'[x] = sp[x] /\ queued'[x] = queued[x]
           /\ x \in linked => x \in linked',
         Names(up'[c], "REQUEST", c), Names(down'[c], "CONNECT_AT_TIME", c),
         \A i \in DOMAIN queued'[c] : queued'[c][i] # c,
         sp'[c].mode # "IDLE" => sp'[c].target \in Client \ {c},
         c \notin linked' => c \in left',
         c \notin left' => Passed(up[c], up'[c], down[c], down'[c],
                                  sp[c].mode # "IDLE", sp'[c].mode # "IDLE")
  PROVE  NatInv'
  <1>1. /\ ClientsTyped /\ Addressed /\ Consistent(Now, sessionId, up, Punchers, left)
        /\ IdleOnlyOf(Now, {})
    BY DEF NatInv
  <1>2. Addressed'
    <2> SUFFICES ASSUME NEW x \in Client
                 PROVE  /\ Names(up'[x], "REQUEST", x)
                        /\ \A i \in DOMAIN queued'[x] : queued'[x][i] # x
                        /\ sp'[x].mode # "IDLE" => sp'[x].target \in Client \ {x}
                        /\ x \notin linked' => x \in left'
      BY DEF Addressed, Punching
    <2>1. CASE x = c BY <2>1
    <2>2. CASE x # c BY <1>1, <2>2 DEF Addressed, Punching
    <2> QED BY <2>1, <2>2
  <1> DEFINE g == [users |-> users, attempts |-> attempts, down |-> down']
  <1>3. Now' = g BY DEF Now
  <1>4. Now \in FacilitatorState /\ Sound(Now, sessionId) BY <1>1 DEF Consistent
  <1>5. users \in [Client -> User \cup {NoUser}] /\ attempts \in SUBSET Attempt
    BY <1>4, Parts, NowParts
  <1>6. g \in FacilitatorState BY <1>5, Assembled
  <1>7. g.users = Now.users /\ g.attempts = Now.attempts /\ g.down = down' BY NowParts
  <1> HIDE DEF g
  <1>8. Sound(g, sessionId) BY <1>4, <1>7 DEF Sound
  <1>9. \A x \in Client : Names(g.down[x], "CONNECT_AT_TIME", x)
    <2> SUFFICES ASSUME NEW x \in Client PROVE Names(g.down[x], "CONNECT_AT_TIME", x) OBVIOUS
    <2>1. Names(down[x], "CONNECT_AT_TIME", x) BY <1>1, NowParts DEF Consistent
    <2> QED BY <1>7, <2>1
  <1>10. \A x \in Client : Prepares(g, x) = Prepares(Now, x) BY <1>7 DEF Prepares
  <1>11. \A x \in Client \ left' : Token(g, up'[x], x \in Punchers', x)
    <2> SUFFICES ASSUME NEW x \in Client \ left' PROVE Token(g, up'[x], x \in Punchers', x) OBVIOUS
    <2>1. Token(Now, up[x], x \in Punchers, x) BY <1>1 DEF Consistent
    <2> DEFINE p == sp[x].mode # "IDLE"
               q == sp'[x].mode # "IDLE"
    <2>2. (x \in Punchers) = p /\ (x \in Punchers') = q BY DEF Punchers, Punching
    <2>3. p \in BOOLEAN /\ q \in BOOLEAN OBVIOUS
    <2>4. x # c => p = q OBVIOUS
    <2>5. x = c => Passed(up[x], up'[x], down[x], down'[x], p, q) OBVIOUS
    <2> HIDE DEF p, q
    <2>6. Token(Now, up[x], p, x) BY <2>1, <2>2
    <2>7. Passed(up[x], up'[x], down[x], down'[x], p, q)
      <3>1. x # c => up'[x] = up[x] /\ down'[x] = down[x] OBVIOUS
      <3>2. Now.down[x] = down[x] BY NowParts
      <3>3. /\ Once(up[x], "CLIENT_READY") /\ Once(down[x], "CONNECT_AT_TIME")
            /\ ~(Holds(up[x], "CLIENT_READY") /\ Holds(down[x], "CONNECT_AT_TIME"))
            /\ ~(Holds(up[x], "CLIENT_READY") /\ p) /\ ~(Holds(down[x], "CONNECT_AT_TIME") /\ p)
        BY <2>6, <3>2, PassedOf
      <3> QED BY <2>4, <2>5, <3>1, <3>3 DEF Passed
    <2>8. Passed(up[x], up'[x], Now.down[x], g.down[x], p, q) BY <1>7, <2>7, NowParts
    <2>9. Token(g, up'[x], q, x) BY <1>7, <1>10, <2>3, <2>6, <2>8, TokenPassed
    <2> QED BY <2>2, <2>9
  <1>12. \A x \in Client : g.users[x] = NoUser => x \in left' BY <1>1, <1>7 DEF Consistent
  <1>13. IdleOnlyOf(g, {}) BY <1>1, <1>7 DEF IdleOnlyOf
  <1>14. Consistent(g, sessionId, up', Punchers', left')
    BY <1>6, <1>8, <1>9, <1>11, <1>12 DEF Consistent
  <1>15. Consistent(Now', sessionId', up', Punchers', left') /\ IdleOnlyOf(Now', {})
    BY <1>3, <1>13, <1>14
  <1> QED BY <1>2, <1>15 DEF NatInv

(* Messages on the way up of client c.                                     *)
LEMMA SendUpEffect ==
  ASSUME NatInv, NEW c \in Client, NEW msgs \in Seq(Message), Names(msgs, "REQUEST", c),
         SendUp(c, msgs)
  PROVE  /\ up' \in [Client -> Seq(Message)] /\ \A x \in Client \ {c} : up'[x] = up[x]
         /\ Names(up'[c], "REQUEST", c)
         /\ ~Holds(msgs, "CLIENT_READY") =>
              Holds(up'[c], "CLIENT_READY") = Holds(up[c], "CLIENT_READY")
         /\ ~Holds(msgs, "CLIENT_READY") /\ Once(up[c], "CLIENT_READY")
              => Once(up'[c], "CLIENT_READY")
         /\ ~Holds(up[c], "CLIENT_READY") /\ Once(msgs, "CLIENT_READY")
              => Once(up'[c], "CLIENT_READY")
  <1> DEFINE r == IF c \in linked /\ IsUser(c) THEN msgs ELSE <<>>
             v == up[c] \o r
  <1>1. up \in [Client -> Seq(Message)] /\ up[c] \in Seq(Message) /\ Names(up[c], "REQUEST", c)
    BY DEF NatInv, ClientsTyped, Addressed
  <1>2. up' = [up EXCEPT ![c] = v] BY DEF SendUp
  <1>3. /\ r \in Seq(Message) /\ Names(r, "REQUEST", c)
        /\ Holds(r, "CLIENT_READY") => Holds(msgs, "CLIENT_READY")
        /\ Once(msgs, "CLIENT_READY") => Once(r, "CLIENT_READY")
    BY DEF Names, Holds, Once
  <1> HIDE DEF r
  <1>4. /\ v \in Seq(Message) /\ Names(v, "REQUEST", c)
        /\ ~Holds(r, "CLIENT_READY") => Holds(v, "CLIENT_READY") = Holds(up[c], "CLIENT_READY")
        /\ ~Holds(r, "CLIENT_READY") /\ Once(up[c], "CLIENT_READY") => Once(v, "CLIENT_READY")
        /\ ~Holds(up[c], "CLIENT_READY") /\ Once(r, "CLIENT_READY") => Once(v, "CLIENT_READY")
    BY <1>1, <1>3, MessageConcat
  <1> HIDE DEF v
  <1>5. up' \in [Client -> Seq(Message)] /\ up'[c] = v /\ \A x \in Client \ {c} : up'[x] = up[x]
    BY <1>1, <1>2, <1>4
  <1> QED BY <1>3, <1>4, <1>5

(* The messages a client sends together.                                   *)
LEMMA Batches ==
  ASSUME NEW c \in Client, NEW d \in Client \ {c}, NEW i \in Nat
  PROVE  /\ \A s \in {<<Request(d)>>, <<Msg("PORT", i, "NONE", FALSE)>>, <<>>} :
              s \in Seq(Message) /\ Names(s, "REQUEST", c) /\ ~Holds(s, "CLIENT_READY")
         /\ \A s \in {<<Ready>>, <<Ready, Request(d)>>} :
              s \in Seq(Message) /\ Names(s, "REQUEST", c) /\ Once(s, "CLIENT_READY")
  <1> DEFINE m == Msg("PORT", i, "NONE", FALSE)
             r == Request(d)
  <1>1. /\ Ready \in Message /\ Ready.type = "CLIENT_READY"
        /\ r \in Message /\ r.type = "REQUEST" /\ r.other = d
        /\ m \in Message /\ m.type = "PORT"
    BY DEF Ready, Request, Msg, Message
  <1> HIDE DEF m, r
  <1>2. <<r>> \in Seq(Message) /\ Names(<<r>>, "REQUEST", c) /\ ~Holds(<<r>>, "CLIENT_READY")
    BY <1>1 DEF Names, Holds
  <1>3. <<m>> \in Seq(Message) /\ Names(<<m>>, "REQUEST", c) /\ ~Holds(<<m>>, "CLIENT_READY")
    BY <1>1 DEF Names, Holds
  <1>4. <<>> \in Seq(Message) /\ Names(<<>>, "REQUEST", c) /\ ~Holds(<<>>, "CLIENT_READY")
    BY DEF Names, Holds
  <1>5. <<Ready>> \in Seq(Message) /\ Names(<<Ready>>, "REQUEST", c) /\ Once(<<Ready>>, "CLIENT_READY")
    BY <1>1 DEF Names, Once
  <1>6. /\ <<Ready, r>> \in Seq(Message) /\ Names(<<Ready, r>>, "REQUEST", c)
        /\ Once(<<Ready, r>>, "CLIENT_READY")
    BY <1>1 DEF Names, Once
  <1> QED BY <1>2, <1>3, <1>4, <1>5, <1>6 DEF m, r

(* The requests that wait for the port stride.                             *)
LEMMA QueuedBatch ==
  ASSUME NatInv, NEW c \in Client
  PROVE  /\ QueuedRequests(c) \in Seq(Message) /\ Names(QueuedRequests(c), "REQUEST", c)
         /\ ~Holds(QueuedRequests(c), "CLIENT_READY")
         /\ Append(QueuedRequests(c), Ready) \in Seq(Message)
         /\ Names(Append(QueuedRequests(c), Ready), "REQUEST", c)
         /\ Once(Append(QueuedRequests(c), Ready), "CLIENT_READY")
  <1> DEFINE s == queued[c]
             q == QueuedRequests(c)
  <1>1. s \in Seq(Client) /\ \A i \in DOMAIN s : s[i] # c BY DEF NatInv, ClientsTyped, Addressed
  <1>2. q = [i \in DOMAIN s |-> Request(s[i])] BY DEF QueuedRequests
  <1> HIDE DEF s, q
  <1>3. \A i \in DOMAIN s : s[i] \in Client \ {c} BY <1>1
  <1>4. \A i \in DOMAIN s : Request(s[i]) \in Message /\ Request(s[i]).type = "REQUEST"
                            /\ Request(s[i]).other = s[i]
    BY <1>3, Messages
  <1>5. DOMAIN s = 1 .. Len(s) /\ Len(s) \in Nat BY <1>1
  <1>6. q \in Seq(Message)
    <2>1. q \in [1 .. Len(s) -> Message] BY <1>2, <1>4, <1>5
    <2> QED BY <1>5, <2>1
  <1>7. DOMAIN q = DOMAIN s /\ \A i \in DOMAIN q : q[i].type = "REQUEST" /\ q[i].other \in Client \ {c}
    BY <1>2, <1>3, <1>4
  <1>8. Names(q, "REQUEST", c) /\ ~Holds(q, "CLIENT_READY") BY <1>7 DEF Names, Holds
  <1>9. Ready \in Message /\ Ready.type = "CLIENT_READY" BY DEF Ready, Msg, Message
  <1>10. /\ Append(q, Ready) \in Seq(Message) /\ Names(Append(q, Ready), "REQUEST", c)
         /\ Once(Append(q, Ready), "CLIENT_READY")
    BY <1>6, <1>8, <1>9, MessageAppend
  <1> QED BY <1>6, <1>8, <1>10 DEF q

(* What the invariant says of one client.                                  *)
LEMMA ClientFacts ==
  ASSUME NatInv, NEW c \in Client
  PROVE  /\ up \in [Client -> Seq(Message)] /\ up[c] \in Seq(Message)
         /\ down \in [Client -> Seq(Message)] /\ down[c] \in Seq(Message)
         /\ Names(up[c], "REQUEST", c) /\ Names(down[c], "CONNECT_AT_TIME", c)
         /\ \A i \in DOMAIN queued[c] : queued[c][i] # c
         /\ sp \in [Client -> SendPing] /\ sp[c] \in SendPing
         /\ sp[c].mode # "IDLE" => sp[c].target \in Client \ {c}
         /\ c \notin linked => c \in left
         /\ c \notin left =>
              /\ Once(up[c], "CLIENT_READY") /\ Once(down[c], "CONNECT_AT_TIME")
              /\ ~(Holds(up[c], "CLIENT_READY") /\ Holds(down[c], "CONNECT_AT_TIME"))
              /\ ~(Holds(up[c], "CLIENT_READY") /\ sp[c].mode # "IDLE")
              /\ ~(Holds(down[c], "CONNECT_AT_TIME") /\ sp[c].mode # "IDLE")
  <1>1. /\ ClientsTyped /\ Addressed /\ Consistent(Now, sessionId, up, Punchers, left)
    BY DEF NatInv
  <1>2. /\ up \in [Client -> Seq(Message)] /\ up[c] \in Seq(Message)
        /\ sp \in [Client -> SendPing] /\ sp[c] \in SendPing
    BY <1>1 DEF ClientsTyped
  <1>3. Now \in FacilitatorState BY <1>1 DEF Consistent
  <1>4. down \in [Client -> Seq(Message)] /\ down[c] \in Seq(Message) BY <1>3, Parts, NowParts
  <1>5. Names(down[c], "CONNECT_AT_TIME", c) BY <1>1, NowParts DEF Consistent
  <1>6. ASSUME c \notin left
        PROVE  /\ Once(up[c], "CLIENT_READY") /\ Once(down[c], "CONNECT_AT_TIME")
               /\ ~(Holds(up[c], "CLIENT_READY") /\ Holds(down[c], "CONNECT_AT_TIME"))
               /\ ~(Holds(up[c], "CLIENT_READY") /\ sp[c].mode # "IDLE")
               /\ ~(Holds(down[c], "CONNECT_AT_TIME") /\ sp[c].mode # "IDLE")
    <2> DEFINE p == sp[c].mode # "IDLE"
    <2>1. Token(Now, up[c], c \in Punchers, c) BY <1>1, <1>6 DEF Consistent
    <2>2. (c \in Punchers) = p BY DEF Punchers, Punching
    <2> HIDE DEF p
    <2>3. Token(Now, up[c], p, c) BY <2>1, <2>2
    <2>4. /\ Once(up[c], "CLIENT_READY") /\ Once(down[c], "CONNECT_AT_TIME")
          /\ ~(Holds(up[c], "CLIENT_READY") /\ Holds(down[c], "CONNECT_AT_TIME"))
          /\ ~(Holds(up[c], "CLIENT_READY") /\ p) /\ ~(Holds(down[c], "CONNECT_AT_TIME") /\ p)
      BY <2>3, PassedOf, NowParts
    <2> QED BY <2>4 DEF p
  <1> QED BY <1>1, <1>2, <1>4, <1>5, <1>6 DEF Addressed, Punching

(* OpenNAT keeps the invariant.                                            *)
LEMMA OpenNATStep ==
  ASSUME NatInv, NEW c \in Client, NEW d \in Client, OpenNAT(c, d) PROVE NatInv'
  <1>1. ClientsTyped BY DEF NatInv
  <1>2. d # c
    <2>1. <<c, d>> \in Asks BY DEF OpenNAT
    <2>2. <<c, d>>[1] # <<c, d>>[2] BY <2>1, NatAssumption
    <2> QED BY <2>2
  <1>3. /\ users' = users /\ attempts' = attempts /\ sessionId' = sessionId /\ linked' = linked
        /\ down' = down /\ sp' = sp /\ failed' = failed /\ left' = left
        /\ budget > 0 /\ budget' = budget - 1 /\ asked' = [asked EXCEPT ![c] = @ \cup {d}]
    BY DEF OpenNAT, serverVars
  <1>4. asked' \in [Client -> SUBSET Client] BY <1>1, <1>3 DEF ClientsTyped
  <1>5. budget' \in 0 .. AskBudget
    <2>1. budget \in 0 .. AskBudget BY <1>1 DEF ClientsTyped
    <2> QED BY <1>3, <2>1, NatAssumption
  <1>6. CASE stride[c] = "KNOWN"
    <2>1. SendUp(c, <<Request(d)>>) /\ stride' = stride /\ queued' = queued BY <1>6 DEF OpenNAT
    <2>2. <<Request(d)>> \in Seq(Message) /\ Names(<<Request(d)>>, "REQUEST", c)
          /\ ~Holds(<<Request(d)>>, "CLIENT_READY")
      BY <1>2, Batches
    <2>3. /\ up' \in [Client -> Seq(Message)] /\ \A x \in Client \ {c} : up'[x] = up[x]
          /\ Names(up'[c], "REQUEST", c)
          /\ Holds(up'[c], "CLIENT_READY") = Holds(up[c], "CLIENT_READY")
          /\ Once(up[c], "CLIENT_READY") => Once(up'[c], "CLIENT_READY")
      BY <2>1, <2>2, SendUpEffect
    <2>4. ClientsTyped' BY <1>1, <1>3, <1>4, <1>5, <2>1, <2>3 DEF ClientsTyped
    <2>5. c \notin left' => Passed(up[c], up'[c], down[c], down'[c],
                                   sp[c].mode # "IDLE", sp'[c].mode # "IDLE")
      BY <1>3, <2>3, ClientFacts DEF Passed
    <2>6. /\ down' \in [Client -> Seq(Message)] /\ Names(down'[c], "CONNECT_AT_TIME", c)
          /\ \A i \in DOMAIN queued'[c] : queued'[c][i] # c
          /\ sp'[c].mode # "IDLE" => sp'[c].target \in Client \ {c}
          /\ c \notin linked' => c \in left'
      BY <1>3, <2>1, ClientFacts
    <2>7. /\ left \subseteq left'
          /\ \A x \in Client \ {c} :
               /\ up'[x] = up[x] /\ down'[x] = down[x] /\ sp'[x] = sp[x]
               /\ queued'[x] = queued[x]
               /\ x \in linked => x \in linked'
      BY <1>3, <2>1, <2>3
    <2>8. users' = users /\ attempts' = attempts /\ sessionId' = sessionId BY <1>3
    <2>9. Names(up'[c], "REQUEST", c) BY <2>3
    <2> QED BY ZenonT(40), <2>4, <2>5, <2>6, <2>7, <2>8, <2>9, ClientMoves
  <1>7. CASE stride[c] # "KNOWN"
    <2>1. /\ stride' = [stride EXCEPT ![c] = "CALCULATING"] /\ up' = up
          /\ queued' = [queued EXCEPT ![c] = Append(@, d)]
      BY <1>7 DEF OpenNAT
    <2>2. queued \in [Client -> Seq(Client)] /\ queued[c] \in Seq(Client) BY <1>1 DEF ClientsTyped
    <2> DEFINE s == Append(queued[c], d)
    <2>3. s \in Seq(Client) /\ \A i \in DOMAIN s : s[i] # c
      <3>1. \A i \in DOMAIN queued[c] : queued[c][i] # c BY ClientFacts
      <3>2. \A i \in DOMAIN s : s[i] = d \/ (i \in DOMAIN queued[c] /\ s[i] = queued[c][i])
        BY <2>2
      <3>3. s \in Seq(Client) BY <2>2
      <3> QED BY <1>2, <3>1, <3>2, <3>3
    <2> HIDE DEF s
    <2>4. queued' = [queued EXCEPT ![c] = s] BY <2>1 DEF s
    <2>5. queued' \in [Client -> Seq(Client)] /\ queued'[c] = s
          /\ \A x \in Client \ {c} : queued'[x] = queued[x]
      BY <2>2, <2>3, <2>4
    <2>6. stride' \in [Client -> {"UNKNOWN", "CALCULATING", "KNOWN"}] BY <1>1, <2>1 DEF ClientsTyped
    <2>7. ClientsTyped' BY <1>1, <1>3, <1>4, <1>5, <2>1, <2>5, <2>6 DEF ClientsTyped
    <2>8. c \notin left' => Passed(up[c], up'[c], down[c], down'[c],
                                   sp[c].mode # "IDLE", sp'[c].mode # "IDLE")
      BY <1>3, <2>1, ClientFacts DEF Passed
    <2>9. \A i \in DOMAIN queued'[c] : queued'[c][i] # c BY <2>3, <2>5
    <2> QED BY ZenonT(40), <1>3, <2>1, <2>5, <2>7, <2>8, <2>9, ClientFacts, ClientMoves
  <1> QED BY <1>6, <1>7

(* The end of the port stride's search keeps the invariant.                *)
LEMMA PortStrideStep ==
  ASSUME NatInv, NEW c \in Client, PortStrideEnds(c) PROVE NatInv'
  <1>1. ClientsTyped BY DEF NatInv
  <1>2. /\ users' = users /\ attempts' = attempts /\ sessionId' = sessionId /\ linked' = linked
        /\ down' = down /\ sp' = sp /\ failed' = failed /\ left' = left /\ asked' = asked
        /\ budget' = budget /\ queued' = [queued EXCEPT ![c] = <<>>] /\ SendUp(c, QueuedRequests(c))
    BY DEF PortStrideEnds, serverVars
  <1>3. stride' \in [Client -> {"UNKNOWN", "CALCULATING", "KNOWN"}]
    BY <1>1 DEF ClientsTyped, PortStrideEnds
  <1>4. /\ queued' \in [Client -> Seq(Client)] /\ queued'[c] = <<>>
        /\ \A x \in Client \ {c} : queued'[x] = queued[x]
    BY <1>1, <1>2 DEF ClientsTyped
  <1>5. /\ up' \in [Client -> Seq(Message)] /\ \A x \in Client \ {c} : up'[x] = up[x]
        /\ Names(up'[c], "REQUEST", c)
        /\ Holds(up'[c], "CLIENT_READY") = Holds(up[c], "CLIENT_READY")
        /\ Once(up[c], "CLIENT_READY") => Once(up'[c], "CLIENT_READY")
    BY <1>2, QueuedBatch, SendUpEffect
  <1>6. ClientsTyped' BY <1>1, <1>2, <1>3, <1>4, <1>5 DEF ClientsTyped
  <1>7. c \notin left' => Passed(up[c], up'[c], down[c], down'[c],
                                 sp[c].mode # "IDLE", sp'[c].mode # "IDLE")
    BY <1>2, <1>5, ClientFacts DEF Passed
  <1>8. \A i \in DOMAIN queued'[c] : queued'[c][i] # c BY <1>4
  <1> QED BY ZenonT(40), <1>2, <1>4, <1>5, <1>6, <1>7, <1>8, ClientFacts, ClientMoves

(* A message is taken off the way down.                                    *)
LEMMA Heard ==
  ASSUME NatInv, NEW c \in Client, NEW T, Hears(c, T)
  PROVE  /\ users' = users /\ attempts' = attempts /\ sessionId' = sessionId /\ linked' = linked
         /\ stride' = stride /\ queued' = queued /\ left' = left /\ budget' = budget
         /\ down' \in [Client -> Seq(Message)] /\ \A x \in Client \ {c} : down'[x] = down[x]
         /\ Names(down'[c], "CONNECT_AT_TIME", c)
         /\ Head(down[c]) \in Message /\ Head(down[c]).type \in T
         /\ Once(down[c], "CONNECT_AT_TIME") => Once(down'[c], "CONNECT_AT_TIME")
         /\ Holds(down'[c], "CONNECT_AT_TIME") => Holds(down[c], "CONNECT_AT_TIME")
         /\ Head(down[c]).type = "CONNECT_AT_TIME" =>
              /\ Holds(down[c], "CONNECT_AT_TIME")
              /\ Once(down[c], "CONNECT_AT_TIME") => ~Holds(down'[c], "CONNECT_AT_TIME")
              /\ Head(down[c]).other \in Client \ {c}
  <1>1. /\ users' = users /\ attempts' = attempts /\ sessionId' = sessionId /\ linked' = linked
        /\ stride' = stride /\ queued' = queued /\ left' = left /\ budget' = budget
        /\ down[c] # <<>> /\ Head(down[c]).type \in T /\ down' = [down EXCEPT ![c] = Tail(@)]
    BY DEF Hears, serverVars
  <1>2. /\ down \in [Client -> Seq(Message)] /\ down[c] \in Seq(Message)
        /\ Names(down[c], "CONNECT_AT_TIME", c)
    BY ClientFacts
  <1> DEFINE t == Tail(down[c])
  <1>3. /\ t \in Seq(Message) /\ Head(down[c]) \in Message
        /\ Holds(t, "CONNECT_AT_TIME") => Holds(down[c], "CONNECT_AT_TIME")
        /\ Head(down[c]).type = "CONNECT_AT_TIME" => Holds(down[c], "CONNECT_AT_TIME")
        /\ Once(down[c], "CONNECT_AT_TIME") => Once(t, "CONNECT_AT_TIME")
        /\ Head(down[c]).type = "CONNECT_AT_TIME" /\ Once(down[c], "CONNECT_AT_TIME")
             => ~Holds(t, "CONNECT_AT_TIME")
        /\ Names(t, "CONNECT_AT_TIME", c)
        /\ Head(down[c]).type = "CONNECT_AT_TIME" => Head(down[c]).other \in Client \ {c}
    BY <1>1, <1>2, MessageTail
  <1> HIDE DEF t
  <1>4. down' = [down EXCEPT ![c] = t] BY <1>1 DEF t
  <1>5. /\ down' \in [Client -> Seq(Message)] /\ down'[c] = t
        /\ \A x \in Client \ {c} : down'[x] = down[x]
    BY <1>2, <1>3, <1>4
  <1> QED BY <1>1, <1>3, <1>5

(* OnGetMostRecentPort of a client keeps the invariant.                    *)
LEMMA GetPortStep ==
  ASSUME NatInv, NEW c \in Client, OnGetMostRecentPort(c) PROVE NatInv'
  <1> DEFINE m == Msg("PORT", Head(down[c]).id, "NONE", FALSE)
  <1>1. /\ Hears(c, {"GET_PORT"}) /\ SendUp(c, <<m>>) /\ sp' = sp /\ failed' = failed /\ asked' = asked
    BY DEF OnGetMostRecentPort
  <1>2. ClientsTyped BY DEF NatInv
  <1>3. Head(down[c]) \in Message BY <1>1, Heard
  <1>4. <<m>> \in Seq(Message) /\ Names(<<m>>, "REQUEST", c) /\ ~Holds(<<m>>, "CLIENT_READY")
    <2>1. m \in Message /\ m.type = "PORT" BY <1>3 DEF Msg, Message
    <2> HIDE DEF m
    <2> QED BY <2>1 DEF Names, Holds
  <1> HIDE DEF m
  <1>5. /\ up' \in [Client -> Seq(Message)] /\ \A x \in Client \ {c} : up'[x] = up[x]
        /\ Names(up'[c], "REQUEST", c)
        /\ Holds(up'[c], "CLIENT_READY") = Holds(up[c], "CLIENT_READY")
        /\ Once(up[c], "CLIENT_READY") => Once(up'[c], "CLIENT_READY")
    BY <1>1, <1>4, SendUpEffect
  <1>6. /\ users' = users /\ attempts' = attempts /\ sessionId' = sessionId /\ linked' = linked
        /\ stride' = stride /\ queued' = queued /\ left' = left /\ budget' = budget
        /\ down' \in [Client -> Seq(Message)] /\ \A x \in Client \ {c} : down'[x] = down[x]
        /\ Names(down'[c], "CONNECT_AT_TIME", c)
        /\ Once(down[c], "CONNECT_AT_TIME") => Once(down'[c], "CONNECT_AT_TIME")
        /\ Holds(down'[c], "CONNECT_AT_TIME") => Holds(down[c], "CONNECT_AT_TIME")
    BY <1>1, Heard
  <1>7. ClientsTyped' BY <1>1, <1>2, <1>5, <1>6 DEF ClientsTyped
  <1>8. c \notin left' => Passed(up[c], up'[c], down[c], down'[c],
                                 sp[c].mode # "IDLE", sp'[c].mode # "IDLE")
    BY <1>1, <1>5, <1>6, ClientFacts DEF Passed
  <1> QED BY ZenonT(40), <1>1, <1>5, <1>6, <1>7, <1>8, ClientFacts, ClientMoves

(* OnConnectAtTime keeps the invariant.                                    *)
LEMMA ConnectStep ==
  ASSUME NatInv, NEW c \in Client, OnConnectAtTime(c) PROVE NatInv'
  <1> DEFINE m == Head(down[c])
             s == [mode |-> "TESTING", target |-> m.other, session |-> m.id, sender |-> m.sender]
  <1>1. /\ Hears(c, {"CONNECT_AT_TIME"}) /\ sp' = [sp EXCEPT ![c] = s]
        /\ up' = up /\ failed' = failed /\ asked' = asked
    BY DEF OnConnectAtTime
  <1>2. ClientsTyped BY DEF NatInv
  <1>3. /\ users' = users /\ attempts' = attempts /\ sessionId' = sessionId /\ linked' = linked
        /\ stride' = stride /\ queued' = queued /\ left' = left /\ budget' = budget
        /\ down' \in [Client -> Seq(Message)] /\ \A x \in Client \ {c} : down'[x] = down[x]
        /\ Names(down'[c], "CONNECT_AT_TIME", c)
        /\ m \in Message /\ m.type = "CONNECT_AT_TIME" /\ m.other \in Client \ {c}
        /\ Holds(down[c], "CONNECT_AT_TIME")
        /\ Once(down[c], "CONNECT_AT_TIME") =>
             Once(down'[c], "CONNECT_AT_TIME") /\ ~Holds(down'[c], "CONNECT_AT_TIME")
    BY <1>1, Heard
  <1>4. s \in SendPing /\ s.target = m.other /\ s.mode = "TESTING" BY <1>3 DEF SendPing, Message
  <1> HIDE DEF s, m
  <1>5. sp' \in [Client -> SendPing] /\ sp'[c] = s /\ \A x \in Client \ {c} : sp'[x] = sp[x]
    BY <1>1, <1>4, ClientFacts
  <1>6. ClientsTyped' BY <1>1, <1>2, <1>3, <1>5 DEF ClientsTyped
  <1>7. c \notin left' => Passed(up[c], up'[c], down[c], down'[c],
                                 sp[c].mode # "IDLE", sp'[c].mode # "IDLE")
    BY <1>1, <1>3, <1>4, <1>5, ClientFacts DEF Passed
  <1>8. sp'[c].mode # "IDLE" => sp'[c].target \in Client \ {c} BY <1>3, <1>4, <1>5
  <1> QED BY ZenonT(40), <1>1, <1>3, <1>5, <1>6, <1>7, <1>8, ClientFacts, ClientMoves

(* What an application is told stays within the clients.                   *)
LEMMA ReportedType ==
  ASSUME ClientsTyped, NEW c \in Client, NEW S, Reported(c, S)
  PROVE  asked' \in [Client -> SUBSET Client]
  BY DEF ClientsTyped, Reported

(* OnAlreadyInProgress keeps the invariant.                                *)
LEMMA InProgressStep ==
  ASSUME NatInv, NEW c \in Client, OnAlreadyInProgress(c) PROVE NatInv'
  <1>1. /\ Hears(c, {"ALREADY_IN_PROGRESS"}) /\ Reported(c, {Head(down[c]).other})
        /\ sp' = sp /\ up' = up /\ failed' = failed
    BY DEF OnAlreadyInProgress
  <1>2. ClientsTyped BY DEF NatInv
  <1>3. /\ users' = users /\ attempts' = attempts /\ sessionId' = sessionId /\ linked' = linked
        /\ stride' = stride /\ queued' = queued /\ left' = left /\ budget' = budget
        /\ down' \in [Client -> Seq(Message)] /\ \A x \in Client \ {c} : down'[x] = down[x]
        /\ Names(down'[c], "CONNECT_AT_TIME", c)
        /\ Once(down[c], "CONNECT_AT_TIME") => Once(down'[c], "CONNECT_AT_TIME")
        /\ Holds(down'[c], "CONNECT_AT_TIME") => Holds(down[c], "CONNECT_AT_TIME")
    BY <1>1, Heard
  <1>4. ClientsTyped' BY <1>1, <1>2, <1>3, ReportedType DEF ClientsTyped
  <1>5. c \notin left' => Passed(up[c], up'[c], down[c], down'[c],
                                 sp[c].mode # "IDLE", sp'[c].mode # "IDLE")
    BY <1>1, <1>3, ClientFacts DEF Passed
  <1> QED BY ZenonT(40), <1>1, <1>3, <1>4, <1>5, ClientFacts, ClientMoves

(* The punch of a client changes its mode.                                 *)
LEMMA ModeChanged ==
  ASSUME NatInv, NEW c \in Client,
         NEW o \in {"IDLE", "TESTING", "PUNCHING_FIXED_PORT", "WAITING_AFTER_ALL_ATTEMPTS"},
         sp' = [sp EXCEPT ![c].mode = o]
  PROVE  /\ sp' \in [Client -> SendPing] /\ \A x \in Client \ {c} : sp'[x] = sp[x]
         /\ sp'[c].mode = o /\ sp'[c].target = sp[c].target
  <1> DEFINE s == [sp[c] EXCEPT !.mode = o]
  <1>1. sp \in [Client -> SendPing] /\ sp[c] \in SendPing BY ClientFacts
  <1>2. s \in SendPing /\ s.mode = o /\ s.target = sp[c].target BY <1>1 DEF SendPing
  <1>3. sp' = [sp EXCEPT ![c] = s] BY <1>1
  <1> HIDE DEF s
  <1> QED BY <1>1, <1>2, <1>3

(* OnTargetGone keeps the invariant.                                       *)
LEMMA TargetGoneStep ==
  ASSUME NatInv, NEW c \in Client, OnTargetGone(c) PROVE NatInv'
  <1> DEFINE T == {"TARGET_NOT_CONNECTED", "TO_TARGET_LOST", "TARGET_UNRESPONSIVE"}
             m == Head(down[c])
             stop == m.type = "TARGET_NOT_CONNECTED" \/ SameSession(m.id, sp[c].session)
  <1>1. /\ Hears(c, T) /\ Reported(c, {m.other}) /\ up' = up
        /\ failed' = IF stop THEN [failed EXCEPT ![c] = @ \ {m.other}] ELSE failed
        /\ sp' = IF stop THEN [sp EXCEPT ![c].mode = "IDLE"] ELSE sp
    BY DEF OnTargetGone
  <1>2. ClientsTyped BY DEF NatInv
  <1> HIDE DEF stop, m, T
  <1>3. /\ users' = users /\ attempts' = attempts /\ sessionId' = sessionId /\ linked' = linked
        /\ stride' = stride /\ queued' = queued /\ left' = left /\ budget' = budget
        /\ down' \in [Client -> Seq(Message)] /\ \A x \in Client \ {c} : down'[x] = down[x]
        /\ Names(down'[c], "CONNECT_AT_TIME", c)
        /\ Once(down[c], "CONNECT_AT_TIME") => Once(down'[c], "CONNECT_AT_TIME")
        /\ Holds(down'[c], "CONNECT_AT_TIME") => Holds(down[c], "CONNECT_AT_TIME")
    BY <1>1, Heard
  <1>4. /\ sp' \in [Client -> SendPing] /\ \A x \in Client \ {c} : sp'[x] = sp[x]
        /\ sp'[c].mode # "IDLE" => sp[c].mode # "IDLE" /\ sp'[c].target = sp[c].target
    <2>1. CASE stop BY <1>1, <2>1, ModeChanged
    <2>2. CASE ~stop BY <1>1, <2>2, ClientFacts
    <2> QED BY <2>1, <2>2
  <1>5. failed' \in [Client -> SUBSET Client] BY <1>1, <1>2 DEF ClientsTyped
  <1>6. asked' \in [Client -> SUBSET Client] BY <1>1, <1>2, ReportedType
  <1>7. ClientsTyped' BY <1>1, <1>2, <1>3, <1>4, <1>5, <1>6 DEF ClientsTyped
  <1>8. c \notin left' => Passed(up[c], up'[c], down[c], down'[c],
                                 sp[c].mode # "IDLE", sp'[c].mode # "IDLE")
    BY <1>1, <1>3, <1>4, ClientFacts DEF Passed
  <1>9. sp'[c].mode # "IDLE" => sp'[c].target \in Client \ {c} BY <1>4, ClientFacts
  <1> QED BY ZenonT(40), <1>1, <1>3, <1>4, <1>7, <1>8, <1>9, ClientFacts, ClientMoves

(* The punch goes on.                                                      *)
LEMMA PunchGoesOn ==
  ASSUME NatInv, NEW c \in Client, sp[c].mode # "IDLE", UNCHANGED serverVars,
         NEW o \in {"TESTING", "PUNCHING_FIXED_PORT", "WAITING_AFTER_ALL_ATTEMPTS"},
         sp' = [sp EXCEPT ![c].mode = o],
         UNCHANGED <<linked, up, down, failed, stride, queued, asked, left, budget>>
  PROVE  NatInv'
  <1>1. ClientsTyped BY DEF NatInv
  <1>2. /\ users' = users /\ attempts' = attempts /\ sessionId' = sessionId /\ linked' = linked
        /\ stride' = stride /\ queued' = queued /\ left' = left /\ budget' = budget
        /\ up' = up /\ down' = down /\ failed' = failed /\ asked' = asked
    BY DEF serverVars
  <1>3. /\ sp' \in [Client -> SendPing] /\ \A x \in Client \ {c} : sp'[x] = sp[x]
        /\ sp'[c].mode = o /\ sp'[c].target = sp[c].target
    BY ModeChanged
  <1>4. ClientsTyped' BY <1>1, <1>2, <1>3 DEF ClientsTyped
  <1>5. c \notin left' => Passed(up[c], up'[c], down[c], down'[c],
                                 sp[c].mode # "IDLE", sp'[c].mode # "IDLE")
    BY <1>2, <1>3, ClientFacts DEF Passed
  <1>6. sp'[c].mode # "IDLE" => sp'[c].target \in Client \ {c} BY <1>3, ClientFacts
  <1>7. /\ down' \in [Client -> Seq(Message)] /\ Names(down'[c], "CONNECT_AT_TIME", c)
        /\ Names(up'[c], "REQUEST", c) /\ \A i \in DOMAIN queued'[c] : queued'[c][i] # c
        /\ (c \notin linked' => c \in left') /\ left \subseteq left'
    BY <1>2, ClientFacts
  <1>8. \A x \in Client \ {c} :
          /\ up'[x] = up[x] /\ down'[x] = down[x] /\ sp'[x] = sp[x] /\ queued'[x] = queued[x]
          /\ x \in linked => x \in linked'
    BY <1>2, <1>3
  <1> QED BY <1>2, <1>4, <1>5, <1>6, <1>7, <1>8, ClientMoves

(* The last datagram of a punch keeps the invariant.                       *)
LEMMA AllSentStep ==
  ASSUME NatInv, NEW c \in Client, AllSent(c) PROVE NatInv'
  BY PunchGoesOn DEF AllSent

(* OnEstablishUnidirectional keeps the invariant.                          *)
LEMMA UnidirectionalStep ==
  ASSUME NatInv, NEW c \in Client, NEW d, OnEstablishUnidirectional(c, d) PROVE NatInv'
  BY PunchGoesOn DEF OnEstablishUnidirectional, Gets, Punching

(* The punch ends and the client says that it is ready, or does not.       *)
LEMMA PunchEnds ==
  ASSUME NatInv, NEW c \in Client, sp[c].mode # "IDLE", UNCHANGED serverVars,
         sp' = [sp EXCEPT ![c].mode = "IDLE"],
         NEW msgs \in Seq(Message), Names(msgs, "REQUEST", c), Once(msgs, "CLIENT_READY"),
         SendUp(c, msgs), UNCHANGED <<linked, down, left, budget>>,
         failed' \in [Client -> SUBSET Client], asked' \in [Client -> SUBSET Client],
         stride' \in [Client -> {"UNKNOWN", "CALCULATING", "KNOWN"}],
         queued' = queued \/ queued' = [queued EXCEPT ![c] = <<>>]
  PROVE  NatInv'
  <1>1. ClientsTyped BY DEF NatInv
  <1>2. /\ users' = users /\ attempts' = attempts /\ sessionId' = sessionId /\ linked' = linked
        /\ left' = left /\ budget' = budget /\ down' = down
    BY DEF serverVars
  <1>3. /\ sp' \in [Client -> SendPing] /\ \A x \in Client \ {c} : sp'[x] = sp[x]
        /\ sp'[c].mode = "IDLE"
    BY ModeChanged
  <1>4. /\ up' \in [Client -> Seq(Message)] /\ \A x \in Client \ {c} : up'[x] = up[x]
        /\ Names(up'[c], "REQUEST", c)
        /\ ~Holds(up[c], "CLIENT_READY") => Once(up'[c], "CLIENT_READY")
    BY SendUpEffect
  <1>5. /\ queued' \in [Client -> Seq(Client)] /\ \A i \in DOMAIN queued'[c] : queued'[c][i] # c
        /\ \A x \in Client \ {c} : queued'[x] = queued[x]
    <2>1. queued \in [Client -> Seq(Client)] BY <1>1 DEF ClientsTyped
    <2>2. CASE queued' = queued BY <2>1, <2>2, ClientFacts
    <2>3. CASE queued' = [queued EXCEPT ![c] = <<>>]
      <3>1. queued' \in [Client -> Seq(Client)] /\ queued'[c] = <<>> BY <2>1, <2>3
      <3>2. \A i \in DOMAIN queued'[c] : queued'[c][i] # c BY <3>1
      <3>3. \A x \in Client \ {c} : queued'[x] = queued[x] BY <2>1, <2>3
      <3> QED BY <3>1, <3>2, <3>3
    <2> QED BY <2>2, <2>3
  <1>6. ClientsTyped' BY <1>1, <1>2, <1>3, <1>4, <1>5 DEF ClientsTyped
  <1>7. c \notin left' => Passed(up[c], up'[c], down[c], down'[c],
                                 sp[c].mode # "IDLE", sp'[c].mode # "IDLE")
    BY <1>2, <1>3, <1>4, ClientFacts DEF Passed
  <1>8. /\ down' \in [Client -> Seq(Message)] /\ Names(down'[c], "CONNECT_AT_TIME", c)
        /\ (c \notin linked' => c \in left') /\ (sp'[c].mode # "IDLE" => sp'[c].target \in Client \ {c})
        /\ left \subseteq left'
    BY <1>2, <1>3, ClientFacts
  <1>9. \A x \in Client \ {c} :
          /\ up'[x] = up[x] /\ down'[x] = down[x] /\ sp'[x] = sp[x] /\ queued'[x] = queued[x]
          /\ x \in linked => x \in linked'
    BY <1>2, <1>3, <1>4, <1>5
  <1> QED BY <1>2, <1>4, <1>5, <1>6, <1>7, <1>8, <1>9, ClientMoves

(* OnPunchthroughFailure keeps the invariant.                              *)
LEMMA FailureStep ==
  ASSUME NatInv, NEW c \in Client, OnPunchthroughFailure(c) PROVE NatInv'
  <1> DEFINE d == sp[c].target
             final == c \notin Retrying \/ d \in failed[c]
             again == ~final /\ c \in linked
             msgs == AfterFailure(c, final, again)
  <1>1. /\ sp[c].mode = "WAITING_AFTER_ALL_ATTEMPTS" /\ SendUp(c, msgs)
        /\ sp' = IF final \/ again THEN [sp EXCEPT ![c].mode = "IDLE"] ELSE sp
        /\ Reported(c, IF again THEN {} ELSE {d})
        /\ failed' = [failed EXCEPT ![c] =
             CASE again -> @ \cup {d} [] final /\ c \in Retrying -> @ \ {d} [] OTHER -> @]
        /\ UNCHANGED <<linked, down, stride, queued, left, budget>> /\ UNCHANGED serverVars
    BY DEF OnPunchthroughFailure
  <1>2. ClientsTyped BY DEF NatInv
  <1>3. d \in Client \ {c} BY <1>1, ClientFacts
  <1>4. asked' \in [Client -> SUBSET Client] BY <1>1, <1>2, ReportedType
  <1>5. failed' \in [Client -> SUBSET Client]
    <2> DEFINE w == CASE again -> failed[c] \cup {d}
                      [] final /\ c \in Retrying -> failed[c] \ {d} [] OTHER -> failed[c]
    <2>1. failed \in [Client -> SUBSET Client] /\ failed[c] \in SUBSET Client BY <1>2 DEF ClientsTyped
    <2>2. again => w = failed[c] \cup {d} OBVIOUS
    <2>3. ~again /\ final /\ c \in Retrying => w = failed[c] \ {d} OBVIOUS
    <2>4. ~again /\ ~(final /\ c \in Retrying) => w = failed[c] OBVIOUS
    <2>5. failed' = [failed EXCEPT ![c] = w] BY <1>1
    <2> HIDE DEF w, again, final, d
    <2>6. w \in SUBSET Client BY <1>3, <2>1, <2>2, <2>3, <2>4
    <2> QED BY <2>1, <2>5, <2>6
  <1>6. CASE final \/ again
    <2>1. sp' = [sp EXCEPT ![c].mode = "IDLE"] BY <1>1, <1>6
    <2>2. msgs \in {<<Ready>>, <<Ready, Request(d)>>}
      <3>1. (again /\ sp[c].sender) => msgs = <<Ready, Request(d)>> BY DEF AfterFailure
      <3>2. ~(again /\ sp[c].sender) /\ (final \/ (again /\ ~sp[c].sender)) => msgs = <<Ready>>
        BY DEF AfterFailure
      <3> HIDE DEF msgs, final, again, d
      <3> QED BY <1>6, <3>1, <3>2
    <2> HIDE DEF msgs, d, final, again
    <2>3. msgs \in Seq(Message) /\ Names(msgs, "REQUEST", c) /\ Once(msgs, "CLIENT_READY")
      BY <1>3, <2>2, Batches
    <2>4. stride' \in [Client -> {"UNKNOWN", "CALCULATING", "KNOWN"}] /\ queued' = queued
      BY <1>1, <1>2 DEF ClientsTyped
    <2> QED BY <1>1, <1>4, <1>5, <2>1, <2>3, <2>4, PunchEnds
  <1>7. CASE ~(final \/ again)
    <2>1. sp' = sp BY <1>1, <1>7
    <2>2. msgs = <<>> BY <1>7 DEF AfterFailure
    <2> HIDE DEF d, msgs, final, again
    <2>3. /\ users' = users /\ attempts' = attempts /\ sessionId' = sessionId /\ linked' = linked
          /\ left' = left /\ budget' = budget /\ down' = down /\ stride' = stride /\ queued' = queued
      BY <1>1 DEF serverVars
    <2>4. /\ up' \in [Client -> Seq(Message)] /\ \A x \in Client \ {c} : up'[x] = up[x]
          /\ Names(up'[c], "REQUEST", c)
          /\ Holds(up'[c], "CLIENT_READY") = Holds(up[c], "CLIENT_READY")
          /\ Once(up[c], "CLIENT_READY") => Once(up'[c], "CLIENT_READY")
      <3>1. msgs \in Seq(Message) /\ Names(msgs, "REQUEST", c) /\ ~Holds(msgs, "CLIENT_READY")
        BY <2>2 DEF Names, Holds
      <3> QED BY <1>1, <3>1, SendUpEffect
    <2>5. ClientsTyped' BY <1>2, <1>4, <1>5, <2>1, <2>3, <2>4 DEF ClientsTyped
    <2>6. c \notin left' => Passed(up[c], up'[c], down[c], down'[c],
                                   sp[c].mode # "IDLE", sp'[c].mode # "IDLE")
      BY <2>1, <2>3, <2>4, ClientFacts DEF Passed
    <2> QED BY ZenonT(40), <2>1, <2>3, <2>4, <2>5, <2>6, ClientFacts, ClientMoves
  <1> QED BY <1>6, <1>7

(* OnEstablishBidirectional keeps the invariant.                           *)
LEMMA BidirectionalStep ==
  ASSUME NatInv, NEW c \in Client, NEW d \in Client, OnEstablishBidirectional(c, d) PROVE NatInv'
  <1>1. /\ sp[c].mode # "IDLE" /\ sp' = [sp EXCEPT ![c].mode = "IDLE"] /\ Reported(c, {d})
        /\ failed' = [failed EXCEPT ![c] = @ \ {d}]
        /\ UNCHANGED <<linked, down, left, budget>> /\ UNCHANGED serverVars
    BY DEF OnEstablishBidirectional, Gets, Punching
  <1>2. ClientsTyped BY DEF NatInv
  <1>3. asked' \in [Client -> SUBSET Client] BY <1>1, <1>2, ReportedType
  <1>4. failed' \in [Client -> SUBSET Client] BY <1>1, <1>2 DEF ClientsTyped
  <1>5. CASE SendUp(c, <<Ready>>) /\ UNCHANGED <<stride, queued>>
    <2>1. <<Ready>> \in Seq(Message) /\ Names(<<Ready>>, "REQUEST", c) /\ Once(<<Ready>>, "CLIENT_READY")
      <3>1. sp[c].target \in Client \ {c} BY <1>1, ClientFacts
      <3> QED BY <3>1, Batches
    <2>2. stride' \in [Client -> {"UNKNOWN", "CALCULATING", "KNOWN"}] /\ queued' = queued
      BY <1>2, <1>5 DEF ClientsTyped
    <2> QED BY <1>1, <1>3, <1>4, <1>5, <2>1, <2>2, PunchEnds
  <1>6. CASE /\ stride' = [stride EXCEPT ![c] = "KNOWN"]
             /\ queued' = [queued EXCEPT ![c] = <<>>]
             /\ SendUp(c, Append(QueuedRequests(c), Ready))
    <2>1. /\ Append(QueuedRequests(c), Ready) \in Seq(Message)
          /\ Names(Append(QueuedRequests(c), Ready), "REQUEST", c)
          /\ Once(Append(QueuedRequests(c), Ready), "CLIENT_READY")
      BY QueuedBatch
    <2>2. stride' \in [Client -> {"UNKNOWN", "CALCULATING", "KNOWN"}]
      BY <1>2, <1>6 DEF ClientsTyped
    <2> QED BY <1>1, <1>3, <1>4, <1>6, <2>1, <2>2, PunchEnds
  <1> QED BY <1>5, <1>6 DEF OnEstablishBidirectional

(* OnClosedConnection of a client keeps the invariant.                     *)
LEMMA ClientLosesStep ==
  ASSUME NatInv, NEW c \in Client, ClientLoses(c) PROVE NatInv'
  <1> DEFINE kept == IF Punching(c) THEN failed[c] \cap {sp[c].target} ELSE {}
  <1>1. /\ IsUser(c) => c \in Leavers \ left
        /\ left' = left \cup {c} /\ linked' = linked \ {c} /\ Reported(c, asked[c])
        /\ failed' = [failed EXCEPT ![c] = kept] /\ down' = [down EXCEPT ![c] = <<>>]
        /\ up' = up /\ sp' = sp /\ stride' = stride /\ queued' = queued /\ budget' = budget
        /\ users' = users /\ attempts' = attempts /\ sessionId' = sessionId
    BY DEF ClientLoses, serverVars
  <1>2. ClientsTyped /\ Consistent(Now, sessionId, up, Punchers, left) BY DEF NatInv
  <1>3. ~IsUser(c) => c \in left BY <1>2, NowParts DEF Consistent, IsUser
  <1>4. left' \subseteq Leavers BY <1>1, <1>2, <1>3 DEF ClientsTyped
  <1>5. kept \in SUBSET Client BY <1>2 DEF ClientsTyped
  <1> HIDE DEF kept
  <1>6. failed' \in [Client -> SUBSET Client] BY <1>1, <1>2, <1>5 DEF ClientsTyped
  <1>7. asked' \in [Client -> SUBSET Client] BY <1>1, <1>2, ReportedType
  <1>8. ClientsTyped'
    <2>1. linked' \subseteq Client BY <1>1, <1>2 DEF ClientsTyped
    <2> QED BY <1>1, <1>2, <1>4, <1>6, <1>7, <2>1 DEF ClientsTyped
  <1>9. /\ down' \in [Client -> Seq(Message)] /\ down'[c] = <<>>
        /\ \A x \in Client \ {c} : down'[x] = down[x]
    BY <1>1, ClientFacts
  <1>10. Names(down'[c], "CONNECT_AT_TIME", c) BY <1>9 DEF Names
  <1> QED BY ZenonT(40), <1>1, <1>8, <1>9, <1>10, ClientFacts, ClientMoves

(* OnNewConnection keeps the invariant.                                    *)
LEMMA ReconnectStep ==
  ASSUME NatInv, NEW c \in Client, Reconnect(c) PROVE NatInv'
  <1> DEFINE w == [ready |-> TRUE, port |-> NoPort]
             us == [users EXCEPT ![c] = w]
             dn == [down EXCEPT ![c] = <<>>]
             g == [users |-> us, attempts |-> attempts, down |-> dn]
  <1>1. /\ ClientsTyped /\ Addressed /\ Consistent(Now, sessionId, up, Punchers, left)
        /\ IdleOnlyOf(Now, {})
    BY DEF NatInv
  <1>2. /\ ~IsUser(c) /\ users' = us /\ linked' = linked \cup {c}
        /\ up' = [up EXCEPT ![c] = <<>>] /\ down' = dn
        /\ attempts' = attempts /\ sessionId' = sessionId /\ left' = left /\ budget' = budget
        /\ sp' = sp /\ failed' = failed /\ stride' = stride /\ queued' = queued /\ asked' = asked
    BY DEF Reconnect, clientVars
  <1>3. /\ up \in [Client -> Seq(Message)] /\ down \in [Client -> Seq(Message)] BY ClientFacts
  <1>4. /\ up' \in [Client -> Seq(Message)] /\ up'[c] = <<>>
        /\ \A x \in Client \ {c} : up'[x] = up[x]
    BY <1>2, <1>3
  <1>5. dn \in [Client -> Seq(Message)] /\ dn[c] = <<>> /\ \A x \in Client \ {c} : dn[x] = down[x]
    BY <1>3
  <1>6. Now \in FacilitatorState /\ Sound(Now, sessionId) BY <1>1 DEF Consistent
  <1>7. users \in [Client -> User \cup {NoUser}] /\ attempts \in SUBSET Attempt
    BY <1>6, Parts, NowParts
  <1>8. w \in User BY DEF User, NoPort
  <1> HIDE DEF w, dn
  <1>9. us \in [Client -> User \cup {NoUser}] /\ us[c] = w /\ \A x \in Client \ {c} : us[x] = users[x]
    BY <1>7, <1>8
  <1> HIDE DEF us
  <1>10. g \in FacilitatorState BY <1>5, <1>7, <1>9, Assembled
  <1>11. g.users = us /\ g.attempts = attempts /\ g.down = dn OBVIOUS
  <1>12. Serve(g) BY <1>2 DEF Serve
  <1> HIDE DEF g
  <1>13. ClientsTyped'
    <2>1. linked' \subseteq Client BY <1>1, <1>2 DEF ClientsTyped
    <2> QED BY <1>1, <1>2, <1>4, <2>1 DEF ClientsTyped
  <1>14. Punchers' = Punchers BY <1>2 DEF Punchers, Punching
  <1>15. Addressed'
    <2> SUFFICES ASSUME NEW x \in Client
                 PROVE  /\ Names(up'[x], "REQUEST", x)
                        /\ \A i \in DOMAIN queued'[x] : queued'[x][i] # x
                        /\ Punching(x)' => sp'[x].target \in Client \ {x}
                        /\ x \notin linked' => x \in left'
      BY DEF Addressed
    <2>1. Names(up'[x], "REQUEST", x) BY <1>1, <1>4 DEF Addressed, Names
    <2> QED BY <1>1, <1>2, <2>1 DEF Addressed, Punching
  <1>16. c \in left /\ \A a \in attempts : a.sender # c /\ a.recipient # c
    BY <1>1, <1>2, <1>6, NowParts DEF Consistent, Sound, IsUser
  <1>17. \A a \in attempts : us[a.sender] = users[a.sender] /\ us[a.recipient] = users[a.recipient]
    BY <1>7, <1>9, <1>16 DEF Attempt
  <1>18. Sound(g, sessionId) BY <1>6, <1>11, <1>17, NowParts DEF Sound
  <1>19. IdleOnlyOf(g, {}) BY <1>1, <1>11, <1>17, NowParts DEF IdleOnlyOf
  <1>20. \A x \in Client : g.users[x] = NoUser => x \in left
    BY <1>1, <1>9, <1>11, <1>16, NowParts DEF Consistent
  <1>21. \A x \in Client : Names(g.down[x], "CONNECT_AT_TIME", x)
    <2> SUFFICES ASSUME NEW x \in Client PROVE Names(dn[x], "CONNECT_AT_TIME", x) BY <1>11
    <2>1. CASE x = c BY <1>5, <2>1 DEF Names
    <2>2. CASE x # c BY <1>1, <1>5, <2>2, NowParts DEF Consistent
    <2> QED BY <2>1, <2>2
  <1>22. \A x \in Client \ left : Token(g, up'[x], x \in Punchers, x)
    <2> SUFFICES ASSUME NEW x \in Client \ left PROVE Token(g, up'[x], x \in Punchers, x) OBVIOUS
    <2>1. Token(Now, up[x], x \in Punchers, x) /\ x # c BY <1>1, <1>16 DEF Consistent
    <2>2. g.users[x] = Now.users[x] /\ g.down[x] = Now.down[x] /\ up'[x] = up[x]
      BY <1>4, <1>5, <1>9, <1>11, <2>1, NowParts
    <2>3. Prepares(g, x) = Prepares(Now, x) BY <1>11, NowParts DEF Prepares
    <2> QED BY <2>1, <2>2, <2>3 DEF Token
  <1>23. Consistent(g, sessionId', up', Punchers', left')
    BY <1>2, <1>10, <1>14, <1>18, <1>20, <1>21, <1>22 DEF Consistent
  <1> QED BY <1>12, <1>13, <1>15, <1>19, <1>23, Handled

-----------------------------------------------------------------------------
(* The theorems                                                            *)

(* The invariant holds initially.                                          *)
LEMMA InitInv == NatAssumption /\ Init => NatInv
  <1> SUFFICES ASSUME NatAssumption, Init PROVE NatInv OBVIOUS
  <1> DEFINE w == [ready |-> TRUE, port |-> NoPort]
             e == [c \in Client |-> <<>>]
  <1>1. w \in User BY DEF User, NoPort
  <1>2. Idle \in SendPing /\ Idle.mode = "IDLE" BY DEF Idle, SendPing
  <1>3. /\ up = e /\ down = e /\ attempts = {} /\ sessionId = 1 /\ linked = Client /\ left = {}
        /\ users = [c \in Client |-> w] /\ sp = [c \in Client |-> Idle]
        /\ failed = [c \in Client |-> {}] /\ queued = e /\ asked = [c \in Client |-> {}]
        /\ budget = AskBudget
        /\ stride = [c \in Client |-> IF c \in Strideless THEN "UNKNOWN" ELSE "KNOWN"]
    BY DEF Init
  <1> HIDE DEF w
  <1>4. users \in [Client -> User \cup {NoUser}] /\ \A c \in Client : users[c] \in User
    BY <1>1, <1>3
  <1>5. /\ up \in [Client -> Seq(Message)] /\ down \in [Client -> Seq(Message)]
        /\ queued \in [Client -> Seq(Client)]
    <2>1. <<>> \in Seq(Message) /\ <<>> \in Seq(Client) OBVIOUS
    <2> QED BY <1>3, <2>1
  <1>6. ClientsTyped
    <2>1. sp \in [Client -> SendPing] BY <1>2, <1>3
    <2>2. failed \in [Client -> SUBSET Client] /\ asked \in [Client -> SUBSET Client] BY <1>3
    <2>3. stride \in [Client -> {"UNKNOWN", "CALCULATING", "KNOWN"}] BY <1>3
    <2>4. budget \in 0 .. AskBudget BY <1>3 DEF NatAssumption
    <2> QED BY <1>3, <1>5, <2>1, <2>2, <2>3, <2>4 DEF ClientsTyped
  <1>7. /\ \A c \in Client : up[c] = <<>> /\ down[c] = <<>> /\ queued[c] = <<>> /\ sp[c].mode = "IDLE"
    BY <1>2, <1>3
  <1>8. Addressed BY <1>3, <1>7 DEF Addressed, Names, Punching
  <1>9. Now \in FacilitatorState
    <2>1. attempts \in SUBSET Attempt BY <1>3
    <2> QED BY <1>4, <1>5, <2>1, Assembled DEF Now
  <1>10. Sound(Now, sessionId) BY <1>3, NowParts DEF Sound
  <1>11. \A c \in Client : Token(Now, up[c], c \in Punchers, c)
    <2> SUFFICES ASSUME NEW c \in Client PROVE Token(Now, up[c], c \in Punchers, c) OBVIOUS
    <2>1. c \notin Punchers BY <1>7 DEF Punchers, Punching
    <2>2. /\ Once(up[c], "CLIENT_READY") /\ Once(Now.down[c], "CONNECT_AT_TIME")
          /\ ~Holds(up[c], "CLIENT_READY") /\ ~Holds(Now.down[c], "CONNECT_AT_TIME")
      BY <1>7, NowParts DEF Once, Holds
    <2>3. Prepares(Now, c) = {} BY <1>3, NowParts DEF Prepares
    <2> QED BY <2>1, <2>2, <2>3 DEF Token
  <1>12. \A c \in Client : Names(Now.down[c], "CONNECT_AT_TIME", c) BY <1>7, NowParts DEF Names
  <1>13. \A c \in Client : Now.users[c] # NoUser BY <1>4, NowParts, WaitingUser
  <1>14. Consistent(Now, sessionId, up, Punchers, left)
    BY <1>9, <1>10, <1>11, <1>12, <1>13 DEF Consistent
  <1>15. IdleOnlyOf(Now, {}) BY <1>3, NowParts DEF IdleOnlyOf
  <1> QED BY <1>6, <1>8, <1>14, <1>15 DEF NatInv

(* Every step keeps the invariant.                                         *)
LEMMA NextInv == NatAssumption /\ NatInv /\ [Next]_vars => NatInv'
  <1> SUFFICES ASSUME NatAssumption, NatInv, [Next]_vars PROVE NatInv' OBVIOUS
  <1>1. ASSUME UNCHANGED <<users, attempts, sessionId, linked, up, down, sp, failed, stride, queued,
                           asked, left, budget>>
        PROVE  NatInv'
    BY <1>1 DEF NatInv, ClientsTyped, Addressed, Punching, Now, Punchers
  <1>2. CASE UNCHANGED vars BY <1>1, <1>2 DEF vars
  <1>3. ASSUME NEW c \in Client, FacilitatorStep(c) PROVE NatInv'
    BY <1>3, RequestStep, ClientReadyStep, MostRecentPortStep DEF FacilitatorStep
  <1>4. ASSUME NEW c \in Client, Leave(c) PROVE NatInv'
    BY <1>4, FacilitatorLosesStep, ClientLosesStep DEF Leave
  <1>5. ASSUME NEW c \in Client, ClientStep(c) PROVE NatInv'
    BY <1>5, GetPortStep, ConnectStep, InProgressStep, TargetGoneStep DEF ClientStep
  <1>6. ASSUME NEW c \in Client, UpdateStep(c) PROVE NatInv'
    BY <1>6, AllSentStep, FailureStep DEF UpdateStep
  <1>7. ASSUME NEW c \in Client, SendOutOfBand(c) PROVE NatInv'
    BY <1>1, <1>7 DEF SendOutOfBand, serverVars, clientVars
  <1>8. ASSUME NEW c \in Client, NEW d \in Client,
               OpenNAT(c, d) \/ OnEstablishUnidirectional(c, d) \/ OnEstablishBidirectional(c, d)
        PROVE  NatInv'
    BY <1>8, OpenNATStep, UnidirectionalStep, BidirectionalStep
  <1> QED
    BY <1>2, <1>3, <1>4, <1>5, <1>6, <1>7, <1>8, TimeoutStep, ReconnectStep, PortStrideStep DEF Next

(* The invariant holds always.                                             *)
LEMMA AlwaysNatInv == Spec => []NatInv
  <1>1. Init => NatInv BY InitInv, NatAssumption
  <1>2. NatInv /\ [Next]_vars => NatInv' BY NextInv, NatAssumption
  <1> QED BY <1>1, <1>2, PTL DEF Spec

(* Facilitator and clients keep to their types: a request, a punch and an  *)
(* announcement name a client, an attempt two users, whatever is lost in   *)
(* between (nat_punchthrough_server.cpp, nat_punchthrough_client.cpp).     *)
THEOREM NatTypeCorrect == Spec => []TypeOK
  <1>1. NatInv => TypeOK BY TypesFollow
  <1> QED BY <1>1, AlwaysNatInv, PTL

(* No attempt waits while both its users are ready: every handler that     *)
(* makes a user ready also calls StartPunchthroughForUser for it, and      *)
(* nothing else can make an attempt startable.                             *)
THEOREM NatNoIdlePair == Spec => []NoIdlePair
  <1>1. NatInv => NoIdlePair BY NowParts DEF NatInv, IdleOnlyOf, NoIdlePair
  <1> QED BY <1>1, AlwaysNatInv, PTL

(* A set whose members are all equal has one member at most.               *)
LEMMA OneMember ==
  ASSUME NEW S, \A x, y \in S : x = y
  PROVE  Cardinality(S) \in {0, 1} /\ (S = {} => Cardinality(S) = 0)
  <1>1. CASE S = {} BY <1>1, FS_EmptySet
  <1>2. CASE S # {}
    <2>1. PICK x \in S : TRUE BY <1>2
    <2>2. S = {x} BY <2>1
    <2>3. Cardinality({x}) = 1 BY FS_Singleton
    <2> QED BY <1>2, <2>2, <2>3
  <1> QED BY <1>1, <1>2

(* A client that has kept the facilitator is in one punch at most, and in  *)
(* none while it is ready or has said so (OnConnectAtTime).                *)
THEOREM NatOneAtATime == Spec => []OneAtATime
  <1>1. ASSUME NatInv PROVE OneAtATime
    <2> SUFFICES ASSUME NEW c \in Client \ left
                 PROVE  Cardinality(Prepared(c)) + Cardinality(Announced(c))
                        + (IF Punching(c) THEN 1 ELSE 0)
                        <= IF users[c].ready \/ Ready \in ToSet(up[c]) THEN 0 ELSE 1
      BY DEF OneAtATime
    <2>1. Token(Now, up[c], c \in Punchers, c) BY <1>1 DEF NatInv, Consistent
    <2>2. (c \in Punchers) <=> Punching(c) BY DEF Punchers
    <2>3. Prepares(Now, c) = Prepared(c) BY NowParts DEF Prepares, Prepared, Mine
    <2>4. Holds(down[c], "CONNECT_AT_TIME") <=> Announced(c) # {} BY DEF Holds, Announced
    <2>5. Ready \in ToSet(up[c]) => Holds(up[c], "CLIENT_READY")
      BY DEF ToSet, Holds, Ready, Msg
    <2>6. \A i, j \in Announced(c) : i = j BY <2>1, NowParts DEF Token, Once, Announced
    <2>7. \A a, b \in Prepared(c) : a = b BY <2>1, <2>3 DEF Token
    <2> DEFINE n == Cardinality(Prepared(c))
               m == Cardinality(Announced(c))
    <2>8. n \in {0, 1} /\ (Prepared(c) = {} => n = 0) BY <2>7, OneMember
    <2>9. m \in {0, 1} /\ (Announced(c) = {} => m = 0) BY <2>6, OneMember
    <2> HIDE DEF n, m
    <2>10. /\ users[c].ready \/ Ready \in ToSet(up[c]) =>
                Prepared(c) = {} /\ Announced(c) = {} /\ ~Punching(c)
           /\ Prepared(c) # {} => Announced(c) = {} /\ ~Punching(c)
           /\ Announced(c) # {} => ~Punching(c)
      BY <2>1, <2>2, <2>3, <2>4, <2>5, NowParts DEF Token
    <2>11. n + m + (IF Punching(c) THEN 1 ELSE 0)
             <= IF users[c].ready \/ Ready \in ToSet(up[c]) THEN 0 ELSE 1
      BY <2>8, <2>9, <2>10
    <2> QED BY <2>11 DEF n, m
  <1> QED BY <1>1, AlwaysNatInv, PTL
=============================================================================
