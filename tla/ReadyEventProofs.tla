-------------------------- MODULE ReadyEventProofs --------------------------
(***************************************************************************)
(* Two peers of ReadyEvent that wait for each other and have no message    *)
(* under way know each other's status, in a mesh of any number of peers    *)
(* and for any number of calls.                                            *)
(***************************************************************************)
EXTENDS ReadyEvent, TLAPS

-----------------------------------------------------------------------------
(* What a queue of messages will tell its reader.                          *)
Plain == {"UNSET", "SET", "ALL_SET"}
Words == Status \cup {"QUERY"}

Silent(s) == \A i \in 1 .. Len(s) : s[i] \notin Plain
Ends(s, v) ==
  \A i \in 1 .. Len(s) :
    s[i] \in Plain /\ (\A j \in i + 1 .. Len(s) : s[j] \notin Plain) => s[i] = v
Asks(s) == \E i \in 1 .. Len(s) : s[i] = "QUERY"

(* What the record p keeps of q says that q was told; UNSET without one.   *)
Said(n, q) == IF WaitsFor(n, q) THEN n.systems[q].sent ELSE "UNSET"

(* The reader of s, with node n, ends up with v as the status of q: it is  *)
(* the last status in s, or the one recorded, unless the reader has still  *)
(* to be asked about.                                                      *)
Hears(s, asks, n, q, v) ==
  /\ Ends(s, v)
  /\ Silent(s) /\ WaitsFor(n, q) =>
       \/ n.systems[q].received = v
       \/ n.systems[q].received = "UNSET" /\ asks

-----------------------------------------------------------------------------
(* The inductive invariant.                                                *)
Node == [status : Status, systems : [Peer -> RemoteSystem \cup {NotWaiting}]]
Nodes == Node \cup {NoEvent}

(* Only connected peers are waited for, and each was told the status.      *)
Informs(n, links) ==
  \A q \in Peer : WaitsFor(n, q) =>
    /\ q \in links
    /\ n.status # "FORCE_ALL_SET" => n.systems[q].sent = n.status
SentSound == \A p \in Peer : Informs(node[p], linked[p])

LinkSound == \A p \in Peer : p \notin linked[p]

Known(p, q) ==
  /\ q \in linked[p] /\ p \in linked[q] /\ <<q, p>> \notin recalled
  /\ Said(node[q], p) # "FORCE_ALL_SET"
  => Hears(wire[q][p], Asks(wire[p][q]), node[p], q, Said(node[q], p))
KnownSound == \A p, q \in Peer : Known(p, q)

Sound == TypeOK /\ SentSound /\ LinkSound /\ KnownSound

-----------------------------------------------------------------------------
(* Lemmas about queues.                                                    *)

(* A status at the end of a queue is what its reader ends up with.         *)
LEMMA AppendPlain ==
  ASSUME NEW s \in Seq(Words), NEW m \in Plain
  PROVE  /\ Append(s, m) \in Seq(Words)
         /\ Ends(Append(s, m), m) /\ ~Silent(Append(s, m))
         /\ Asks(s) => Asks(Append(s, m))
  <1> DEFINE t == Append(s, m)
             n == Len(s)
  <1>1. m \in Words BY DEF Plain, Words, Status
  <1>2. n \in Nat /\ t \in Seq(Words) /\ Len(t) = n + 1 /\ t[n + 1] = m /\ \A i \in 1 .. n : t[i] = s[i] BY <1>1
  <1> HIDE DEF t, n
  <1>3. n + 1 \in 1 .. Len(t) BY <1>2
  <1>4. ~Silent(t) BY <1>2, <1>3 DEF Silent
  <1>5. Ends(t, m)
    <2>1. SUFFICES ASSUME NEW i \in 1 .. Len(t), t[i] \in Plain, \A j \in i + 1 .. Len(t) : t[j] \notin Plain
                   PROVE  t[i] = m
      BY DEF Ends
    <2>2. CASE i = n + 1 BY <1>2, <2>2
    <2>3. CASE i # n + 1
      <3>1. n + 1 \in i + 1 .. Len(t) BY <1>2, <2>3
      <3> QED BY <1>2, <2>1, <3>1
    <2> QED BY <2>2, <2>3
  <1>6. Asks(s) => Asks(t)
    <2>1. \A i \in 1 .. n : i \in 1 .. Len(t) BY <1>2
    <2> QED BY <1>2, <2>1 DEF Asks, n
  <1> QED BY <1>2, <1>4, <1>5, <1>6 DEF t

(* A query or a forced completion at its end changes nothing of that.      *)
LEMMA AppendOther ==
  ASSUME NEW s \in Seq(Words), NEW m \in Words \ Plain
  PROVE  /\ Append(s, m) \in Seq(Words)
         /\ \A v : Ends(s, v) => Ends(Append(s, m), v)
         /\ Silent(Append(s, m)) => Silent(s)
         /\ Asks(s) => Asks(Append(s, m))
         /\ m = "QUERY" => Asks(Append(s, m))
  <1> DEFINE t == Append(s, m)
             n == Len(s)
  <1>2. n \in Nat /\ t \in Seq(Words) /\ Len(t) = n + 1 /\ t[n + 1] = m /\ \A i \in 1 .. n : t[i] = s[i] OBVIOUS
  <1> HIDE DEF t, n
  <1>3. \A i \in 1 .. n : i \in 1 .. Len(t) BY <1>2
  <1>4. ASSUME NEW v, Ends(s, v) PROVE Ends(t, v)
    <2>1. SUFFICES ASSUME NEW i \in 1 .. Len(t), t[i] \in Plain, \A j \in i + 1 .. Len(t) : t[j] \notin Plain
                   PROVE  t[i] = v
      BY DEF Ends
    <2>2. i # n + 1 BY <1>2, <2>1
    <2>3. i \in 1 .. n BY <1>2, <2>2
    <2>4. \A j \in i + 1 .. n : j \in i + 1 .. Len(t) /\ j \in 1 .. n BY <1>2, <2>3
    <2>5. s[i] \in Plain /\ \A j \in i + 1 .. n : s[j] \notin Plain BY <1>2, <2>1, <2>3, <2>4
    <2>6. s[i] = v BY <1>4, <2>3, <2>5 DEF Ends, n
    <2> QED BY <1>2, <2>3, <2>6
  <1>5. Silent(t) => Silent(s) BY <1>2, <1>3 DEF Silent, n
  <1>6. Asks(s) => Asks(t) BY <1>2, <1>3 DEF Asks, n
  <1>7. m = "QUERY" => Asks(t)
    <2>1. n + 1 \in 1 .. Len(t) BY <1>2
    <2> QED BY <1>2, <2>1 DEF Asks
  <1> QED BY <1>2, <1>4, <1>5, <1>6, <1>7 DEF t

(* What handling the oldest message leaves.                                *)
LEMMA TailWords ==
  ASSUME NEW s \in Seq(Words), s # <<>>
  PROVE  /\ Tail(s) \in Seq(Words) /\ Head(s) \in Words
         /\ \A v : Ends(s, v) => Ends(Tail(s), v)
         /\ Silent(Tail(s)) /\ Head(s) \notin Plain => Silent(s)
         /\ \A v : Ends(s, v) /\ Silent(Tail(s)) /\ Head(s) \in Plain => Head(s) = v
         /\ Asks(s) /\ Head(s) # "QUERY" => Asks(Tail(s))
  <1> DEFINE t == Tail(s)
             n == Len(s)
             h == Head(s)
  <1>1. /\ n \in Nat /\ n >= 1 /\ t \in Seq(Words) /\ Len(t) = n - 1 /\ h = s[1] /\ h \in Words
        /\ \A i \in 1 .. n - 1 : t[i] = s[i + 1]
    OBVIOUS
  <1> HIDE DEF t, n, h
  <1>2. \A i \in 1 .. n : i = 1 \/ (i - 1 \in 1 .. n - 1 /\ t[i - 1] = s[i])
    <2> TAKE i \in 1 .. n
    <2>1. CASE i # 1
      <3>1. i - 1 \in 1 .. n - 1 /\ (i - 1) + 1 = i BY <1>1, <2>1
      <3> QED BY <1>1, <3>1
    <2> QED BY <2>1
  <1>3. 1 \in 1 .. n BY <1>1
  <1>4. ASSUME NEW v, Ends(s, v) PROVE Ends(t, v)
    <2>1. SUFFICES ASSUME NEW i \in 1 .. Len(t), t[i] \in Plain, \A j \in i + 1 .. Len(t) : t[j] \notin Plain
                   PROVE  t[i] = v
      BY DEF Ends
    <2>2. i \in 1 .. n - 1 /\ i + 1 \in 1 .. n /\ t[i] = s[i + 1] BY <1>1
    <2>3. ASSUME NEW j \in (i + 1) + 1 .. n PROVE s[j] \notin Plain
      <3>1. j \in 1 .. n /\ j # 1 /\ j - 1 \in i + 1 .. Len(t) BY <1>1, <2>2
      <3> QED BY <1>2, <2>1, <3>1
    <2>4. s[i + 1] = v BY <1>4, <2>1, <2>2, <2>3 DEF Ends, n
    <2> QED BY <2>2, <2>4
  <1>5. Silent(t) /\ h \notin Plain => Silent(s)
    BY <1>1, <1>2 DEF Silent, n
  <1>6. ASSUME NEW v, Ends(s, v), Silent(t), h \in Plain PROVE h = v
    <2>1. ASSUME NEW j \in 1 + 1 .. n PROVE s[j] \notin Plain
      <3>1. j \in 1 .. n /\ j # 1 BY <1>1
      <3> QED BY <1>1, <1>2, <1>6, <3>1 DEF Silent
    <2> QED BY <1>1, <1>3, <1>6, <2>1 DEF Ends, n
  <1>7. Asks(s) /\ h # "QUERY" => Asks(t)
    <2>1. SUFFICES ASSUME NEW i \in 1 .. n, s[i] = "QUERY", h # "QUERY" PROVE Asks(t)
      BY DEF Asks, n
    <2>2. i - 1 \in 1 .. n - 1 /\ t[i - 1] = s[i] BY <1>1, <1>2, <2>1
    <2> QED BY <1>1, <2>1, <2>2 DEF Asks
  <1> QED BY <1>1, <1>4, <1>5, <1>6, <1>7 DEF t, h

(* The empty queue.                                                        *)
LEMMA NoWords ==
  /\ <<>> \in Seq(Words) /\ Silent(<<>>) /\ ~Asks(<<>>) /\ \A v : Ends(<<>>, v)
  BY DEF Silent, Asks, Ends

(* What UpdateReadyStatus puts behind the messages under way.              *)
LEMMA Behind ==
  ASSUME NEW s \in Seq(Words), NEW x \in Words, NEW y \in Words
  PROVE  /\ s \o <<>> = s /\ s \o (<<>> \o <<>>) = s
         /\ s \o (<<x>> \o <<>>) = Append(s, x) /\ s \o <<x>> = Append(s, x)
         /\ s \o (<<>> \o <<y>>) = Append(s, y)
         /\ s \o (<<x>> \o <<y>>) = Append(Append(s, x), y)
  OBVIOUS

-----------------------------------------------------------------------------
(* Lemmas about nodes.                                                     *)

(* The fields of a node, and of the record of a peer it waits for.         *)
LEMMA NodeFacts ==
  ASSUME NEW n \in Nodes, NEW q \in Peer
  PROVE  /\ n.systems \in [Peer -> RemoteSystem \cup {NotWaiting}]
         /\ ~WaitsFor(NoEvent, q)
         /\ WaitsFor(n, q) => /\ n \in Node /\ n.status \in Status /\ n.systems[q] \in RemoteSystem
                              /\ n.systems[q].sent \in Status /\ n.systems[q].received \in Status
         /\ Said(n, q) \in Status
  <1>1. NotWaiting \notin RemoteSystem BY DEF NotWaiting, RemoteSystem, Status
  <1>2. NoEvent.systems = [x \in Peer |-> NotWaiting] BY DEF NoEvent
  <1>3. ~WaitsFor(NoEvent, q) BY <1>2 DEF WaitsFor
  <1>4. n.systems \in [Peer -> RemoteSystem \cup {NotWaiting}] BY <1>2 DEF Nodes, Node
  <1>5. ASSUME WaitsFor(n, q)
        PROVE  /\ n \in Node /\ n.status \in Status /\ n.systems[q] \in RemoteSystem
               /\ n.systems[q].sent \in Status /\ n.systems[q].received \in Status
    <2>1. n \in Node BY <1>3, <1>5 DEF Nodes
    <2>2. n.systems[q] \in RemoteSystem BY <1>4, <1>5 DEF WaitsFor
    <2>3. n.status \in Status BY <2>1 DEF Node
    <2> QED BY <2>1, <2>2, <2>3 DEF RemoteSystem
  <1>6. Said(n, q) \in Status
    <2>1. "UNSET" \in Status BY DEF Status
    <2> QED BY <1>5, <2>1 DEF Said
  <1> QED BY <1>3, <1>4, <1>5, <1>6

(* A record that is a RemoteSystem is waited for.                          *)
LEMMA Listed ==
  ASSUME NEW n, NEW q, n.systems[q] \in RemoteSystem PROVE WaitsFor(n, q)
  <1>1. NotWaiting \notin RemoteSystem BY DEF NotWaiting, RemoteSystem, Status
  <1> QED BY <1>1 DEF WaitsFor

(* UpdateReadyStatus changes the status, never the list.                   *)
LEMMA UpdatedFacts ==
  ASSUME NEW n \in Node
  PROVE  /\ Updated(n) \in Node /\ Updated(n).systems = n.systems
         /\ Updated(n).status \in Status
  BY DEF Updated, Node, Status

(* The records after whom was told.                                        *)
LEMMA ToldFacts ==
  ASSUME NEW n \in Node, NEW whom \in SUBSET Peer, \A q \in whom : WaitsFor(n, q)
  PROVE  /\ Told(n, whom) \in Node /\ Told(n, whom).status = n.status
         /\ \A q \in Peer :
              /\ WaitsFor(Told(n, whom), q) <=> WaitsFor(n, q)
              /\ WaitsFor(n, q) => Told(n, whom).systems[q].received = n.systems[q].received
              /\ q \in whom => Told(n, whom).systems[q].sent = n.status
              /\ q \notin whom => Told(n, whom).systems[q] = n.systems[q]
  <1> DEFINE t == Told(n, whom)
             f == [q \in Peer |-> IF q \in whom THEN [n.systems[q] EXCEPT !.sent = n.status] ELSE n.systems[q]]
  <1>1. n \in Nodes /\ n.status \in Status /\ n.systems \in [Peer -> RemoteSystem \cup {NotWaiting}]
    BY DEF Nodes, Node
  <1>2. t = [n EXCEPT !.systems = f] BY DEF Told
  <1>3. t.status = n.status /\ t.systems = f BY <1>2 DEF Node
  <1>4. ASSUME NEW q \in whom
        PROVE  /\ f[q] \in RemoteSystem /\ f[q].sent = n.status
               /\ f[q].received = n.systems[q].received
    <2>1. n.systems[q] \in RemoteSystem BY <1>1, NodeFacts
    <2>2. f[q] = [n.systems[q] EXCEPT !.sent = n.status] OBVIOUS
    <2> HIDE DEF f
    <2> QED BY <1>1, <2>1, <2>2 DEF RemoteSystem
  <1>5. \A q \in Peer : q \notin whom => f[q] = n.systems[q] OBVIOUS
  <1>6. f \in [Peer -> RemoteSystem \cup {NotWaiting}] BY <1>1, <1>4
  <1> HIDE DEF f
  <1>7. t \in Node BY <1>2, <1>6 DEF Node
  <1> HIDE DEF t
  <1>8. ASSUME NEW q \in Peer
        PROVE  /\ WaitsFor(t, q) <=> WaitsFor(n, q)
               /\ WaitsFor(n, q) => t.systems[q].received = n.systems[q].received
               /\ q \in whom => t.systems[q].sent = n.status
               /\ q \notin whom => t.systems[q] = n.systems[q]
    <2>1. CASE q \in whom
      <3>1. t.systems[q] \in RemoteSystem BY <1>3, <1>4, <2>1
      <3>2. WaitsFor(t, q) BY <3>1, Listed
      <3> QED BY <1>3, <1>4, <2>1, <3>2
    <2>2. CASE q \notin whom
      <3>1. t.systems[q] = n.systems[q] BY <1>3, <1>5, <2>2
      <3> QED BY <2>2, <3>1 DEF WaitsFor
    <2> QED BY <2>1, <2>2
  <1> QED BY <1>3, <1>7, <1>8 DEF t

(* The type of the wires.                                                  *)
Wires == [Peer -> [Peer -> Seq(Words)]]
Budgets == [set : 0..SetBudget, wait : 0..WaitBudget, leave : 0..LeaveBudget]

(* TypeOK, by the names the proofs use.                                    *)
LEMMA Types ==
  TypeOK <=> /\ node \in [Peer -> Nodes] /\ linked \in [Peer -> SUBSET Peer] /\ wire \in Wires
             /\ recalled \subseteq Peer \X Peer /\ budget \in Budgets
  BY DEF TypeOK, Nodes, Node, Wires, Words, Budgets

(* The records that go are records of p.                                   *)
LEMMA RecallFacts ==
  ASSUME NEW p \in Peer, NEW gone \in SUBSET Peer
  PROVE  /\ Recall(p, gone) \subseteq Peer \X Peer
         /\ \A x, q \in Peer : <<x, q>> \in Recall(p, gone) <=>
              x = p /\ q \in gone /\ WaitsFor(node[p], q) /\ node[p].systems[q].sent # "UNSET"
  BY DEF Recall

(* What UpdateReadyStatus does, peer by peer.                              *)
LEMMA UpdateEffect ==
  ASSUME TypeOK, NEW p \in Peer, NEW n \in Node, NEW w \in Wires,
         NEW queried \in SUBSET Peer, NEW gone \in SUBSET Peer,
         UpdateReadyStatus(p, n, w, queried, gone)
  PROVE  LET m == Updated(n).status
             Tells(q) == WaitsFor(n, q) /\ m # n.systems[q].sent
         IN  /\ m \in Status
             /\ node' \in [Peer -> Nodes] /\ node'[p].status = m
             /\ \A x \in Peer : x # p => node'[x] = node[x]
             /\ \A q \in Peer :
                  /\ WaitsFor(node'[p], q) <=> WaitsFor(n, q)
                  /\ WaitsFor(n, q) => /\ node'[p].systems[q].sent = m
                                       /\ node'[p].systems[q].received = n.systems[q].received
                  /\ <<p, q>> \in recalled' <=> <<p, q>> \in recalled \cup Recall(p, gone) /\ ~Tells(q)
                  /\ wire'[p][q] = w[p][q] \o
                       IF q \in linked[p]
                       THEN (IF q \in queried THEN <<"QUERY">> ELSE <<>>) \o (IF Tells(q) THEN <<m>> ELSE <<>>)
                       ELSE <<>>
             /\ \A x, q \in Peer : x # p => /\ wire'[x][q] = w[x][q]
                                            /\ <<x, q>> \in recalled' <=> <<x, q>> \in recalled
             /\ wire' \in Wires /\ recalled' \subseteq Peer \X Peer
  <1> DEFINE u == Updated(n)
             m == u.status
             Tells(q) == WaitsFor(n, q) /\ m # n.systems[q].sent
             whom == {q \in Peer : NeedsUpdate(u, q)}
             out == [q \in Peer |-> (IF q \in queried THEN <<"QUERY">> ELSE <<>>) \o
                                    (IF q \in whom THEN <<m>> ELSE <<>>)]
  <1>1. u \in Node /\ u.systems = n.systems /\ m \in Status BY UpdatedFacts
  <1>2. /\ node' = [node EXCEPT ![p] = Told(u, whom)]
        /\ recalled' = (recalled \cup Recall(p, gone)) \ {<<p, q>> : q \in whom}
        /\ Post(p, w, out)
    BY DEF UpdateReadyStatus
  <1>3. node \in [Peer -> Nodes] /\ recalled \subseteq Peer \X Peer BY Types
  <1> HIDE DEF u
  <1>4. \A q \in Peer : /\ WaitsFor(u, q) <=> WaitsFor(n, q)
                        /\ q \in whom <=> Tells(q)
    BY <1>1 DEF WaitsFor, NeedsUpdate
  <1>5. whom \in SUBSET Peer /\ \A q \in whom : WaitsFor(u, q) BY <1>4
  <1> DEFINE t == Told(u, whom)
  <1> HIDE DEF whom
  <1>6. /\ t \in Node /\ t.status = m
        /\ \A q \in Peer :
              /\ WaitsFor(t, q) <=> WaitsFor(u, q)
              /\ WaitsFor(u, q) => t.systems[q].received = u.systems[q].received
              /\ q \in whom => t.systems[q].sent = m
              /\ q \notin whom => t.systems[q] = u.systems[q]
    BY <1>1, <1>5, ToldFacts
  <1>7. node' = [node EXCEPT ![p] = t] BY <1>2
  <1> HIDE DEF t, m
  <1>8. /\ node' \in [Peer -> Nodes] /\ node'[p] = t /\ \A x \in Peer : x # p => node'[x] = node[x]
    BY <1>3, <1>6, <1>7 DEF Nodes
  <1>9. ASSUME NEW q \in Peer
        PROVE  /\ WaitsFor(t, q) <=> WaitsFor(n, q)
               /\ WaitsFor(n, q) => t.systems[q].sent = m /\ t.systems[q].received = n.systems[q].received
    <2>1. WaitsFor(t, q) <=> WaitsFor(n, q) BY <1>4, <1>6
    <2>2. ASSUME WaitsFor(n, q)
          PROVE  t.systems[q].sent = m /\ t.systems[q].received = n.systems[q].received
      <3>1. t.systems[q].received = n.systems[q].received BY <1>1, <1>4, <1>6, <2>2
      <3>2. CASE q \in whom BY <1>6, <3>1, <3>2
      <3>3. CASE q \notin whom
        <4>1. n.systems[q].sent = m BY <1>4, <2>2, <3>3
        <4> QED BY <1>1, <1>6, <3>1, <3>3, <4>1
      <3> QED BY <3>2, <3>3
    <2> QED BY <2>1, <2>2
  <1>10. ASSUME NEW x \in Peer, NEW q \in Peer
         PROVE  <<x, q>> \in recalled' <=>
                  <<x, q>> \in recalled \cup Recall(p, gone) /\ ~(x = p /\ q \in whom)
    BY <1>2
  <1>11. recalled' \subseteq Peer \X Peer BY <1>2, <1>3, RecallFacts
  <1>12. wire' = [w EXCEPT ![p] = [q \in Peer |-> w[p][q] \o IF q \in linked[p] THEN out[q] ELSE <<>>]]
    BY <1>2 DEF Post, Wires
  <1>13. ASSUME NEW q \in Peer
         PROVE  /\ wire'[p][q] = w[p][q] \o IF q \in linked[p] THEN out[q] ELSE <<>>
                /\ wire'[p][q] \in Seq(Words)
    <2>1. wire'[p][q] = w[p][q] \o IF q \in linked[p] THEN out[q] ELSE <<>> BY <1>12 DEF Wires
    <2>2. m \in Words /\ "QUERY" \in Words BY <1>1 DEF Words, m
    <2>3. out[q] = (IF q \in queried THEN <<"QUERY">> ELSE <<>>) \o (IF q \in whom THEN <<m>> ELSE <<>>)
      OBVIOUS
    <2>4. w[p][q] \in Seq(Words) BY DEF Wires
    <2> HIDE DEF out
    <2>5. /\ <<"QUERY">> \in Seq(Words) /\ <<m>> \in Seq(Words) /\ <<>> \in Seq(Words) BY <2>2
    <2>6. out[q] \in Seq(Words) BY <2>3, <2>5
    <2>7. (IF q \in linked[p] THEN out[q] ELSE <<>>) \in Seq(Words) BY <2>5, <2>6
    <2> QED BY <2>1, <2>4, <2>7
  <1>14. \A x, q \in Peer : x # p => wire'[x][q] = w[x][q] BY <1>12 DEF Wires
  <1>15. wire' \in Wires
    <2> DEFINE row == [q \in Peer |-> w[p][q] \o IF q \in linked[p] THEN out[q] ELSE <<>>]
    <2>1. wire'[p] = row BY <1>12 DEF Wires
    <2>2. \A q \in Peer : row[q] \in Seq(Words) BY <1>13, <2>1
    <2>3. row \in [Peer -> Seq(Words)] BY <2>2
    <2>4. wire' = [w EXCEPT ![p] = row] BY <1>12
    <2> HIDE DEF row
    <2> QED BY <2>3, <2>4 DEF Wires
  <1>16. \A x, q \in Peer : x # p => <<x, q>> \notin Recall(p, gone) BY RecallFacts
  <1>17. m \in Status BY <1>1 DEF m
  <1>18. \A q \in Peer : wire'[p][q] = w[p][q] \o
                       IF q \in linked[p]
                       THEN (IF q \in queried THEN <<"QUERY">> ELSE <<>>) \o (IF Tells(q) THEN <<m>> ELSE <<>>)
                       ELSE <<>>
    BY <1>4, <1>13
  <1>19. \A q \in Peer : <<p, q>> \in recalled' <=> <<p, q>> \in recalled \cup Recall(p, gone) /\ ~Tells(q)
    BY <1>4, <1>10
  <1>20. \A x, q \in Peer : x # p => (<<x, q>> \in recalled' <=> <<x, q>> \in recalled)
    BY <1>10, <1>16
  <1>21. node'[p].status = m BY <1>6, <1>8
  <1>22. \A q \in Peer :
           /\ WaitsFor(node'[p], q) <=> WaitsFor(n, q)
           /\ WaitsFor(n, q) => /\ node'[p].systems[q].sent = m
                                /\ node'[p].systems[q].received = n.systems[q].received
    BY <1>8, <1>9
  <1> QED BY <1>8, <1>11, <1>14, <1>15, <1>17, <1>18, <1>19, <1>20, <1>21, <1>22 DEF m, u

-----------------------------------------------------------------------------
(* Two forms of a step of peer p: its node becomes n, the messages to it   *)
(* become those of w; in the second UpdateReadyStatus follows.             *)

(* Less is known to be asked, more is recorded: what is heard is the same. *)
LEMMA HearsMore ==
  ASSUME NEW s, NEW a \in BOOLEAN, NEW b \in BOOLEAN, NEW n, NEW m, NEW q, NEW v,
         Hears(s, a, n, q, v), a => b, WaitsFor(m, q) => WaitsFor(n, q),
         WaitsFor(m, q) => m.systems[q].received = n.systems[q].received
  PROVE  Hears(s, b, m, q, v)
  BY DEF Hears

(* A step that tells nobody.                                               *)
LEMMA LocalStep ==
  ASSUME Sound, NEW p \in Peer, NEW n \in Nodes, NEW w \in Wires,
         node' = [node EXCEPT ![p] = n], wire' = w, budget' \in Budgets,
         linked' \in [Peer -> SUBSET Peer], linked'[p] \subseteq linked[p],
         \A x \in Peer : x # p => linked'[x] = linked[x],
         recalled \subseteq recalled', recalled' \subseteq Peer \X Peer,
         \A x, q \in Peer : q # p => w[x][q] = wire[x][q],
         \A q \in Peer : Asks(wire[q][p]) => Asks(w[q][p]),
         Informs(n, linked'[p]),
         \A q \in Peer : Said(n, q) = Said(node[p], q) \/ <<p, q>> \in recalled',
         \A q \in Peer : /\ q # p /\ q \in linked'[p] /\ p \in linked[q] /\ <<q, p>> \notin recalled
                         /\ Said(node[q], p) # "FORCE_ALL_SET"
                         => Hears(w[q][p], Asks(w[p][q]), n, q, Said(node[q], p))
  PROVE  Sound'
  <1>1. node \in [Peer -> Nodes] BY Types DEF Sound
  <1>2. node' \in [Peer -> Nodes] /\ node'[p] = n /\ \A x \in Peer : x # p => node'[x] = node[x]
    BY <1>1
  <1>3. TypeOK' BY <1>2 DEF TypeOK, Nodes, Node, Wires, Words, Budgets
  <1>4. SentSound'
    <2>1. ASSUME NEW x \in Peer PROVE Informs(node'[x], linked'[x])
      <3>1. CASE x = p BY <1>2, <3>1
      <3>2. CASE x # p
        <4>1. Informs(node[x], linked[x]) BY DEF Sound, SentSound
        <4> QED BY <1>2, <3>2, <4>1
      <3> QED BY <3>1, <3>2
    <2> QED BY <2>1 DEF SentSound, Informs, WaitsFor
  <1>5. LinkSound' 
    <2>1. \A x \in Peer : linked'[x] \subseteq linked[x] OBVIOUS
    <2> QED BY <2>1 DEF Sound, LinkSound
  <1>6. ASSUME NEW x \in Peer, NEW y \in Peer,
               y \in linked'[x], x \in linked'[y], <<y, x>> \notin recalled',
               Said(node'[y], x) # "FORCE_ALL_SET"
        PROVE  Hears(wire'[y][x], Asks(wire'[x][y]), node'[x], y, Said(node'[y], x))
    <2>1. x # y
      <3>1. x \notin linked[x] /\ linked'[x] \subseteq linked[x] BY DEF Sound, LinkSound
      <3> QED BY <1>6, <3>1
    <2>2. y \in linked[x] /\ x \in linked[y] /\ <<y, x>> \notin recalled
      <3>1. linked'[x] \subseteq linked[x] /\ linked'[y] \subseteq linked[y] OBVIOUS
      <3> QED BY <1>6, <3>1
    <2>3. Known(x, y) BY DEF Sound, KnownSound
    <2>4. CASE x = p
      <3>1. y # p /\ node'[y] = node[y] /\ linked'[y] = linked[y] BY <1>2, <2>1, <2>4
      <3>2. Hears(w[y][p], Asks(w[p][y]), n, y, Said(node[y], p)) BY <1>6, <2>2, <2>4, <3>1
      <3> QED BY <1>2, <2>4, <3>1, <3>2
    <2>5. CASE y = p
      <3>1. x # p /\ node'[x] = node[x] BY <1>2, <2>1, <2>5
      <3>2. Said(n, x) = Said(node[p], x) BY <1>6, <2>5
      <3>3. wire'[p][x] = wire[p][x] /\ (Asks(wire[x][p]) => Asks(wire'[x][p])) BY <3>1
      <3>4. Hears(wire[p][x], Asks(wire[x][p]), node[x], p, Said(node[p], x))
        BY <1>2, <1>6, <2>2, <2>3, <2>5, <3>2 DEF Known
      <3>5. Asks(wire[x][p]) \in BOOLEAN /\ Asks(wire'[x][p]) \in BOOLEAN BY DEF Asks
      <3>6. Hears(wire[p][x], Asks(wire'[x][p]), node[x], p, Said(node[p], x))
        BY <3>3, <3>4, <3>5, HearsMore
      <3> QED BY <1>2, <2>5, <3>1, <3>2, <3>3, <3>6
    <2>6. CASE x # p /\ y # p
      <3>1. /\ node'[x] = node[x] /\ node'[y] = node[y]
            /\ wire'[y][x] = wire[y][x] /\ wire'[x][y] = wire[x][y]
        BY <1>2, <2>6
      <3> QED BY <1>6, <2>2, <2>3, <3>1 DEF Known
    <2> QED BY <2>4, <2>5, <2>6
  <1>7. KnownSound'
    BY <1>6 DEF KnownSound, Known, Hears, Ends, Silent, Asks, Said, WaitsFor
  <1> QED BY <1>3, <1>4, <1>5, <1>7 DEF Sound

(* A step that ends with UpdateReadyStatus.                                *)
LEMMA UpdateStep ==
  ASSUME Sound, NEW p \in Peer, NEW n \in Node, NEW w \in Wires,
         NEW queried \in SUBSET Peer, NEW gone \in SUBSET Peer,
         UpdateReadyStatus(p, n, w, queried, gone), budget' \in Budgets,
         linked' \in [Peer -> SUBSET Peer], linked'[p] \subseteq linked[p],
         \A x \in Peer : x # p => linked'[x] = linked[x],
         \A x, q \in Peer : q # p => w[x][q] = wire[x][q],
         \A q \in Peer : Asks(wire[q][p]) => Asks(w[q][p]),
         \A q \in Peer : WaitsFor(n, q) => q \in linked'[p],
         \A q \in Peer : Said(n, q) = Said(node[p], q) \/ <<p, q>> \in recalled \cup Recall(p, gone),
         \A q \in Peer : /\ q # p /\ q \in linked'[p] /\ p \in linked[q] /\ <<q, p>> \notin recalled
                         /\ Said(node[q], p) # "FORCE_ALL_SET"
                         => Hears(w[q][p], Asks(w[p][q]) \/ q \in queried, n, q, Said(node[q], p))
  PROVE  Sound'
  <1> DEFINE m == Updated(n).status
             Tells(q) == WaitsFor(n, q) /\ m # n.systems[q].sent
             more(q) == IF q \in linked[p]
                        THEN (IF q \in queried THEN <<"QUERY">> ELSE <<>>) \o (IF Tells(q) THEN <<m>> ELSE <<>>)
                        ELSE <<>>
  <1>1. TypeOK BY DEF Sound
  <1>2. /\ m \in Status
        /\ node' \in [Peer -> Nodes] /\ node'[p].status = m
        /\ \A x \in Peer : x # p => node'[x] = node[x]
        /\ \A q \in Peer :
             /\ WaitsFor(node'[p], q) <=> WaitsFor(n, q)
             /\ WaitsFor(n, q) => /\ node'[p].systems[q].sent = m
                                  /\ node'[p].systems[q].received = n.systems[q].received
             /\ <<p, q>> \in recalled' <=> <<p, q>> \in recalled \cup Recall(p, gone) /\ ~Tells(q)
             /\ wire'[p][q] = w[p][q] \o more(q)
        /\ \A x, q \in Peer : x # p => /\ wire'[x][q] = w[x][q]
                                       /\ <<x, q>> \in recalled' <=> <<x, q>> \in recalled
        /\ wire' \in Wires /\ recalled' \subseteq Peer \X Peer
    BY <1>1, UpdateEffect
  <1> HIDE DEF m
  <1>3. TypeOK' BY <1>2 DEF TypeOK, Nodes, Node, Wires, Words, Budgets
  <1>4. SentSound'
    <2>1. ASSUME NEW x \in Peer PROVE Informs(node'[x], linked'[x])
      <3>1. CASE x = p BY <1>2, <3>1 DEF Informs
      <3>2. CASE x # p
        <4>1. Informs(node[x], linked[x]) BY DEF Sound, SentSound
        <4> QED BY <1>2, <3>2, <4>1
      <3> QED BY <3>1, <3>2
    <2> QED BY <2>1 DEF SentSound, Informs, WaitsFor
  <1>5. LinkSound'
    <2>1. \A x \in Peer : linked'[x] \subseteq linked[x] OBVIOUS
    <2> QED BY <2>1 DEF Sound, LinkSound
  (* What reaches q of the messages of p.                                  *)
  <1>6. ASSUME NEW q \in Peer, q # p
        PROVE  /\ Asks(wire[p][q]) => Asks(wire'[p][q])
               /\ q \in linked[p] /\ q \in queried => Asks(wire'[p][q])
               /\ q \in linked[p] /\ Tells(q) /\ m \in Plain => Ends(wire'[p][q], m) /\ ~Silent(wire'[p][q])
               /\ ~Tells(q) => /\ \A v : Ends(wire[p][q], v) => Ends(wire'[p][q], v)
                               /\ Silent(wire'[p][q]) => Silent(wire[p][q])
    <2> DEFINE s == wire[p][q]
    <2>1. s \in Seq(Words) /\ w[p][q] = s BY <1>6, Types DEF Sound, Wires
    <2>2. wire'[p][q] = s \o more(q) BY <1>2, <2>1
    <2> HIDE DEF s
    <2>3. m \in Words /\ "QUERY" \in Words \ Plain BY <1>2 DEF Words, Plain, Status
    <2>4. CASE q \notin linked[p]
      <3>1. more(q) = <<>> BY <2>4
      <3>2. wire'[p][q] = s BY <2>1, <2>2, <2>3, <3>1, Behind
      <3> QED BY <2>4, <3>2 DEF s
    <2>5. CASE q \in linked[p] /\ q \notin queried /\ ~Tells(q)
      <3>1. more(q) = <<>> \o <<>> BY <2>5
      <3>2. wire'[p][q] = s BY <2>1, <2>2, <2>3, <3>1, Behind
      <3> QED BY <2>5, <3>2 DEF s
    <2>6. CASE q \in linked[p] /\ q \in queried /\ ~Tells(q)
      <3>1. more(q) = <<"QUERY">> \o <<>> BY <2>6
      <3>2. wire'[p][q] = Append(s, "QUERY")
        <4>1. s \o (<<"QUERY">> \o <<>>) = Append(s, "QUERY") BY <2>1, <2>3, Behind
        <4> QED BY <2>2, <3>1, <4>1, Zenon
      <3> QED BY <2>1, <2>3, <2>6, <3>2, AppendOther DEF s
    <2>7. CASE q \in linked[p] /\ q \notin queried /\ Tells(q)
      <3>1. more(q) = <<>> \o <<m>> BY <2>7
      <3>2. wire'[p][q] = Append(s, m)
        <4>1. s \o (<<>> \o <<m>>) = Append(s, m) BY <2>1, <2>3, Behind
        <4> QED BY <2>2, <3>1, <4>1, Zenon
      <3>3. m \in Plain => Ends(Append(s, m), m) /\ ~Silent(Append(s, m)) BY <2>1, AppendPlain
      <3>4. Asks(s) => Asks(Append(s, m)) BY <2>1, <2>3, AppendPlain, AppendOther
      <3> QED BY <2>7, <3>2, <3>3, <3>4 DEF s
    <2>8. CASE q \in linked[p] /\ q \in queried /\ Tells(q)
      <3>1. more(q) = <<"QUERY">> \o <<m>> BY <2>8
      <3> DEFINE r == Append(s, "QUERY")
      <3>2. wire'[p][q] = Append(r, m)
        <4>1. s \o (<<"QUERY">> \o <<m>>) = Append(Append(s, "QUERY"), m) BY <2>1, <2>3, Behind
        <4> QED BY <2>2, <3>1, <4>1, Zenon
      <3>3. r \in Seq(Words) /\ Asks(r) BY <2>1, <2>3, AppendOther
      <3> HIDE DEF r
      <3>4. m \in Plain => Ends(Append(r, m), m) /\ ~Silent(Append(r, m)) BY <3>3, AppendPlain
      <3>5. Asks(Append(r, m)) BY <2>3, <3>3, AppendPlain, AppendOther
      <3> QED BY <2>8, <3>2, <3>4, <3>5
    <2> QED BY <2>4, <2>5, <2>6, <2>7, <2>8
  <1>7. ASSUME NEW x \in Peer, NEW y \in Peer,
               y \in linked'[x], x \in linked'[y], <<y, x>> \notin recalled',
               Said(node'[y], x) # "FORCE_ALL_SET"
        PROVE  Hears(wire'[y][x], Asks(wire'[x][y]), node'[x], y, Said(node'[y], x))
    <2>1. x # y
      <3>1. x \notin linked[x] /\ linked'[x] \subseteq linked[x] BY DEF Sound, LinkSound
      <3> QED BY <1>7, <3>1
    <2>2. y \in linked[x] /\ x \in linked[y]
      <3>1. linked'[x] \subseteq linked[x] /\ linked'[y] \subseteq linked[y] OBVIOUS
      <3> QED BY <1>7, <3>1
    <2>3. Known(x, y) BY DEF Sound, KnownSound
    <2>4. CASE x = p
      <3>1. y # p /\ node'[y] = node[y] /\ linked'[y] = linked[y] /\ wire'[y][p] = w[y][p]
            /\ <<y, p>> \notin recalled
        BY <1>2, <1>7, <2>1, <2>4
      <3>2. Hears(w[y][p], Asks(w[p][y]) \/ y \in queried, n, y, Said(node[y], p))
        BY <1>7, <2>2, <2>4, <3>1
      <3>3. w[p][y] = wire[p][y] BY <3>1
      <3>4. Asks(w[p][y]) \/ y \in queried => Asks(wire'[p][y]) BY <1>6, <2>2, <2>4, <3>1, <3>3
      <3>5. (Asks(w[p][y]) \/ y \in queried) \in BOOLEAN /\ Asks(wire'[p][y]) \in BOOLEAN BY DEF Asks
      <3>6. WaitsFor(node'[p], y) => WaitsFor(n, y) /\ node'[p].systems[y].received = n.systems[y].received
        BY <1>2
      <3>7. Hears(w[y][p], Asks(wire'[p][y]), node'[p], y, Said(node[y], p))
        <4> HIDE DEF more, Tells
        <4> QED BY <3>2, <3>4, <3>5, <3>6, HearsMore, Zenon
      <3> QED BY <2>4, <3>1, <3>7
    <2>5. CASE y = p
      <3>1. x # p /\ node'[x] = node[x] /\ wire'[x][p] = w[x][p] BY <1>2, <2>1, <2>5
      <3>2. Said(node'[p], x) = IF WaitsFor(n, x) THEN m ELSE "UNSET" BY <1>2 DEF Said
      <3>3. CASE Tells(x)
        <4>1. Said(node'[p], x) = m BY <3>2, <3>3
        <4>2. m \in Plain BY <1>2, <1>7, <2>5, <4>1 DEF Plain, Status
        <4>3. Ends(wire'[p][x], m) /\ ~Silent(wire'[p][x]) BY <1>6, <2>2, <2>5, <3>1, <3>3, <4>2
        <4> QED BY <2>5, <4>1, <4>3 DEF Hears
      <3>4. CASE ~Tells(x)
        <4>1. <<p, x>> \notin recalled \cup Recall(p, gone) BY <1>2, <1>7, <2>5, <3>4
        <4>2. Said(n, x) = Said(node[p], x) BY <4>1
        <4>3. Said(node'[p], x) = Said(node[p], x) BY <3>2, <3>4, <4>2 DEF Said
        <4>4. Hears(wire[p][x], Asks(wire[x][p]), node[x], p, Said(node[p], x))
          BY <1>7, <2>2, <2>3, <2>5, <4>1, <4>3 DEF Known
        <4>5. Asks(wire[x][p]) => Asks(wire'[x][p]) BY <3>1
        <4>6. /\ \A v : Ends(wire[p][x], v) => Ends(wire'[p][x], v)
              /\ Silent(wire'[p][x]) => Silent(wire[p][x])
          BY <1>6, <3>1, <3>4
        <4> QED BY <2>5, <3>1, <4>3, <4>4, <4>5, <4>6 DEF Hears
      <3> QED BY <3>3, <3>4
    <2>6. CASE x # p /\ y # p
      <3>1. /\ node'[x] = node[x] /\ node'[y] = node[y]
            /\ wire'[y][x] = wire[y][x] /\ wire'[x][y] = wire[x][y]
            /\ <<y, x>> \notin recalled
        <4>1. w[y][x] = wire[y][x] /\ w[x][y] = wire[x][y] BY <2>6
        <4>2. wire'[y][x] = w[y][x] /\ wire'[x][y] = w[x][y] /\ node'[x] = node[x] /\ node'[y] = node[y]
          BY <1>2, <2>6
        <4>3. <<y, x>> \notin recalled BY <1>2, <1>7, <2>6
        <4> QED BY <4>1, <4>2, <4>3
      <3> QED BY <1>7, <2>2, <2>3, <3>1 DEF Known
    <2> QED BY <2>4, <2>5, <2>6
  <1>8. KnownSound'
    BY SMTT(30), <1>7 DEF KnownSound, Known, Hears, Ends, Silent, Asks, Said, WaitsFor
  <1> QED BY <1>3, <1>4, <1>5, <1>8 DEF Sound

-----------------------------------------------------------------------------
(* Each step of the plugin.                                                *)

(* What the invariant says of one peer.                                    *)
LEMMA PeerFacts ==
  ASSUME Sound, NEW p \in Peer
  PROVE  /\ node \in [Peer -> Nodes] /\ node[p] \in Nodes /\ wire \in Wires
         /\ linked \in [Peer -> SUBSET Peer] /\ linked[p] \in SUBSET Peer /\ p \notin linked[p]
         /\ recalled \subseteq Peer \X Peer /\ budget \in Budgets
         /\ Exists(p) => node[p] \in Node
         /\ ~Exists(p) => node[p] = NoEvent
         /\ Informs(node[p], linked[p])
         /\ \A q \in Peer : /\ q # p /\ q \in linked[p] /\ p \in linked[q] /\ <<q, p>> \notin recalled
                            /\ Said(node[q], p) # "FORCE_ALL_SET"
                            => Hears(wire[q][p], Asks(wire[p][q]), node[p], q, Said(node[q], p))
  <1>1. /\ node \in [Peer -> Nodes] /\ linked \in [Peer -> SUBSET Peer] /\ wire \in Wires
        /\ recalled \subseteq Peer \X Peer /\ budget \in Budgets
    BY Types DEF Sound
  <1>2. node[p] \in Nodes /\ linked[p] \in SUBSET Peer BY <1>1
  <1>3. p \notin linked[p] /\ Informs(node[p], linked[p]) BY DEF Sound, LinkSound, SentSound
  <1>4. (Exists(p) => node[p] \in Node) /\ (~Exists(p) => node[p] = NoEvent) BY <1>2 DEF Exists, Nodes
  <1>5. \A q \in Peer : Known(p, q) BY DEF Sound, KnownSound
  <1> QED BY <1>1, <1>2, <1>3, <1>4, <1>5 DEF Known

(* A call spends the application's budget.                                 *)
LEMMA SpendFacts ==
  ASSUME budget \in Budgets, NEW kind \in {"set", "wait", "leave"}, Spend(kind)
  PROVE  budget' \in Budgets
  BY BudgetAssumption DEF Budgets, Spend

(* The node CreateNewEvent makes waits for nobody.                         *)
LEMMA CreatedFacts ==
  ASSUME NEW isReady \in BOOLEAN
  PROVE  /\ CreateNewEvent(isReady) \in Node /\ CreateNewEvent(isReady).status \in {"SET", "UNSET"}
         /\ \A q \in Peer : ~WaitsFor(CreateNewEvent(isReady), q)
  <1> DEFINE n == CreateNewEvent(isReady)
             f == [q \in Peer |-> NotWaiting]
  <1>1. n.systems = f /\ n.status = (IF isReady THEN "SET" ELSE "UNSET")
        /\ n = [status |-> IF isReady THEN "SET" ELSE "UNSET", systems |-> f]
    BY DEF CreateNewEvent, NoEvent
  <1>2. f \in [Peer -> RemoteSystem \cup {NotWaiting}] OBVIOUS
  <1>3. n.status \in {"SET", "UNSET"} /\ n.status \in Status BY <1>1 DEF Status
  <1>4. \A q \in Peer : ~WaitsFor(n, q) BY <1>1 DEF WaitsFor
  <1> HIDE DEF f
  <1>5. n \in Node BY <1>1, <1>2 DEF Node, Status
  <1> QED BY <1>3, <1>4, <1>5

(* A node with another status.                                             *)
LEMMA StatusFacts ==
  ASSUME NEW n \in Nodes, NEW m \in Status
  PROVE  /\ [n EXCEPT !.status = m] \in Node /\ [n EXCEPT !.status = m].status = m
         /\ [n EXCEPT !.status = m].systems = n.systems
         /\ \A q \in Peer : /\ WaitsFor([n EXCEPT !.status = m], q) <=> WaitsFor(n, q)
                            /\ Said([n EXCEPT !.status = m], q) = Said(n, q)
  <1> DEFINE k == [n EXCEPT !.status = m]
  <1>1. k \in Node /\ k.status = m /\ k.systems = n.systems BY DEF Nodes, Node, NoEvent
  <1> HIDE DEF k
  <1>2. \A q \in Peer : (WaitsFor(k, q) <=> WaitsFor(n, q)) /\ Said(k, q) = Said(n, q)
    BY <1>1 DEF WaitsFor, Said
  <1> QED BY <1>1, <1>2 DEF k

(* A node without the records of whom.                                     *)
LEMMA ForgetFacts ==
  ASSUME NEW n \in Node, NEW whom \in SUBSET Peer
  PROVE  /\ Forget(n, whom) \in Node /\ Forget(n, whom).status = n.status
         /\ \A q \in Peer : /\ WaitsFor(Forget(n, whom), q) <=> WaitsFor(n, q) /\ q \notin whom
                            /\ q \notin whom => Forget(n, whom).systems[q] = n.systems[q]
  <1> DEFINE k == Forget(n, whom)
             f == [q \in Peer |-> IF q \in whom THEN NotWaiting ELSE n.systems[q]]
  <1>1. k = [n EXCEPT !.systems = f] BY DEF Forget
  <1>2. f \in [Peer -> RemoteSystem \cup {NotWaiting}] BY DEF Node
  <1>3. \A q \in Peer : f[q] = IF q \in whom THEN NotWaiting ELSE n.systems[q] OBVIOUS
  <1> HIDE DEF f
  <1>4. k \in Node /\ k.status = n.status /\ k.systems = f BY <1>1, <1>2 DEF Node
  <1> HIDE DEF k
  <1> QED BY <1>3, <1>4 DEF WaitsFor, k

(* SetEvent.                                                               *)
LEMMA SetEventStep ==
  ASSUME Sound, NEW p \in Peer, NEW isReady \in BOOLEAN, SetEvent(p, isReady)
  PROVE  Sound'
  <1>1. linked' = linked /\ budget' \in Budgets
    <2>1. Spend("set") /\ linked' = linked BY DEF SetEvent
    <2> QED BY <2>1, PeerFacts, SpendFacts
  <1>2. CASE ~Exists(p)
    <2> DEFINE n == CreateNewEvent(isReady)
    <2>1. node' = [node EXCEPT ![p] = n] /\ wire' = wire /\ recalled' = recalled BY <1>2 DEF SetEvent
    <2>2. n \in Node /\ \A q \in Peer : ~WaitsFor(n, q) BY CreatedFacts
    <2> HIDE DEF n
    <2>3. n \in Nodes BY <2>2 DEF Nodes
    <2>4. \A q \in Peer : Said(n, q) = Said(node[p], q) BY <1>2, <2>2, PeerFacts, NodeFacts DEF Said
    <2>5. ASSUME NEW q \in Peer, q # p, q \in linked[p], p \in linked[q], <<q, p>> \notin recalled,
                 Said(node[q], p) # "FORCE_ALL_SET"
          PROVE  Hears(wire[q][p], Asks(wire[p][q]), n, q, Said(node[q], p))
      <3>1. Hears(wire[q][p], Asks(wire[p][q]), node[p], q, Said(node[q], p)) BY <2>5, PeerFacts
      <3> QED BY <2>2, <3>1 DEF Hears
    <2>6. Informs(n, linked[p]) BY <2>2 DEF Informs
    <2> QED BY <1>1, <2>1, <2>3, <2>4, <2>5, <2>6, PeerFacts, LocalStep
  <1>3. CASE Exists(p)
    <2> DEFINE m == IF isReady THEN "SET" ELSE "UNSET"
               n == [node[p] EXCEPT !.status = m]
    <2>1. UpdateReadyStatus(p, n, wire, {}, {}) BY <1>3 DEF SetEvent
    <2>2. m \in Status BY DEF Status
    <2> HIDE DEF m
    <2>3. /\ n \in Node /\ n.systems = node[p].systems
          /\ \A q \in Peer : (WaitsFor(n, q) <=> WaitsFor(node[p], q)) /\ Said(n, q) = Said(node[p], q)
      BY <2>2, PeerFacts, StatusFacts
    <2> HIDE DEF n
    <2>4. \A q \in Peer : WaitsFor(n, q) => q \in linked[p] BY <2>3, PeerFacts DEF Informs
    <2>5. ASSUME NEW q \in Peer, q # p, q \in linked[p], p \in linked[q], <<q, p>> \notin recalled,
                 Said(node[q], p) # "FORCE_ALL_SET"
          PROVE  Hears(wire[q][p], Asks(wire[p][q]) \/ q \in {}, n, q, Said(node[q], p))
      <3>1. Hears(wire[q][p], Asks(wire[p][q]), node[p], q, Said(node[q], p)) BY <2>5, PeerFacts
      <3> QED BY <2>3, <3>1 DEF Hears
    <2>6. {} \in SUBSET Peer OBVIOUS
    <2> QED BY <1>1, <2>1, <2>3, <2>4, <2>5, <2>6, PeerFacts, UpdateStep
  <1> QED BY <1>2, <1>3

(* ForceCompletion.                                                        *)
LEMMA ForceCompletionStep ==
  ASSUME Sound, NEW p \in Peer, ForceCompletion(p)
  PROVE  Sound'
  <1>1. linked' = linked /\ budget' \in Budgets
    <2>1. Spend("set") /\ linked' = linked BY DEF ForceCompletion
    <2> QED BY <2>1, PeerFacts, SpendFacts
  <1> DEFINE n == [node[p] EXCEPT !.status = "FORCE_ALL_SET"]
  <1>2. UpdateReadyStatus(p, n, wire, {}, {}) BY DEF ForceCompletion
  <1>3. "FORCE_ALL_SET" \in Status BY DEF Status
  <1>4. /\ n \in Node /\ n.systems = node[p].systems
        /\ \A q \in Peer : (WaitsFor(n, q) <=> WaitsFor(node[p], q)) /\ Said(n, q) = Said(node[p], q)
    BY <1>3, PeerFacts, StatusFacts
  <1> HIDE DEF n
  <1>5. \A q \in Peer : WaitsFor(n, q) => q \in linked[p] BY <1>4, PeerFacts DEF Informs
  <1>6. ASSUME NEW q \in Peer, q # p, q \in linked[p], p \in linked[q], <<q, p>> \notin recalled,
               Said(node[q], p) # "FORCE_ALL_SET"
        PROVE  Hears(wire[q][p], Asks(wire[p][q]) \/ q \in {}, n, q, Said(node[q], p))
    <2>1. Hears(wire[q][p], Asks(wire[p][q]), node[p], q, Said(node[q], p)) BY <1>6, PeerFacts
    <2> QED BY <1>4, <2>1 DEF Hears
  <1>7. {} \in SUBSET Peer OBVIOUS
  <1> QED BY <1>1, <1>2, <1>4, <1>5, <1>6, <1>7, PeerFacts, UpdateStep

(* DeleteEvent: what was told is recalled.                                 *)
LEMMA DeleteEventStep ==
  ASSUME Sound, NEW p \in Peer, DeleteEvent(p)
  PROVE  Sound'
  <1>1. linked' = linked /\ wire' = wire /\ budget' \in Budgets
    <2>1. Spend("leave") /\ linked' = linked /\ wire' = wire BY DEF DeleteEvent
    <2> QED BY <2>1, PeerFacts, SpendFacts
  <1>2. node' = [node EXCEPT ![p] = NoEvent] /\ recalled' = recalled \cup Recall(p, Peer) BY DEF DeleteEvent
  <1>3. recalled' \subseteq Peer \X Peer /\ recalled \subseteq recalled' BY <1>2, PeerFacts, RecallFacts
  <1>4. NoEvent \in Nodes BY DEF Nodes
  <1>5. \A q \in Peer : ~WaitsFor(NoEvent, q) BY <1>4, NodeFacts
  <1>6. \A q \in Peer : Said(NoEvent, q) = Said(node[p], q) \/ <<p, q>> \in recalled'
    <2> TAKE q \in Peer
    <2>1. Said(NoEvent, q) = "UNSET" BY <1>5 DEF Said
    <2>2. CASE WaitsFor(node[p], q) /\ node[p].systems[q].sent # "UNSET"
      <3>1. <<p, q>> \in Recall(p, Peer) BY <2>2, RecallFacts
      <3> QED BY <1>2, <3>1
    <2>3. CASE ~(WaitsFor(node[p], q) /\ node[p].systems[q].sent # "UNSET") BY <2>1, <2>3 DEF Said
    <2> QED BY <2>2, <2>3
  <1>7. ASSUME NEW q \in Peer, q # p, q \in linked[p], p \in linked[q], <<q, p>> \notin recalled,
               Said(node[q], p) # "FORCE_ALL_SET"
        PROVE  Hears(wire[q][p], Asks(wire[p][q]), NoEvent, q, Said(node[q], p))
    <2>1. Hears(wire[q][p], Asks(wire[p][q]), node[p], q, Said(node[q], p)) BY <1>7, PeerFacts
    <2> QED BY <1>5, <2>1 DEF Hears
  <1>8. Informs(NoEvent, linked[p]) BY <1>5 DEF Informs
  <1> QED BY <1>1, <1>2, <1>3, <1>4, <1>6, <1>7, <1>8, PeerFacts, LocalStep

(* AddToWaitList: a new waiter is asked.                                   *)
LEMMA AddToWaitListStep ==
  ASSUME Sound, NEW p \in Peer, NEW whom \in SUBSET Peer, whom \subseteq linked[p], AddToWaitList(p, whom)
  PROVE  Sound'
  <1>1. linked' = linked /\ budget' \in Budgets
    <2>1. Spend("wait") /\ linked' = linked BY DEF AddToWaitList
    <2> QED BY <2>1, PeerFacts, SpendFacts
  <1> DEFINE n == IF Exists(p) THEN node[p] ELSE CreateNewEvent(FALSE)
             added == {q \in whom : ~WaitsFor(n, q)}
             fresh == [sent |-> "UNSET", received |-> "UNSET"]
             f == [q \in Peer |-> IF q \in added THEN fresh ELSE n.systems[q]]
             joined == [n EXCEPT !.systems = f]
  <1>2. IF added # {} THEN UpdateReadyStatus(p, joined, wire, added, {})
        ELSE node' = [node EXCEPT ![p] = n] /\ wire' = wire /\ recalled' = recalled
    BY DEF AddToWaitList
  <1>3. n \in Node
    <2>1. CASE Exists(p) BY <2>1, PeerFacts
    <2>2. CASE ~Exists(p)
      <3>1. CreateNewEvent(FALSE) \in Node BY CreatedFacts
      <3> QED BY <2>2, <3>1
    <2> QED BY <2>1, <2>2
  <1>4. \A q \in Peer : /\ WaitsFor(n, q) <=> WaitsFor(node[p], q)
                        /\ WaitsFor(n, q) => n = node[p]
    <2>1. CASE Exists(p) BY <2>1
    <2>2. CASE ~Exists(p)
      <3>1. \A q \in Peer : ~WaitsFor(CreateNewEvent(FALSE), q) BY CreatedFacts
      <3>2. \A q \in Peer : ~WaitsFor(node[p], q) BY <2>2, PeerFacts, NodeFacts
      <3> QED BY <2>2, <3>1, <3>2
    <2> QED BY <2>1, <2>2
  <1>5. \A q \in Peer : Said(n, q) = Said(node[p], q) BY <1>4 DEF Said
  <1>6. Informs(n, linked[p]) BY <1>4, PeerFacts DEF Informs
  <1>7. ASSUME NEW q \in Peer, q # p, q \in linked[p], p \in linked[q], <<q, p>> \notin recalled,
               Said(node[q], p) # "FORCE_ALL_SET"
        PROVE  Hears(wire[q][p], Asks(wire[p][q]), n, q, Said(node[q], p))
    <2>1. Hears(wire[q][p], Asks(wire[p][q]), node[p], q, Said(node[q], p)) BY <1>7, PeerFacts
    <2> QED BY <1>4, <2>1 DEF Hears
  <1> HIDE DEF n
  <1>8. CASE added = {}
    <2>1. node' = [node EXCEPT ![p] = n] /\ wire' = wire /\ recalled' = recalled BY <1>2, <1>8
    <2>2. n \in Nodes BY <1>3 DEF Nodes
    <2> HIDE DEF added
    <2> QED BY <1>1, <1>5, <1>6, <1>7, <2>1, <2>2, PeerFacts, LocalStep
  <1>9. CASE added # {}
    <2>1. UpdateReadyStatus(p, joined, wire, added, {}) BY <1>2, <1>9
    <2>2. added \in SUBSET Peer /\ added \subseteq linked[p] OBVIOUS
    <2>3. fresh \in RemoteSystem /\ fresh.sent = "UNSET" /\ fresh.received = "UNSET"
      BY DEF RemoteSystem, Status
    <2> HIDE DEF fresh
    <2>4. f \in [Peer -> RemoteSystem \cup {NotWaiting}] BY <1>3, <2>3 DEF Node
    <2>5. \A q \in Peer : f[q] = IF q \in added THEN fresh ELSE n.systems[q] OBVIOUS
    <2>6. \A q \in added : ~WaitsFor(n, q) OBVIOUS
    <2> HIDE DEF f, added
    <2>7. joined \in Node /\ joined.systems = f /\ joined.status = n.status BY <1>3, <2>4 DEF Node
    <2> HIDE DEF joined
    <2>8. \A q \in Peer : q \in added => WaitsFor(joined, q) BY <2>3, <2>5, <2>7, Listed
    <2>9. \A q \in Peer : q \notin added => joined.systems[q] = n.systems[q]
                                            /\ (WaitsFor(joined, q) <=> WaitsFor(n, q))
      BY <2>5, <2>7 DEF WaitsFor
    <2>10. \A q \in Peer : WaitsFor(joined, q) => q \in linked[p]
      BY <1>6, <2>2, <2>9 DEF Informs
    <2>11. \A q \in Peer : Said(joined, q) = Said(node[p], q)
      <3> TAKE q \in Peer
      <3>1. CASE q \in added
        <4>1. Said(joined, q) = "UNSET" BY <2>3, <2>5, <2>7, <3>1 DEF Said
        <4>2. Said(node[p], q) = "UNSET" BY <1>5, <2>6, <3>1 DEF Said
        <4> QED BY <4>1, <4>2
      <3>2. CASE q \notin added
        <4>1. Said(joined, q) = Said(n, q) BY <2>9, <3>2 DEF Said
        <4> QED BY <1>5, <4>1
      <3> QED BY <3>1, <3>2
    <2>12. ASSUME NEW q \in Peer, q # p, q \in linked[p], p \in linked[q], <<q, p>> \notin recalled,
                  Said(node[q], p) # "FORCE_ALL_SET"
           PROVE  Hears(wire[q][p], Asks(wire[p][q]) \/ q \in added, joined, q, Said(node[q], p))
      <3>1. Hears(wire[q][p], Asks(wire[p][q]), n, q, Said(node[q], p)) BY <1>7, <2>12
      <3>2. CASE q \in added
        <4>1. joined.systems[q].received = "UNSET" BY <2>3, <2>5, <2>7, <3>2
        <4> QED BY <3>1, <3>2, <4>1 DEF Hears
      <3>3. CASE q \notin added BY <2>9, <3>1, <3>3 DEF Hears
      <3> QED BY <3>2, <3>3
    <2>13. {} \in SUBSET Peer OBVIOUS
    <2> QED BY <1>1, <2>1, <2>2, <2>7, <2>10, <2>11, <2>12, <2>13, PeerFacts, UpdateStep
  <1> QED BY <1>8, <1>9

(* RemoveFromWaitList: what was told to those that go is recalled.         *)
LEMMA RemoveFromWaitListStep ==
  ASSUME Sound, NEW p \in Peer, NEW whom \in SUBSET Peer, RemoveFromWaitList(p, whom)
  PROVE  Sound'
  <1>1. linked' = linked /\ budget' \in Budgets /\ Exists(p)
    <2>1. Spend("wait") /\ linked' = linked /\ Exists(p) BY DEF RemoveFromWaitList
    <2> QED BY <2>1, PeerFacts, SpendFacts
  <1> DEFINE n == Forget(node[p], whom)
  <1>2. UpdateReadyStatus(p, n, wire, {}, whom) BY DEF RemoveFromWaitList
  <1>3. /\ n \in Node
        /\ \A q \in Peer : /\ WaitsFor(n, q) <=> WaitsFor(node[p], q) /\ q \notin whom
                           /\ q \notin whom => n.systems[q] = node[p].systems[q]
    BY <1>1, PeerFacts, ForgetFacts
  <1> HIDE DEF n
  <1>4. \A q \in Peer : WaitsFor(n, q) => q \in linked[p] BY <1>3, PeerFacts DEF Informs
  <1>5. \A q \in Peer : Said(n, q) = Said(node[p], q) \/ <<p, q>> \in recalled \cup Recall(p, whom)
    <2> TAKE q \in Peer
    <2>1. CASE q \in whom /\ WaitsFor(node[p], q) /\ node[p].systems[q].sent # "UNSET"
      BY <2>1, RecallFacts
    <2>2. CASE ~(q \in whom /\ WaitsFor(node[p], q) /\ node[p].systems[q].sent # "UNSET")
      BY <1>3, <2>2 DEF Said
    <2> QED BY <2>1, <2>2
  <1>6. ASSUME NEW q \in Peer, q # p, q \in linked[p], p \in linked[q], <<q, p>> \notin recalled,
               Said(node[q], p) # "FORCE_ALL_SET"
        PROVE  Hears(wire[q][p], Asks(wire[p][q]) \/ q \in {}, n, q, Said(node[q], p))
    <2>1. Hears(wire[q][p], Asks(wire[p][q]), node[p], q, Said(node[q], p)) BY <1>6, PeerFacts
    <2> QED BY <1>3, <2>1 DEF Hears
  <1>7. {} \in SUBSET Peer OBVIOUS
  <1> QED BY <1>1, <1>2, <1>3, <1>4, <1>5, <1>6, <1>7, PeerFacts, UpdateStep

(* The wires after p has handled the oldest message of q.                  *)
LEMMA HandledFacts ==
  ASSUME Sound, NEW p \in Peer, NEW q \in Peer, Arrives(p, q), NEW out \in Seq(Words),
         Handled(p, q, out)
  PROVE  /\ p # q /\ wire' \in Wires
         /\ wire'[q][p] = Tail(wire[q][p]) /\ wire'[p][q] = wire[p][q] \o out
         /\ \A x, y \in Peer : ~(x = q /\ y = p) /\ ~(x = p /\ y = q) => wire'[x][y] = wire[x][y]
  <1>1. wire \in Wires /\ p # q /\ wire[q][p] # <<>> BY PeerFacts DEF Arrives
  <1>2. wire[q][p] \in Seq(Words) /\ wire[p][q] \in Seq(Words) BY <1>1 DEF Wires
  <1>3. Tail(wire[q][p]) \in Seq(Words) /\ wire[p][q] \o out \in Seq(Words) BY <1>1, <1>2
  <1>4. wire' = [wire EXCEPT ![q][p] = Tail(@), ![p][q] = @ \o out] BY DEF Handled
  <1> DEFINE a == Tail(wire[q][p])
             b == wire[p][q] \o out
  <1>5. wire' = [wire EXCEPT ![q][p] = a, ![p][q] = b] BY <1>1, <1>4 DEF Wires
  <1> HIDE DEF a, b
  <1>6. a \in Seq(Words) /\ b \in Seq(Words) BY <1>3 DEF a, b
  <1>7. wire' \in Wires BY <1>1, <1>5, <1>6 DEF Wires
  <1>8. wire'[q][p] = a /\ wire'[p][q] = b BY <1>1, <1>5 DEF Wires
  <1>9. \A x, y \in Peer : ~(x = q /\ y = p) /\ ~(x = p /\ y = q) => wire'[x][y] = wire[x][y]
    BY <1>1, <1>5 DEF Wires
  <1> QED BY <1>1, <1>7, <1>8, <1>9 DEF a, b

(* What p still hears of q once it has handled the oldest message, which   *)
(* was no status or is the one recorded.                                   *)
LEMMA HearsRest ==
  ASSUME NEW s \in Seq(Words), s # <<>>, NEW a \in BOOLEAN, NEW n, NEW m, NEW q, NEW v,
         Hears(s, a, n, q, v), WaitsFor(m, q) => WaitsFor(n, q),
         \/ Head(s) \notin Plain /\ (WaitsFor(m, q) => m.systems[q].received = n.systems[q].received)
         \/ Head(s) \in Plain /\ (WaitsFor(m, q) => m.systems[q].received = Head(s))
  PROVE  Hears(Tail(s), a, m, q, v)
  <1>1. /\ Ends(s, v) => Ends(Tail(s), v)
        /\ Silent(Tail(s)) /\ Head(s) \notin Plain => Silent(s)
        /\ Ends(s, v) /\ Silent(Tail(s)) /\ Head(s) \in Plain => Head(s) = v
    BY TailWords
  <1>2. CASE Head(s) \notin Plain BY <1>1, <1>2 DEF Hears
  <1>3. CASE Head(s) \in Plain BY <1>1, <1>3 DEF Hears
  <1> QED BY <1>2, <1>3

(* A message that changes at most what p has recorded, and its status only *)
(* to a forced one.                                                        *)
LEMMA NoteStep ==
  ASSUME Sound, NEW p \in Peer, NEW q \in Peer, Arrives(p, q), Head(wire[q][p]) # "QUERY",
         Handled(p, q, <<>>), NEW n \in Nodes, node' = [node EXCEPT ![p] = n],
         n.status \in {node[p].status, "FORCE_ALL_SET"},
         \A r \in Peer : WaitsFor(n, r) <=> WaitsFor(node[p], r),
         \A r \in Peer : WaitsFor(n, r) => n.systems[r].sent = node[p].systems[r].sent,
         \A r \in Peer : r # q /\ WaitsFor(n, r) => n.systems[r].received = node[p].systems[r].received,
         \/ Head(wire[q][p]) \notin Plain
            /\ (WaitsFor(n, q) => n.systems[q].received = node[p].systems[q].received)
         \/ Head(wire[q][p]) \in Plain /\ (WaitsFor(n, q) => n.systems[q].received = Head(wire[q][p])),
         UNCHANGED <<linked, recalled, budget>>
  PROVE  Sound'
  <1>1. <<>> \in Seq(Words) OBVIOUS
  <1>2. /\ p # q /\ wire' \in Wires
        /\ wire'[q][p] = Tail(wire[q][p]) /\ wire'[p][q] = wire[p][q] \o <<>>
        /\ \A x, y \in Peer : ~(x = q /\ y = p) /\ ~(x = p /\ y = q) => wire'[x][y] = wire[x][y]
    BY <1>1, HandledFacts
  <1>3. wire[q][p] \in Seq(Words) /\ wire[p][q] \in Seq(Words) /\ wire[q][p] # <<>>
    BY PeerFacts DEF Wires, Arrives
  <1>4. wire'[p][q] = wire[p][q]
    <2>1. wire[p][q] \o <<>> = wire[p][q] BY <1>3
    <2> QED BY <1>2, <2>1, Zenon
  <1>5. Asks(wire[q][p]) => Asks(wire'[q][p]) BY <1>2, <1>3, TailWords
  <1>6. \A r \in Peer : Asks(wire[r][p]) => Asks(wire'[r][p])
    <2> TAKE r \in Peer
    <2>1. CASE r = q BY <1>5, <2>1
    <2>2. CASE r # q
      <3>1. wire'[r][p] = wire[r][p] BY <1>2, <2>2
      <3> QED BY <3>1
    <2> QED BY <2>1, <2>2
  <1>7. \A x, r \in Peer : r # p => wire'[x][r] = wire[x][r] BY <1>2, <1>4
  <1>8. Informs(n, linked'[p])
    <2>1. linked' = linked /\ Informs(node[p], linked[p]) BY PeerFacts
    <2> QED BY <2>1 DEF Informs
  <1>9. \A r \in Peer : Said(n, r) = Said(node[p], r) BY DEF Said
  <1>10. ASSUME NEW r \in Peer, r # p, r \in linked'[p], p \in linked[r], <<r, p>> \notin recalled,
                Said(node[r], p) # "FORCE_ALL_SET"
         PROVE  Hears(wire'[r][p], Asks(wire'[p][r]), n, r, Said(node[r], p))
    <2>1. linked' = linked OBVIOUS
    <2>2. Hears(wire[r][p], Asks(wire[p][r]), node[p], r, Said(node[r], p)) BY <1>10, <2>1, PeerFacts
    <2>3. wire'[p][r] = wire[p][r] BY <1>7, <1>10
    <2>4. CASE r = q
      <3>1. Asks(wire[p][q]) \in BOOLEAN BY DEF Asks
      <3>2. Hears(Tail(wire[q][p]), Asks(wire[p][q]), n, q, Said(node[q], p))
        BY <1>3, <2>2, <2>4, <3>1, HearsRest
      <3> QED BY <1>2, <2>3, <2>4, <3>2
    <2>5. CASE r # q
      <3>1. wire'[r][p] = wire[r][p] BY <1>2, <2>5
      <3>2. Hears(wire[r][p], Asks(wire[p][r]), n, r, Said(node[r], p)) BY <2>2, <2>5 DEF Hears
      <3> QED BY <2>3, <3>1, <3>2
    <2> QED BY <2>4, <2>5
  <1> DEFINE w == wire'
  <1>11. w \in Wires /\ wire' = w BY <1>2
  <1>12. /\ linked' = linked /\ recalled' = recalled /\ budget' = budget OBVIOUS
  <1>13. /\ linked' \in [Peer -> SUBSET Peer] /\ linked'[p] \subseteq linked[p] /\ budget' \in Budgets
         /\ recalled \subseteq recalled' /\ recalled' \subseteq Peer \X Peer
         /\ \A x \in Peer : x # p => linked'[x] = linked[x]
    BY <1>12, PeerFacts
  <1> QED BY <1>6, <1>7, <1>8, <1>9, <1>10, <1>11, <1>13, LocalStep

(* OnReadyEventForceAllSet.                                                *)
LEMMA OnReadyEventForceAllSetStep ==
  ASSUME Sound, NEW p \in Peer, NEW q \in Peer, OnReadyEventForceAllSet(p, q)
  PROVE  Sound'
  <1>1. /\ Arrives(p, q) /\ Head(wire[q][p]) = "FORCE_ALL_SET" /\ Handled(p, q, <<>>)
        /\ node' = IF Exists(p) THEN [node EXCEPT ![p].status = "FORCE_ALL_SET"] ELSE node
        /\ UNCHANGED <<linked, recalled, budget>>
    BY DEF OnReadyEventForceAllSet
  <1>2. Head(wire[q][p]) # "QUERY" /\ Head(wire[q][p]) \notin Plain BY <1>1 DEF Plain
  <1>3. node \in [Peer -> Nodes] BY PeerFacts
  <1>4. CASE Exists(p)
    <2> DEFINE n == [node[p] EXCEPT !.status = "FORCE_ALL_SET"]
    <2>1. node' = [node EXCEPT ![p] = n] BY <1>1, <1>3, <1>4
    <2>2. "FORCE_ALL_SET" \in Status BY DEF Status
    <2>3. /\ n \in Node /\ n.status = "FORCE_ALL_SET" /\ n.systems = node[p].systems
          /\ \A r \in Peer : WaitsFor(n, r) <=> WaitsFor(node[p], r)
      BY <2>2, PeerFacts, StatusFacts
    <2> HIDE DEF n
    <2>4. n \in Nodes BY <2>3 DEF Nodes
    <2> QED BY <1>1, <1>2, <2>1, <2>3, <2>4, NoteStep
  <1>5. CASE ~Exists(p)
    <2>1. node' = [node EXCEPT ![p] = node[p]] /\ node[p] \in Nodes BY <1>1, <1>3, <1>5
    <2> QED BY <1>1, <1>2, <2>1, NoteStep
  <1> QED BY <1>4, <1>5

(* The node once the status m of q is noted.                               *)
LEMMA NotedFacts ==
  ASSUME NEW n \in Nodes, NEW q \in Peer, WaitsFor(n, q), NEW m \in Status
  PROVE  LET k == [n EXCEPT !.systems[q].received = m]
         IN  /\ k \in Node /\ k.status = n.status
             /\ \A r \in Peer : /\ WaitsFor(k, r) <=> WaitsFor(n, r)
                                /\ r # q => k.systems[r] = n.systems[r]
             /\ k.systems[q].received = m /\ k.systems[q].sent = n.systems[q].sent
  <1> DEFINE s == [n.systems[q] EXCEPT !.received = m]
             f == [n.systems EXCEPT ![q] = s]
             k == [n EXCEPT !.systems = f]
  <1>1. n \in Node /\ n.systems[q] \in RemoteSystem /\ n.systems \in [Peer -> RemoteSystem \cup {NotWaiting}]
    BY NodeFacts
  <1>2. s \in RemoteSystem /\ s.received = m /\ s.sent = n.systems[q].sent BY <1>1 DEF RemoteSystem
  <1>3. [n EXCEPT !.systems[q].received = m] = k BY <1>1 DEF Node
  <1> HIDE DEF s
  <1>4. f \in [Peer -> RemoteSystem \cup {NotWaiting}] /\ f[q] = s
        /\ \A r \in Peer : r # q => f[r] = n.systems[r]
    BY <1>1, <1>2
  <1> HIDE DEF f
  <1>5. k \in Node /\ k.status = n.status /\ k.systems = f BY <1>1, <1>4 DEF Node
  <1> HIDE DEF k
  <1>6. WaitsFor(k, q) BY <1>2, <1>4, <1>5, Listed
  <1>7. \A r \in Peer : WaitsFor(k, r) <=> WaitsFor(n, r) BY <1>4, <1>5, <1>6 DEF WaitsFor
  <1> QED BY <1>2, <1>3, <1>4, <1>5, <1>7

(* OnReadyEventPacketUpdate.                                               *)
LEMMA OnReadyEventPacketUpdateStep ==
  ASSUME Sound, NEW p \in Peer, NEW q \in Peer, OnReadyEventPacketUpdate(p, q)
  PROVE  Sound'
  <1> DEFINE m == Head(wire[q][p])
             news == WaitsFor(node[p], q) /\ node[p].systems[q].received # m
             noted == [node[p] EXCEPT !.systems[q].received = m]
  <1>1. /\ Arrives(p, q) /\ m \in Plain /\ linked' = linked /\ budget' = budget
        /\ IF news /\ node[p].status # "FORCE_ALL_SET"
           THEN UpdateReadyStatus(p, noted, [wire EXCEPT ![q][p] = Tail(@)], {}, {})
           ELSE /\ Handled(p, q, <<>>) /\ recalled' = recalled
                /\ node' = IF news THEN [node EXCEPT ![p] = noted] ELSE node
    BY DEF OnReadyEventPacketUpdate, Plain
  <1>2. m \in Status /\ m # "QUERY" BY <1>1 DEF Plain, Status
  <1>3. node \in [Peer -> Nodes] /\ node[p] \in Nodes /\ p # q /\ wire \in Wires
    BY <1>1, PeerFacts DEF Arrives
  <1>4. CASE news
    <2>1. /\ noted \in Node /\ noted.status = node[p].status
          /\ \A r \in Peer : /\ WaitsFor(noted, r) <=> WaitsFor(node[p], r)
                             /\ r # q => noted.systems[r] = node[p].systems[r]
          /\ noted.systems[q].received = m /\ noted.systems[q].sent = node[p].systems[q].sent
      <3>1. WaitsFor(node[p], q) BY <1>4
      <3> HIDE DEF m, news
      <3> QED BY <1>2, <1>3, <3>1, NotedFacts
    <2>2. noted \in Nodes BY <2>1 DEF Nodes
    <2> HIDE DEF noted
    <2>3. CASE node[p].status = "FORCE_ALL_SET"
      BY <1>1, <1>2, <1>4, <2>1, <2>2, <2>3, NoteStep
    <2>4. CASE node[p].status # "FORCE_ALL_SET"
      <3> DEFINE s == wire[q][p]
                 w == [wire EXCEPT ![q][p] = Tail(s)]
      <3>1. s \in Seq(Words) /\ s # <<>> BY <1>1, <1>3 DEF Wires, Arrives
      <3>2. Tail(s) \in Seq(Words) BY <3>1
      <3>3. w \in Wires /\ w[q][p] = Tail(s) /\ \A x, r \in Peer : ~(x = q /\ r = p) => w[x][r] = wire[x][r]
        <4> DEFINE t == Tail(s)
        <4>1. t \in Seq(Words) BY <3>2
        <4>2. w = [wire EXCEPT ![q][p] = t] OBVIOUS
        <4>3. w[q][p] = t BY <1>3, <4>2 DEF Wires
        <4> HIDE DEF t, w
        <4>4. w \in Wires BY <1>3, <4>1, <4>2 DEF Wires
        <4>5. \A x, r \in Peer : ~(x = q /\ r = p) => w[x][r] = wire[x][r] BY <1>3, <4>2 DEF Wires
        <4> QED BY <4>3, <4>4, <4>5 DEF t
      <3>4. UpdateReadyStatus(p, noted, w, {}, {}) BY <1>1, <1>3, <1>4, <2>4 DEF Wires
      <3>5. Asks(s) => Asks(Tail(s)) BY <1>2, <3>1, TailWords
      <3>6. \A r \in Peer : Asks(wire[r][p]) => Asks(w[r][p])
        <4> HIDE DEF w
        <4> TAKE r \in Peer
        <4>1. CASE r = q BY <3>3, <3>5, <4>1
        <4>2. CASE r # q
          <5>1. w[r][p] = wire[r][p] BY <3>3, <4>2
          <5> QED BY <5>1
        <4> QED BY <4>1, <4>2
      <3>7. \A x, r \in Peer : r # p => w[x][r] = wire[x][r] BY <3>3
      <3> HIDE DEF w
      <3>8. \A r \in Peer : WaitsFor(noted, r) => r \in linked[p] BY <2>1, PeerFacts DEF Informs
      <3>9. \A r \in Peer : Said(noted, r) = Said(node[p], r) BY <2>1 DEF Said
      <3>10. ASSUME NEW r \in Peer, r # p, r \in linked[p], p \in linked[r], <<r, p>> \notin recalled,
                    Said(node[r], p) # "FORCE_ALL_SET"
             PROVE  Hears(w[r][p], Asks(w[p][r]) \/ r \in {}, noted, r, Said(node[r], p))
        <4>1. Hears(wire[r][p], Asks(wire[p][r]), node[p], r, Said(node[r], p)) BY <3>10, PeerFacts
        <4>2. w[p][r] = wire[p][r] BY <3>7, <3>10
        <4>3. CASE r = q
          <5>1. Asks(wire[p][q]) \in BOOLEAN BY DEF Asks
          <5>2. Hears(Tail(s), Asks(wire[p][q]), noted, q, Said(node[q], p))
            BY <1>1, <2>1, <3>1, <4>1, <4>3, <5>1, HearsRest
          <5> QED BY <3>3, <4>2, <4>3, <5>2 DEF Hears
        <4>4. CASE r # q
          <5>1. w[r][p] = wire[r][p] BY <3>3, <4>4
          <5>2. Hears(wire[r][p], Asks(wire[p][r]), noted, r, Said(node[r], p)) BY <2>1, <4>1, <4>4 DEF Hears
          <5> QED BY <4>2, <5>1, <5>2 DEF Hears
        <4> QED BY <4>3, <4>4
      <3>11. {} \in SUBSET Peer OBVIOUS
      <3> QED BY <1>1, <2>1, <3>3, <3>4, <3>6, <3>7, <3>8, <3>9, <3>10, <3>11, PeerFacts, UpdateStep
    <2> QED BY <2>3, <2>4
  <1>5. CASE ~news
    <2>1. node' = [node EXCEPT ![p] = node[p]] BY <1>1, <1>3, <1>5
    <2>2. WaitsFor(node[p], q) => node[p].systems[q].received = m BY <1>5
    <2>3. Handled(p, q, <<>>) /\ recalled' = recalled BY <1>1, <1>5
    <2> HIDE DEF news, noted
    <2> QED BY <1>1, <1>2, <1>3, <2>1, <2>2, <2>3, NoteStep
  <1> QED BY <1>4, <1>5

(* OnReadyEventQuery: the reader is told, or UNSET is what it was told.    *)
LEMMA OnReadyEventQueryStep ==
  ASSUME Sound, NEW p \in Peer, NEW q \in Peer, OnReadyEventQuery(p, q)
  PROVE  Sound'
  <1> DEFINE m == node[p].status
             answer == WaitsFor(node[p], q) /\ m # "UNSET"
             out == IF answer THEN <<m>> ELSE <<>>
             n == IF answer THEN Told(node[p], {q}) ELSE node[p]
  <1>1. /\ Arrives(p, q) /\ Head(wire[q][p]) = "QUERY" /\ Handled(p, q, out)
        /\ node' = IF answer THEN [node EXCEPT ![p] = Told(@, {q})] ELSE node
        /\ recalled' = IF answer THEN recalled \ {<<p, q>>} ELSE recalled
        /\ linked' = linked /\ budget' = budget
    BY DEF OnReadyEventQuery
  <1>2. /\ node \in [Peer -> Nodes] /\ node[p] \in Nodes /\ p # q /\ wire \in Wires
        /\ recalled \subseteq Peer \X Peer /\ linked \in [Peer -> SUBSET Peer] /\ budget \in Budgets
    BY <1>1, PeerFacts DEF Arrives
  <1>3. answer => m \in Status /\ m \in Words /\ node[p] \in Node BY <1>2, NodeFacts DEF Words
  <1>4. out \in Seq(Words)
    <2>1. CASE answer
      <3>1. m \in Words BY <1>3, <2>1
      <3> HIDE DEF m, answer
      <3>2. <<m>> \in Seq(Words) BY <3>1
      <3> QED BY <2>1, <3>2
    <2>2. CASE ~answer BY <2>2
    <2> QED BY <2>1, <2>2
  <1>5. /\ wire' \in Wires
        /\ wire'[q][p] = Tail(wire[q][p]) /\ wire'[p][q] = wire[p][q] \o out
        /\ \A x, y \in Peer : ~(x = q /\ y = p) /\ ~(x = p /\ y = q) => wire'[x][y] = wire[x][y]
    <2> HIDE DEF out
    <2> QED BY <1>1, <1>4, HandledFacts
  <1>6. /\ n \in Nodes /\ n.status = m
        /\ \A r \in Peer :
             /\ WaitsFor(n, r) <=> WaitsFor(node[p], r)
             /\ WaitsFor(n, r) => n.systems[r].received = node[p].systems[r].received
             /\ r # q => n.systems[r] = node[p].systems[r]
        /\ answer => n.systems[q].sent = m
        /\ ~answer => n = node[p]
    <2>1. CASE answer
      <3>1. {q} \in SUBSET Peer /\ \A r \in {q} : WaitsFor(node[p], r) BY <2>1
      <3> DEFINE t == Told(node[p], {q})
      <3>2. /\ t \in Node /\ t.status = m
            /\ \A r \in Peer :
                 /\ WaitsFor(t, r) <=> WaitsFor(node[p], r)
                 /\ WaitsFor(node[p], r) => t.systems[r].received = node[p].systems[r].received
                 /\ r \in {q} => t.systems[r].sent = m
                 /\ r \notin {q} => t.systems[r] = node[p].systems[r]
        BY <1>3, <2>1, <3>1, ToldFacts
      <3>3. n = t BY <2>1
      <3> HIDE DEF t, answer, n
      <3>4. t \in Nodes BY <3>2 DEF Nodes
      <3> QED BY <2>1, <3>2, <3>3, <3>4
    <2>2. CASE ~answer BY <1>2, <2>2
    <2> QED BY <2>1, <2>2
  <1>7. node' = [node EXCEPT ![p] = n] BY <1>1, <1>2
  <1> HIDE DEF n
  <1>8. node' \in [Peer -> Nodes] /\ node'[p] = n /\ \A x \in Peer : x # p => node'[x] = node[x]
    BY <1>2, <1>6, <1>7
  <1>9. recalled' \subseteq recalled /\ \A x, y \in Peer : ~(x = p /\ y = q) /\ <<x, y>> \notin recalled'
                                                           => <<x, y>> \notin recalled
    BY <1>1
  <1>10. TypeOK' BY <1>1, <1>2, <1>5, <1>8, <1>9 DEF TypeOK, Nodes, Node, Wires, Words, Budgets
  <1>11. SentSound'
    <2>1. ASSUME NEW x \in Peer PROVE Informs(node'[x], linked'[x])
      <3>1. Informs(node[x], linked[x]) BY DEF Sound, SentSound
      <3>2. CASE x = p
        <4>1. Informs(n, linked[p])
          <5>1. SUFFICES ASSUME NEW r \in Peer, WaitsFor(n, r)
                         PROVE  r \in linked[p] /\ (n.status # "FORCE_ALL_SET" => n.systems[r].sent = n.status)
            BY DEF Informs
          <5>2. r \in linked[p] /\ (m # "FORCE_ALL_SET" => node[p].systems[r].sent = m)
            BY <1>6, <3>1, <3>2, <5>1 DEF Informs
          <5>3. CASE r = q /\ answer BY <1>6, <5>2, <5>3
          <5>4. CASE r # q \/ ~answer
            <6>1. n.systems[r] = node[p].systems[r] BY <1>6, <5>4
            <6> QED BY <1>6, <5>2, <6>1
          <5> QED BY <5>3, <5>4
        <4> QED BY <1>1, <1>8, <3>2, <4>1
      <3>3. CASE x # p BY <1>1, <1>8, <3>1, <3>3
      <3> QED BY <3>2, <3>3
    <2> QED BY <2>1 DEF SentSound, Informs, WaitsFor
  <1>12. LinkSound' BY <1>1 DEF Sound, LinkSound
  <1>13. wire[q][p] \in Seq(Words) /\ wire[p][q] \in Seq(Words) /\ wire[q][p] # <<>>
    BY <1>1, <1>2 DEF Wires, Arrives
  <1>14. Asks(wire[p][q]) => Asks(wire'[p][q])
    <2>1. CASE answer
      <3>1. m \in Words /\ out = <<m>> BY <1>3, <2>1
      <3> HIDE DEF m
      <3>2. wire[p][q] \o <<m>> = Append(wire[p][q], m) BY <1>13, <3>1, Behind
      <3>3. wire'[p][q] = Append(wire[p][q], m) BY <1>5, <3>1, <3>2, Zenon
      <3> QED BY <1>13, <3>1, <3>3, AppendPlain, AppendOther
    <2>2. CASE ~answer
      <3>1. wire[p][q] \o <<>> = wire[p][q] BY <1>13
      <3>2. out = <<>> BY <2>2
      <3>3. wire'[p][q] = wire[p][q] BY <1>5, <3>1, <3>2, Zenon
      <3> QED BY <3>3
    <2> QED BY <2>1, <2>2
  <1>15. ASSUME NEW x \in Peer, NEW y \in Peer,
                y \in linked'[x], x \in linked'[y], <<y, x>> \notin recalled',
                Said(node'[y], x) # "FORCE_ALL_SET"
         PROVE  Hears(wire'[y][x], Asks(wire'[x][y]), node'[x], y, Said(node'[y], x))
    <2>1. y \in linked[x] /\ x \in linked[y] BY <1>1, <1>15
    <2>2. x # y BY <2>1 DEF Sound, LinkSound
    <2>3. Known(x, y) BY DEF Sound, KnownSound
    <2>4. CASE x = p /\ y = q
      <3>1. node'[q] = node[q] /\ <<q, p>> \notin recalled BY <1>2, <1>8, <1>9, <1>15, <2>4
      <3>2. Hears(wire[q][p], Asks(wire[p][q]), node[p], q, Said(node[q], p))
        BY <1>15, <2>1, <2>3, <2>4, <3>1 DEF Known
      <3>3. Head(wire[q][p]) \notin Plain BY <1>1 DEF Plain
      <3>4. Asks(wire[p][q]) \in BOOLEAN /\ Asks(wire'[p][q]) \in BOOLEAN BY DEF Asks
      <3>5. Hears(Tail(wire[q][p]), Asks(wire[p][q]), n, q, Said(node[q], p))
        BY <1>6, <1>13, <3>2, <3>3, <3>4, HearsRest
      <3>6. Hears(Tail(wire[q][p]), Asks(wire'[p][q]), n, q, Said(node[q], p))
        BY <1>14, <3>4, <3>5, HearsMore
      <3> QED BY <1>5, <1>8, <2>4, <3>1, <3>6
    <2>5. CASE x = q /\ y = p
      <3>1. node'[q] = node[q] BY <1>2, <1>8
      <3>2. CASE answer
        <4>1. Said(n, q) = m BY <1>6, <3>2 DEF Said
        <4>2. m \in Status /\ m # "FORCE_ALL_SET" /\ out = <<m>> BY <1>3, <1>8, <1>15, <2>5, <3>2, <4>1
        <4> HIDE DEF m
        <4>3. m \in Plain /\ m \in Words BY <4>2 DEF Plain, Status, Words
        <4>4. wire[p][q] \o <<m>> = Append(wire[p][q], m) BY <1>13, <4>3, Behind
        <4>5. wire'[p][q] = Append(wire[p][q], m) BY <1>5, <4>2, <4>4, Zenon
        <4>6. Ends(wire'[p][q], m) /\ ~Silent(wire'[p][q]) BY <1>13, <4>3, <4>5, AppendPlain
        <4> QED BY <1>8, <2>5, <4>1, <4>6 DEF Hears
      <3>3. CASE ~answer
        <4>1. n = node[p] /\ recalled' = recalled /\ out = <<>> BY <1>1, <1>6, <3>3
        <4>2. Said(node[p], q) = "UNSET"
          <5>1. Informs(node[p], linked[p]) BY PeerFacts
          <5> QED BY <3>3, <5>1 DEF Informs, Said
        <4>3. Hears(wire[p][q], Asks(wire[q][p]), node[q], p, "UNSET")
          BY <1>15, <2>1, <2>3, <2>5, <4>1, <4>2 DEF Known
        <4>4. wire[p][q] \o <<>> = wire[p][q] BY <1>13
        <4>5. wire'[p][q] = wire[p][q] BY <1>5, <4>1, <4>4, Zenon
        <4>6. Hears(wire[p][q], Asks(wire'[q][p]), node[q], p, "UNSET") BY <4>3 DEF Hears
        <4> QED BY <1>8, <2>5, <3>1, <4>1, <4>2, <4>5, <4>6
      <3> QED BY <3>2, <3>3
    <2>6. CASE ~(x = p /\ y = q) /\ ~(x = q /\ y = p)
      <3>1. wire'[y][x] = wire[y][x] /\ wire'[x][y] = wire[x][y] BY <1>5, <2>6
      <3>2. <<y, x>> \notin recalled BY <1>9, <1>15, <2>6
      <3>3. Said(node'[y], x) = Said(node[y], x)
        <4>1. CASE y = p
          <5>1. x # q BY <2>6, <4>1
          <5> QED BY <1>6, <1>8, <4>1, <5>1 DEF Said
        <4>2. CASE y # p BY <1>8, <4>2
        <4> QED BY <4>1, <4>2
      <3>4. Hears(wire[y][x], Asks(wire[x][y]), node[x], y, Said(node[y], x))
        BY <1>15, <2>1, <2>3, <3>2, <3>3 DEF Known
      <3>5. /\ WaitsFor(node'[x], y) => WaitsFor(node[x], y)
            /\ WaitsFor(node'[x], y) => node'[x].systems[y].received = node[x].systems[y].received
        <4>1. CASE x = p BY <1>6, <1>8, <4>1
        <4>2. CASE x # p
          <5>1. node'[x] = node[x] BY <1>8, <4>2
          <5> QED BY <5>1
        <4> QED BY <4>1, <4>2
      <3>6. Hears(wire[y][x], Asks(wire[x][y]), node'[x], y, Said(node[y], x)) BY <3>4, <3>5 DEF Hears
      <3> QED BY <3>1, <3>3, <3>6
    <2> QED BY <2>4, <2>5, <2>6
  <1>16. KnownSound'
    BY <1>15 DEF KnownSound, Known, Hears, Ends, Silent, Asks, Said, WaitsFor
  <1> QED BY <1>10, <1>11, <1>12, <1>16 DEF Sound

(* OnClosedConnection: what was told to a lost peer is recalled.           *)
LEMMA OnClosedConnectionStep ==
  ASSUME Sound, NEW p \in Peer, NEW q \in Peer, OnClosedConnection(p, q)
  PROVE  Sound'
  <1>1. /\ q \in linked[p] /\ (Spend("leave") \/ budget' = budget)
        /\ linked' = [linked EXCEPT ![p] = @ \ {q}]
        /\ IF Exists(p) THEN UpdateReadyStatus(p, Forget(node[p], {q}), wire, {}, {q})
           ELSE node' = node /\ wire' = wire /\ recalled' = recalled
    BY DEF OnClosedConnection
  <1>2. budget' \in Budgets BY <1>1, PeerFacts, SpendFacts
  <1>3. linked \in [Peer -> SUBSET Peer] BY PeerFacts
  <1>4. /\ linked' \in [Peer -> SUBSET Peer] /\ linked'[p] = linked[p] \ {q}
        /\ \A x \in Peer : x # p => linked'[x] = linked[x]
    BY <1>1, <1>3
  <1>5. linked'[p] \subseteq linked[p] BY <1>4
  <1>6. CASE Exists(p)
    <2> DEFINE n == Forget(node[p], {q})
    <2>1. UpdateReadyStatus(p, n, wire, {}, {q}) BY <1>1, <1>6
    <2>2. {q} \in SUBSET Peer /\ {} \in SUBSET Peer OBVIOUS
    <2>3. /\ n \in Node
          /\ \A r \in Peer : /\ WaitsFor(n, r) <=> WaitsFor(node[p], r) /\ r \notin {q}
                             /\ r \notin {q} => n.systems[r] = node[p].systems[r]
      BY <1>6, <2>2, PeerFacts, ForgetFacts
    <2> HIDE DEF n
    <2>4. \A r \in Peer : WaitsFor(n, r) => r \in linked'[p] BY <1>4, <2>3, PeerFacts DEF Informs
    <2>5. \A r \in Peer : Said(n, r) = Said(node[p], r) \/ <<p, r>> \in recalled \cup Recall(p, {q})
      <3> TAKE r \in Peer
      <3>1. CASE r \in {q} /\ WaitsFor(node[p], r) /\ node[p].systems[r].sent # "UNSET"
        BY <2>2, <3>1, RecallFacts
      <3>2. CASE ~(r \in {q} /\ WaitsFor(node[p], r) /\ node[p].systems[r].sent # "UNSET")
        BY <2>3, <3>2 DEF Said
      <3> QED BY <3>1, <3>2
    <2>6. ASSUME NEW r \in Peer, r # p, r \in linked'[p], p \in linked[r], <<r, p>> \notin recalled,
                 Said(node[r], p) # "FORCE_ALL_SET"
          PROVE  Hears(wire[r][p], Asks(wire[p][r]) \/ r \in {}, n, r, Said(node[r], p))
      <3>1. Hears(wire[r][p], Asks(wire[p][r]), node[p], r, Said(node[r], p)) BY <1>5, <2>6, PeerFacts
      <3> QED BY <2>3, <3>1 DEF Hears
    <2> DEFINE gone == {q}
    <2>7. /\ UpdateReadyStatus(p, n, wire, {}, gone) /\ gone \in SUBSET Peer /\ {} \in SUBSET Peer
          /\ \A r \in Peer : Said(n, r) = Said(node[p], r) \/ <<p, r>> \in recalled \cup Recall(p, gone)
      BY <2>1, <2>2, <2>5
    <2>8. n \in Node /\ wire \in Wires BY <2>3, PeerFacts
    <2> HIDE DEF gone
    <2> QED BY <1>2, <1>4, <1>5, <2>4, <2>6, <2>7, <2>8, UpdateStep
  <1>7. CASE ~Exists(p)
    <2>1. node' = node /\ wire' = wire /\ recalled' = recalled BY <1>1, <1>7
    <2>2. node[p] = NoEvent /\ node[p] \in Nodes /\ node' = [node EXCEPT ![p] = node[p]]
      BY <1>7, <2>1, PeerFacts
    <2>3. Informs(node[p], linked'[p])
      <3>1. \A r \in Peer : ~WaitsFor(node[p], r) BY <2>2, NodeFacts
      <3> QED BY <3>1 DEF Informs
    <2>4. \A r \in Peer : /\ r # p /\ r \in linked'[p] /\ p \in linked[r] /\ <<r, p>> \notin recalled
                          /\ Said(node[r], p) # "FORCE_ALL_SET"
                          => Hears(wire[r][p], Asks(wire[p][r]), node[p], r, Said(node[r], p))
      BY <1>5, PeerFacts
    <2>5. wire \in Wires /\ recalled' \subseteq Peer \X Peer /\ recalled \subseteq recalled' BY <2>1, PeerFacts
    <2> QED BY <1>2, <1>4, <1>5, <2>1, <2>2, <2>3, <2>4, <2>5, LocalStep
  <1> QED BY <1>6, <1>7

(* Reconnect: neither end waits for the other, and no message is under way. *)
LEMMA ReconnectStep ==
  ASSUME Sound, NEW p \in Peer, NEW q \in Peer, Reconnect(p, q)
  PROVE  Sound'
  <1>1. /\ p # q /\ q \notin linked[p] /\ p \notin linked[q]
        /\ linked' = [linked EXCEPT ![p] = @ \cup {q}, ![q] = @ \cup {p}]
        /\ wire' = [wire EXCEPT ![p][q] = <<>>, ![q][p] = <<>>]
        /\ node' = node /\ recalled' = recalled /\ budget' = budget
    BY DEF Reconnect
  <1>2. /\ node \in [Peer -> Nodes] /\ linked \in [Peer -> SUBSET Peer] /\ wire \in Wires
        /\ recalled \subseteq Peer \X Peer /\ budget \in Budgets
    BY PeerFacts
  <1>3. /\ linked' \in [Peer -> SUBSET Peer] /\ linked'[p] = linked[p] \cup {q} /\ linked'[q] = linked[q] \cup {p}
        /\ \A x \in Peer : x # p /\ x # q => linked'[x] = linked[x]
    BY <1>1, <1>2
  <1>4. <<>> \in Seq(Words) OBVIOUS
  <1>5. wire' \in Wires BY <1>1, <1>2, <1>4 DEF Wires
  <1>6. /\ wire'[p][q] = <<>> /\ wire'[q][p] = <<>>
        /\ \A x, y \in Peer : ~(x = q /\ y = p) /\ ~(x = p /\ y = q) => wire'[x][y] = wire[x][y]
    BY <1>1, <1>2 DEF Wires
  <1>7. TypeOK' BY <1>1, <1>2, <1>3, <1>5 DEF TypeOK, Nodes, Node, Wires, Words, Budgets
  <1>8. \A x \in Peer : linked[x] \subseteq linked'[x] BY <1>3
  <1>9. SentSound'
    <2>1. ASSUME NEW x \in Peer PROVE Informs(node'[x], linked'[x])
      <3>1. Informs(node[x], linked[x]) BY DEF Sound, SentSound
      <3> QED BY <1>1, <1>8, <3>1 DEF Informs
    <2> QED BY <2>1 DEF SentSound, Informs, WaitsFor
  <1>10. LinkSound'
    <2>1. ASSUME NEW x \in Peer PROVE x \notin linked'[x]
      <3>1. x \notin linked[x] BY DEF Sound, LinkSound
      <3> QED BY <1>1, <1>3, <3>1
    <2> QED BY <2>1 DEF LinkSound
  <1>11. ASSUME NEW x \in Peer, NEW y \in Peer,
                y \in linked'[x], x \in linked'[y], <<y, x>> \notin recalled',
                Said(node'[y], x) # "FORCE_ALL_SET"
         PROVE  Hears(wire'[y][x], Asks(wire'[x][y]), node'[x], y, Said(node'[y], x))
    <2>1. CASE (x = p /\ y = q) \/ (x = q /\ y = p)
      <3>1. wire'[y][x] = <<>> BY <1>6, <2>1
      <3>2. ~WaitsFor(node[x], y)
        <4>1. Informs(node[x], linked[x]) /\ y \notin linked[x] BY <1>1, <2>1 DEF Sound, SentSound
        <4> QED BY <4>1 DEF Informs
      <3>3. Ends(<<>>, Said(node'[y], x)) BY NoWords
      <3> QED BY <1>1, <3>1, <3>2, <3>3 DEF Hears
    <2>2. CASE ~(x = p /\ y = q) /\ ~(x = q /\ y = p)
      <3>1. wire'[y][x] = wire[y][x] /\ wire'[x][y] = wire[x][y] BY <1>6, <2>2
      <3>2. y \in linked[x] /\ x \in linked[y] BY <1>1, <1>3, <1>11, <2>2
      <3>3. Known(x, y) BY DEF Sound, KnownSound
      <3> QED BY <1>1, <1>11, <3>1, <3>2, <3>3 DEF Known
    <2> QED BY <2>1, <2>2
  <1>12. KnownSound'
    BY <1>11 DEF KnownSound, Known, Hears, Ends, Silent, Asks, Said, WaitsFor
  <1> QED BY <1>7, <1>9, <1>10, <1>12 DEF Sound

-----------------------------------------------------------------------------
(* The theorems.                                                           *)

(* At first nobody waits and nothing is under way.                         *)
LEMMA SoundInit == Init => Sound
  <1> SUFFICES ASSUME Init PROVE Sound OBVIOUS
  <1>1. NoEvent \in Nodes BY DEF Nodes
  <1>2. \A p \in Peer : node[p] = NoEvent /\ linked[p] = Peer \ {p} /\ \A q \in Peer : wire[p][q] = <<>>
    BY DEF Init
  <1>3. \A p, q \in Peer : ~WaitsFor(node[p], q) BY <1>1, <1>2, NodeFacts
  <1>4. TypeOK
    <2>1. node \in [Peer -> Nodes] /\ linked \in [Peer -> SUBSET Peer] /\ recalled = {} BY <1>1 DEF Init
    <2>2. budget \in Budgets BY BudgetAssumption DEF Init, Budgets
    <2>3. <<>> \in Seq(Words) OBVIOUS
    <2>4. wire \in Wires BY <2>3 DEF Init, Wires
    <2> QED BY <2>1, <2>2, <2>4, Types
  <1>5. SentSound BY <1>3 DEF SentSound, Informs
  <1>6. LinkSound BY <1>2 DEF LinkSound
  <1>7. KnownSound
    <2>1. ASSUME NEW p \in Peer, NEW q \in Peer PROVE Known(p, q)
      <3>1. wire[q][p] = <<>> /\ ~WaitsFor(node[p], q) BY <1>2, <1>3
      <3>2. Ends(wire[q][p], Said(node[q], p)) BY <3>1, NoWords
      <3> QED BY <3>1, <3>2 DEF Known, Hears
    <2> QED BY <2>1 DEF KnownSound
  <1> QED BY <1>4, <1>5, <1>6, <1>7 DEF Sound

(* Every step keeps the invariant.                                         *)
LEMMA SoundNext == Sound /\ [Next]_vars => Sound'
  <1> SUFFICES ASSUME Sound, [Next]_vars PROVE Sound' OBVIOUS
  <1>1. CASE UNCHANGED vars
    <2>1. node' = node /\ linked' = linked /\ wire' = wire /\ recalled' = recalled /\ budget' = budget
      BY <1>1 DEF vars
    <2>2. TypeOK' BY <2>1 DEF Sound, TypeOK
    <2>3. SentSound' BY <2>1 DEF Sound, SentSound, Informs, WaitsFor
    <2>4. LinkSound' BY <2>1 DEF Sound, LinkSound
    <2>5. KnownSound' BY <2>1 DEF Sound, KnownSound, Known, Hears, Ends, Silent, Asks, Said, WaitsFor
    <2> QED BY <2>2, <2>3, <2>4, <2>5 DEF Sound
  <1>2. ASSUME NEW p \in Peer, UserStep(p) PROVE Sound'
    <2>1. CASE \E isReady \in BOOLEAN : SetEvent(p, isReady) BY <2>1, SetEventStep
    <2>2. CASE ForceCompletion(p) BY <2>2, ForceCompletionStep
    <2>3. CASE DeleteEvent(p) BY <2>3, DeleteEventStep
    <2>4. CASE \E whom \in {{q} : q \in linked[p]} \cup {linked[p]} : AddToWaitList(p, whom)
      <3>1. PICK whom \in {{q} : q \in linked[p]} \cup {linked[p]} : AddToWaitList(p, whom) BY <2>4
      <3>2. linked[p] \in SUBSET Peer BY PeerFacts
      <3>3. whom \subseteq linked[p] /\ whom \in SUBSET Peer BY <3>1, <3>2
      <3> QED BY <3>1, <3>3, AddToWaitListStep
    <2>5. CASE \E whom \in {{q} : q \in Waiters(node[p])} \cup {Peer} : RemoveFromWaitList(p, whom)
      <3>1. PICK whom \in {{q} : q \in Waiters(node[p])} \cup {Peer} : RemoveFromWaitList(p, whom) BY <2>5
      <3>2. whom \in SUBSET Peer BY <3>1 DEF Waiters
      <3> QED BY <3>1, <3>2, RemoveFromWaitListStep
    <2> QED BY <1>2, <2>1, <2>2, <2>3, <2>4, <2>5 DEF UserStep
  <1>3. ASSUME NEW p \in Peer, NEW q \in Peer, OnReceive(p, q) PROVE Sound'
    BY <1>3, OnReadyEventForceAllSetStep, OnReadyEventPacketUpdateStep, OnReadyEventQueryStep DEF OnReceive
  <1>4. ASSUME NEW p \in Peer, NEW q \in Peer, OnClosedConnection(p, q) PROVE Sound'
    BY <1>4, OnClosedConnectionStep
  <1>5. ASSUME NEW p \in Peer, NEW q \in Peer, Reconnect(p, q) PROVE Sound'
    BY <1>5, ReconnectStep
  <1> QED BY <1>1, <1>2, <1>3, <1>4, <1>5 DEF Next

(* The invariant holds throughout.                                         *)
LEMMA SoundAlways == Spec => []Sound
  BY SoundInit, SoundNext, PTL DEF Spec

(* The plugin's variables have their types in every state.                 *)
THEOREM TypeCorrect == Spec => []TypeOK
  <1>1. Sound => TypeOK BY DEF Sound
  <1> QED BY <1>1, SoundAlways, PTL

(* In a mesh of any size, after any calls, lost connections and new ones:  *)
(* two peers that wait for each other and have no message under way know   *)
(* each other's status, unless its record of what it told was removed or   *)
(* it was forced.                                                          *)
THEOREM StatusKnownAlways == Spec => []StatusKnown
  <1>1. Sound => StatusKnown
    <2> SUFFICES ASSUME Sound, NEW p \in Peer, NEW q \in Peer,
                        Mutual(p, q), wire[p][q] = <<>>, wire[q][p] = <<>>,
                        <<q, p>> \notin recalled, node[q].status # "FORCE_ALL_SET"
                 PROVE  node[p].systems[q].received = node[q].status
      BY DEF StatusKnown
    <2>1. WaitsFor(node[p], q) /\ WaitsFor(node[q], p) /\ q \in linked[p] /\ p \in linked[q]
      BY DEF Mutual
    <2>2. Informs(node[q], linked[q]) BY PeerFacts
    <2>3. Said(node[q], p) = node[q].status BY <2>1, <2>2 DEF Said, Informs
    <2>4. p # q BY <2>1, PeerFacts
    <2>5. Hears(<<>>, Asks(<<>>), node[p], q, node[q].status) BY <2>1, <2>3, <2>4, PeerFacts
    <2>6. Silent(<<>>) /\ ~Asks(<<>>) BY NoWords
    <2> QED BY <2>1, <2>5, <2>6 DEF Hears
  <1> QED BY <1>1, SoundAlways, PTL
=============================================================================
