----------------------------- MODULE ReadyEvent -----------------------------
(***************************************************************************)
(* The ReadyEvent plugin (Source/src/ready_event.cpp) for one event id:    *)
(* peers of a mesh say that they are ready, each learns when everyone it   *)
(* waits for is (ALL_SET), and the event is completed at a peer when       *)
(* everyone it waits for is ALL_SET too.  Messages travel reliable ordered *)
(* between two connected peers; each end notices a lost connection in its  *)
(* own time.                                                               *)
(***************************************************************************)
EXTENDS Integers, SequencesExt

CONSTANTS
  Peer,          \* the peers of the mesh
  SetBudget,     \* bound: calls of SetEvent and ForceCompletion
  WaitBudget,    \* bound: calls that add to or remove from a wait list
  LeaveBudget    \* bound: lost connections and calls of DeleteEvent

ASSUME BudgetAssumption ==
  SetBudget \in Nat /\ WaitBudget \in Nat /\ LeaveBudget \in Nat

VARIABLES
  node,     \* the event's ReadyEventNode at each peer, or NoEvent
  linked,   \* linked[p]: the peers p is connected to
  wire,     \* wire[p][q]: messages from p that q has not handled
  recalled, \* ghost: pairs <<p, q>>: p forgot what it last told q
  budget    \* ghost: calls the applications may still make

vars == <<node, linked, wire, recalled, budget>>

Status == {"UNSET", "SET", "ALL_SET", "FORCE_ALL_SET"}
(* A RemoteSystem of systemList; NotWaiting where there is none.           *)
RemoteSystem == [sent : Status, received : Status]
NotWaiting == [sent |-> "NONE", received |-> "NONE"]
NoEvent == [status |-> "NONE", systems |-> [q \in Peer |-> NotWaiting]]

WaitsFor(n, q) == n.systems[q] # NotWaiting
Waiters(n) == {q \in Peer : WaitsFor(n, q)}
Exists(p) == node[p] # NoEvent

Init ==
  /\ node = [p \in Peer |-> NoEvent]
  /\ linked = [p \in Peer |-> Peer \ {p}]
  /\ wire = [p \in Peer |-> [q \in Peer |-> <<>>]]
  /\ recalled = {}
  /\ budget = [set |-> SetBudget, wait |-> WaitBudget, leave |-> LeaveBudget]

Spend(kind) == budget[kind] > 0 /\ budget' = [budget EXCEPT ![kind] = @ - 1]

-----------------------------------------------------------------------------
(* CreateNewEvent                                                          *)
CreateNewEvent(isReady) ==
  [NoEvent EXCEPT !.status = IF isReady THEN "SET" ELSE "UNSET"]

(* UpdateReadyStatus: a peer that is set is ALL_SET exactly while nobody   *)
(* it waits for is UNSET.                                                  *)
AnyUnset(n) == \E q \in Waiters(n) : n.systems[q].received = "UNSET"
Updated(n) ==
  IF n.status \in {"SET", "ALL_SET"}
  THEN [n EXCEPT !.status = IF AnyUnset(n) THEN "SET" ELSE "ALL_SET"]
  ELSE n

(* SendReadyUpdate: whom the status is sent to, forced the answer to a     *)
(* query.  What is sent to a peer that is not connected is lost.           *)
(* Mutant: UNSET, the default, is never sent. *)
NeedsNonDefault(n, q) ==
  WaitsFor(n, q) /\ n.status # n.systems[q].sent /\ n.status # "UNSET"
(* Mutant: systems that are not in the list get a record. *)
NeedsUpdateUnlisted(n, q) == n.status # n.systems[q].sent
NeedsUpdate(n, q) == WaitsFor(n, q) /\ n.status # n.systems[q].sent
Told(n, whom) ==
  [n EXCEPT !.systems = [q \in Peer |->
     IF q \in whom THEN [@[q] EXCEPT !.sent = n.status] ELSE @[q]]]
Post(p, w, out) ==
  wire' = [w EXCEPT ![p] = [q \in Peer |->
             @[q] \o IF q \in linked[p] THEN out[q] ELSE <<>>]]

(* Of a record of systemList that goes, what it last told is gone too.     *)
Recall(p, whom) ==
  {<<p, q>> : q \in {r \in whom : WaitsFor(node[p], r) /\
                                  node[p].systems[r].sent # "UNSET"}}
Forget(n, whom) ==
  [n EXCEPT !.systems = [q \in Peer |-> IF q \in whom THEN NotWaiting ELSE @[q]]]

(* UpdateReadyStatus and the broadcast that ends it, at node n and with    *)
(* messages w under way, after the queries to new waiters and after the    *)
(* records of gone were removed.                                           *)
UpdateReadyStatus(p, n, w, queried, gone) ==
  LET u == Updated(n)
      whom == {q \in Peer : NeedsUpdate(u, q)}
  IN  /\ node' = [node EXCEPT ![p] = Told(u, whom)]
      /\ recalled' = (recalled \cup Recall(p, gone)) \ {<<p, q>> : q \in whom}
      /\ Post(p, w, [q \in Peer |->
           (IF q \in queried THEN <<"QUERY">> ELSE <<>>) \o
           (IF q \in whom THEN <<u.status>> ELSE <<>>)])

-----------------------------------------------------------------------------
(* The application                                                         *)

(* SetEvent: a new event is announced to nobody, a change to every waiter. *)
SetEvent(p, isReady) ==
  /\ Spend("set")
  /\ IF ~Exists(p)
     THEN /\ node' = [node EXCEPT ![p] = CreateNewEvent(isReady)]
          /\ UNCHANGED <<wire, recalled>>
     ELSE /\ node[p].status \in (IF isReady THEN {"UNSET"} ELSE {"SET", "ALL_SET"})
          /\ UpdateReadyStatus(p,
               [node[p] EXCEPT !.status = IF isReady THEN "SET" ELSE "UNSET"],
               wire, {}, {})
  /\ UNCHANGED linked

ForceCompletion(p) ==
  /\ Spend("set")
  /\ UpdateReadyStatus(p, [node[p] EXCEPT !.status = "FORCE_ALL_SET"], wire, {}, {})
  /\ UNCHANGED linked

DeleteEvent(p) ==
  /\ Spend("leave") /\ Exists(p)
  /\ node' = [node EXCEPT ![p] = NoEvent]
  /\ recalled' = recalled \cup Recall(p, Peer)
  /\ UNCHANGED <<linked, wire>>

(* AddToWaitList, of one system or of every connected one.                 *)
AddToWaitList(p, whom) ==
  LET n == IF Exists(p) THEN node[p] ELSE CreateNewEvent(FALSE)
      added == {q \in whom : ~WaitsFor(n, q)}
      joined == [n EXCEPT !.systems = [q \in Peer |->
                   IF q \in added THEN [sent |-> "UNSET", received |-> "UNSET"]
                   ELSE @[q]]]
  IN  /\ Spend("wait")
      /\ IF added # {} THEN UpdateReadyStatus(p, joined, wire, added, {})
         ELSE node' = [node EXCEPT ![p] = n] /\ UNCHANGED <<wire, recalled>>
      /\ UNCHANGED linked

(* RemoveFromWaitList, of one system or of all; an empty list is updated   *)
(* too when all go.                                                        *)
RemoveFromWaitList(p, whom) ==
  /\ Spend("wait") /\ Exists(p)
  /\ UpdateReadyStatus(p, Forget(node[p], whom), wire, {}, whom)
  /\ UNCHANGED linked

UserStep(p) ==
  \/ \E isReady \in BOOLEAN : SetEvent(p, isReady)
  \/ ForceCompletion(p) \/ DeleteEvent(p)
  \/ \E whom \in {{q} : q \in linked[p]} \cup {linked[p]} : AddToWaitList(p, whom)
  \/ \E whom \in {{q} : q \in Waiters(node[p])} \cup {Peer} : RemoveFromWaitList(p, whom)

-----------------------------------------------------------------------------
(* Messages                                                                *)

(* p handles the oldest message from q.                                    *)
Arrives(p, q) == q \in linked[p] /\ wire[q][p] # <<>>
Handled(p, q, out) ==
  wire' = [wire EXCEPT ![q][p] = Tail(@), ![p][q] = @ \o out]

OnReadyEventForceAllSet(p, q) ==
  /\ Arrives(p, q) /\ Head(wire[q][p]) = "FORCE_ALL_SET"
  /\ Handled(p, q, <<>>)
  /\ node' = IF Exists(p) THEN [node EXCEPT ![p].status = "FORCE_ALL_SET"] ELSE node
  /\ UNCHANGED <<linked, recalled, budget>>

(* A status that is news of a waiter; after a forced completion it is only *)
(* noted.                                                                  *)
OnReadyEventPacketUpdate(p, q) ==
  LET m == Head(wire[q][p])
      news == WaitsFor(node[p], q) /\ node[p].systems[q].received # m
      noted == [node[p] EXCEPT !.systems[q].received = m]
  IN  /\ Arrives(p, q) /\ m \in {"UNSET", "SET", "ALL_SET"}
      /\ IF news /\ node[p].status # "FORCE_ALL_SET"
         THEN UpdateReadyStatus(p, noted, [wire EXCEPT ![q][p] = Tail(@)], {}, {})
         ELSE /\ Handled(p, q, <<>>)
              /\ node' = IF news THEN [node EXCEPT ![p] = noted] ELSE node
              /\ UNCHANGED recalled
      /\ UNCHANGED <<linked, budget>>

(* Mutant: a query is answered only with a status that was not sent yet. *)
QueryAnsweredOnce(p, q) ==
  LET answer == NeedsUpdate(node[p], q)
  IN  /\ Arrives(p, q) /\ Head(wire[q][p]) = "QUERY"
      /\ Handled(p, q, IF answer THEN <<node[p].status>> ELSE <<>>)
      /\ node' = IF answer THEN [node EXCEPT ![p] = Told(@, {q})] ELSE node
      /\ UNCHANGED <<linked, recalled, budget>>
(* A waiter asks: it is told anything but UNSET, again if need be.         *)
OnReadyEventQuery(p, q) ==
  LET answer == WaitsFor(node[p], q) /\ node[p].status # "UNSET"
  IN  /\ Arrives(p, q) /\ Head(wire[q][p]) = "QUERY"
      /\ Handled(p, q, IF answer THEN <<node[p].status>> ELSE <<>>)
      /\ node' = IF answer THEN [node EXCEPT ![p] = Told(@, {q})] ELSE node
      /\ recalled' = IF answer THEN recalled \ {<<p, q>>} ELSE recalled
      /\ UNCHANGED <<linked, budget>>

(* OnClosedConnection and RemoveFromAllLists: p notices that q is gone.    *)
OnClosedConnection(p, q) ==
  /\ q \in linked[p]
  /\ \/ Spend("leave") /\ p \in linked[q]
     \/ p \notin linked[q] /\ UNCHANGED budget
  /\ linked' = [linked EXCEPT ![p] = @ \ {q}]
  /\ IF Exists(p) THEN UpdateReadyStatus(p, Forget(node[p], {q}), wire, {}, {q})
     ELSE UNCHANGED <<node, wire, recalled>>
Reconnect(p, q) ==
  /\ p # q /\ q \notin linked[p] /\ p \notin linked[q]
  /\ linked' = [linked EXCEPT ![p] = @ \cup {q}, ![q] = @ \cup {p}]
  /\ wire' = [wire EXCEPT ![p][q] = <<>>, ![q][p] = <<>>]
  /\ UNCHANGED <<node, recalled, budget>>

OnReceive(p, q) ==
  \/ OnReadyEventForceAllSet(p, q) \/ OnReadyEventPacketUpdate(p, q)
  \/ OnReadyEventQuery(p, q)

Next ==
  \/ \E p \in Peer : UserStep(p)
  \/ \E p \in Peer, q \in Peer :
       OnReceive(p, q) \/ OnClosedConnection(p, q) \/ Reconnect(p, q)

Spec == Init /\ [][Next]_vars
(* Fairness: a reliable ordered message between two connected peers        *)
(* arrives and is handled.                                                 *)
FairSpec == Spec /\ \A p \in Peer, q \in Peer : WF_vars(OnReceive(p, q))

-----------------------------------------------------------------------------
(* The variables have their types.                                         *)
TypeOK ==
  /\ node \in [Peer -> [status : Status, systems : [Peer -> RemoteSystem \cup {NotWaiting}]]
                       \cup {NoEvent}]
  /\ linked \in [Peer -> SUBSET Peer]
  /\ wire \in [Peer -> [Peer -> Seq(Status \cup {"QUERY"})]]
  /\ recalled \subseteq Peer \X Peer
  /\ budget \in [set : 0..SetBudget, wait : 0..WaitBudget, leave : 0..LeaveBudget]

(* Two peers that wait for each other and have no message under way know   *)
(* each other's status: each change, query and late addition is told, over *)
(* set, unset, lost and new connections and events created later than the  *)
(* first message.  Not covered: a status that was told and whose record    *)
(* was removed (DeleteEvent, RemoveFromWaitList) before it was taken back, *)
(* and the status of a peer that was forced, which is not recorded.        *)
Mutual(p, q) == /\ WaitsFor(node[p], q) /\ WaitsFor(node[q], p)
                /\ q \in linked[p] /\ p \in linked[q]
StatusKnown ==
  \A p, q \in Peer :
    /\ Mutual(p, q) /\ wire[p][q] = <<>> /\ wire[q][p] = <<>>
    /\ <<q, p>> \notin recalled /\ node[q].status # "FORCE_ALL_SET"
    => node[p].systems[q].received = node[q].status

(* IsEventCompletedByIndex                                                 *)
Completed(n) ==
  \/ n.status = "FORCE_ALL_SET"
  \/ n.status = "ALL_SET" /\ \A q \in Waiters(n) : n.systems[q].received = "ALL_SET"
Mesh == \A p \in Peer : Waiters(node[p]) = Peer \ {p} /\ linked[p] = Peer \ {p}

(* Once everyone waits for everyone, is set and stays so, IsEventCompleted *)
(* becomes true at every peer and stays so: the two stages always end,     *)
(* whatever was set, unset, deleted or disconnected before.                *)
AllReadyCompletes ==
  <>[](Mesh /\ \A p \in Peer : node[p].status \in {"SET", "ALL_SET"})
    => <>[](\A p \in Peer : Completed(node[p]))

(* A peer of a lasting mesh that has sent its forced completion to all the *)
(* others completes the event everywhere: one that had no event yet, or    *)
(* deleted it, when the message arrived (OnReadyEventForceAllSet drops it) *)
(* asks again when it joins and is told again (OnReadyEventQuery).         *)
ToldAll(p) == \A q \in Peer \ {p} : node[p].systems[q].sent = "FORCE_ALL_SET"
ForceHeard ==
  <>[](Mesh /\ \E p \in Peer : node[p].status = "FORCE_ALL_SET" /\ ToldAll(p))
    => <>[](\A p \in Peer : Completed(node[p]))

(* A forced completion completes the event at every peer of a lasting      *)
(* mesh.  ready_event.h says of ForceCompletion "This will force all       *)
(* systems to return true from IsEventCompleted()".                        *)
ForceCompletes ==
  <>[](Mesh /\ \E p \in Peer : node[p].status = "FORCE_ALL_SET")
    => <>[](\A p \in Peer : Completed(node[p]))
=============================================================================
