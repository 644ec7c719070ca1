---------------------------- MODULE MCReadyEvent ----------------------------
(* Two and three peers of a mesh. *)
EXTENDS ReadyEvent
CONSTANTS a, b, c
Pair == {a, b}
Trio == {a, b, c}

(* Only behaviours in which the peers stay connected, nobody calls         *)
(* SetEvent, and ForceCompletion comes after three calls of AddToWaitList: *)
(* a state constraint that keeps the three peers small.                    *)
ForcedAfterJoins ==
  /\ linked = [p \in Peer |-> Peer \ {p}]
  /\ \A p \in Peer : node[p].status \notin {"SET", "ALL_SET"}
  /\ budget.set = 0 => budget.wait <= WaitBudget - 3
=============================================================================
