--------------------------- MODULE ReliableChannel ---------------------------
(***************************************************************************)
(* What a reliable send promises the application: a message that was       *)
(* accepted is delivered at most once, and the sender may forget it only   *)
(* after it was delivered.                                                 *)
(***************************************************************************)
EXTENDS Naturals

CONSTANT Messages
VARIABLES accepted, delivered, released
vars == <<accepted, delivered, released>>

Init == accepted = {} /\ delivered = [m \in Messages |-> 0] /\ released = {}

Accept(m) ==
  /\ m \notin accepted
  /\ accepted' = accepted \cup {m}
  /\ UNCHANGED <<delivered, released>>

Deliver(m) ==
  /\ m \in accepted /\ delivered[m] = 0
  /\ delivered' = [delivered EXCEPT ![m] = 1]
  /\ UNCHANGED <<accepted, released>>

Release(m) ==
  /\ delivered[m] = 1 /\ m \notin released
  /\ released' = released \cup {m}
  /\ UNCHANGED <<accepted, delivered>>

Next == \E m \in Messages : Accept(m) \/ Deliver(m) \/ Release(m)
Spec == Init /\ [][Next]_vars
==============================================================================
