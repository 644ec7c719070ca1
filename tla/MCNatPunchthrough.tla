------------------------- MODULE MCNatPunchthrough -------------------------
(***************************************************************************)
(* Instances of NatPunchthrough: three clients of one facilitator.         *)
(***************************************************************************)
EXTENDS NatPunchthrough

CONSTANTS c1, c2, c3

Three == {c1, c2, c3}
First == {c1}
Third == {c3}

(* Two clients compete for a third, which asks for one of them.             *)
AskEachOther == {<<c1, c2>>, <<c2, c1>>, <<c3, c2>>}
(* The client that is asked for asks for another one itself.                *)
Chain == {<<c1, c2>>, <<c2, c3>>}
None == {}
===========================================================================
