--------------------------- MODULE MCSplitTransfer ---------------------------
(***************************************************************************)
(* Instances of SplitTransfer for TLC: a message that is split from the    *)
(* start, one split after a step-down, one split only on the last rung.    *)
(***************************************************************************)
EXTENDS SplitTransfer
CONSTANTS m1, m2, m3

Sizes == [m \in Messages |-> IF m = m1 THEN 4 ELSE IF m = m2 THEN 3 ELSE 2]
ThreeRungs == <<3, 2, 1>>
=============================================================================
