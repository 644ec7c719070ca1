------------------------- MODULE MCReliabilityLayer -------------------------
(***************************************************************************)
(* Instances of ReliabilityLayer for TLC: three messages, and the          *)
(* reliabilities they are sent with.                                       *)
(***************************************************************************)
EXTENDS ReliabilityInvariant, TLC
CONSTANTS m1, m2, m3

AllReliable == [m \in Messages |-> "ReliableWithAckReceipt"]
MixedReliability ==
  [m \in Messages |-> IF m = m3 THEN "UnreliableWithAckReceipt" ELSE "ReliableWithAckReceipt"]
ReceiptReliability ==
  [m \in Messages |-> IF m = m3 THEN "Reliable" ELSE "UnreliableWithAckReceipt"]
Symmetry == Permutations(Messages)
=============================================================================
