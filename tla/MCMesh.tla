------------------------------- MODULE MCMesh -------------------------------
(* Three peers that form a full mesh.  The oldest is not the one the       *)
(* others dial, and the youngest draws the lowest random part.             *)
EXTENDS FullyConnectedMesh2

CONSTANTS peer1, peer2, peer3

Three == {peer1, peer2, peer3}
Ages == peer1 :> 2 @@ peer2 :> 1 @@ peer3 :> 3
Lots == peer1 :> {1} @@ peer2 :> {2} @@ peer3 :> {0}
Triangle == {<<peer2, peer1>>, <<peer3, peer1>>, <<peer3, peer2>>}
Middle == {peer1}
=============================================================================
