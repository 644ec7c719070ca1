--------------------------- MODULE MCPeerConnection ---------------------------
(***************************************************************************)
(* Instances of PeerConnection: two peers that dial a server, one peer     *)
(* that dials another, and two peers that dial each other.                 *)
(***************************************************************************)
EXTENDS PeerConnection, TLC

CONSTANTS srv, p1, p2

NoOne == {}
(* Every peer has an IP of its own.                                        *)
OwnHost == [p \in Peer |-> p]

Server == {srv}
ServerPeers == {srv, p1, p2}
ServerDials == {<<p1, srv>>, <<p2, srv>>}
DialSymmetry == Permutations({p1, p2})

CrossPeers == {p1, p2}
CrossDials == {<<p1, p2>>, <<p2, p1>>}
OneDials == {<<p1, p2>>}
AnyData == {"DATA_ORDERED", "DATA_UNORDERED"}
===============================================================================
