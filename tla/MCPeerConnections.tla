------------------------- MODULE MCPeerConnections --------------------------
(* Instances of PeerConnections. *)
EXTENDS PeerConnections

CONSTANTS p1, p2, f1, f2, t1, t2
=============================================================================
