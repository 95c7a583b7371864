--------------------------- MODULE MCPeerManager ----------------------------
(* Instances of PeerManager. *)
EXTENDS PeerManager

CONSTANTS p1, p2, f1, f2

Threads == {"updater", "worker"} \X File

\* The server lists every peer.
FullList == {Peer}
=============================================================================
