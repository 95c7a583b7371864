---------------------------- MODULE MCPeerLists -----------------------------
(* Instances of PeerLists. *)
EXTENDS PeerLists, TLC

CONSTANTS m1, m2, m3

=============================================================================
