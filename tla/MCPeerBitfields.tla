-------------------------- MODULE MCPeerBitfields ---------------------------
(* Two interchangeable peers, and a file of one piece. *)
EXTENDS PeerBitfields, TLC

CONSTANTS q1, q2, i1

PeerSymmetry == Permutations(Peer)
=============================================================================
