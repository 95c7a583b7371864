--------------------------- MODULE MCIceSignaling ---------------------------
(* Instances of IceSignaling: three interchangeable peers, and the messages  *)
(* of the program on the streams and connections they have.                 *)
EXTENDS SignalingMessages

CONSTANTS p1, p2, p3

\* RequestEnds, of one peer, as the peers are interchangeable: a call of
\* addFileForPeer returns unless peers wait for each other in a circle, or for
\* one that has left.
RequestsEnd == RequestEnds(p1)
=============================================================================
