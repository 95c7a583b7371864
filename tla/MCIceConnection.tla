-------------------------- MODULE MCIceConnection ---------------------------
(* Instances of IceConnection. *)
EXTENDS IceConnection
=============================================================================
