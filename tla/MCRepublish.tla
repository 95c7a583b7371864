---------------------------- MODULE MCRepublish -----------------------------
(* Instances of Republish. *)
EXTENDS Republish, TLC

CONSTANTS p1, p2, f1, f2

RepublishSymmetry == Permutations(File)
=============================================================================
