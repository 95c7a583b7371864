--------------------------- MODULE MCProgressFile ---------------------------
(* Two pieces, the first of two blocks; and the files the program reads and *)
(* writes, with the sizes of the code made small.                          *)
EXTENDS ProgramFiles, TLC

MCPieceOf == (11 :> 1) @@ (12 :> 1) @@ (21 :> 2)
MCBlockOf == (1 :> 11) @@ (2 :> 12) @@ (3 :> 21)

\* States of which both properties speak no more are not gone on from.
Told == faults \subseteq {"torn", "reset"} \/ faults \cap {"torn", "reset"} = {}
=============================================================================
