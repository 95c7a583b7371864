----------------------------- MODULE MCDownload -----------------------------
(* Instances of Download: two pieces, of two blocks and of one, or one piece. *)
EXTENDS Download, TLC

CONSTANTS p1, p2   \* two peers

MCPieceOf == (11 :> 1) @@ (12 :> 1) @@ (21 :> 2)
MCBlockOf == (1 :> 11) @@ (2 :> 11) @@ (3 :> 12) @@ (4 :> 21)

MCPieceOf1 == (11 :> 1) @@ (12 :> 1)
MCBlockOf1 == (1 :> 11) @@ (2 :> 11) @@ (3 :> 12)

\* The first piece has one block, the second two.
MCPieceOfE == (11 :> 1) @@ (21 :> 2) @@ (22 :> 2)
MCBlockOfE == (1 :> 11) @@ (2 :> 21) @@ (3 :> 21) @@ (4 :> 22)

\* Every peer has the whole file.
AllHave == [q \in Peer |-> Piece]

\* One peer has the whole file, the other only its first piece.
PartHave == (p1 :> {1, 2}) @@ (p2 :> {1})

\* An answer for the last block of the first piece reaches into the second.
MCSpillsOver == [b \in Block |->
    {c \in Block : /\ PieceOf[c] = PieceOf[b] + 1
                   /\ \A d \in Block : PieceOf[d] = PieceOf[b] => d <= b
                   /\ \A d \in Block : PieceOf[d] = PieceOf[c] => c <= d}]

=============================================================================
