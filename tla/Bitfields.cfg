CONSTANTS
    q1 = q1
    q2 = q2
    i1 = i1
    Peer = {q1, q2}
    Piece = {i1}
    MaxLost = 1

SPECIFICATION BitfieldsSpec
\* All pieces may be known, or the program ended.
CHECK_DEADLOCK FALSE
SYMMETRY PeerSymmetry
INVARIANTS
    KnownBeforeUse
    
    
