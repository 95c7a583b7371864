CONSTANTS
    p1 = p1
    p2 = p2
    Piece = {1}
    Block = {11, 12}
    PieceOf <- MCPieceOf1
    Byte = {1, 2, 3}
    BlockOf <- MCBlockOf1
    Thread = {"chooser", "responder"}
    Peer = {p1}
    Nobody = Nobody
    HasPiece <- AllHave
    SpillsOver <- MCSpillsOver
    MinWindow = 2
    MaxWindow = 2
    InitialWindow = 2
    MaxTimeouts = 0
    MaxCorrupt = 0
    MaxLost = 0
    MaxTotal = 3
    MayStop = TRUE

SPECIFICATION Spec
\* The download is over once the handler is a seed.
CHECK_DEADLOCK FALSE
INVARIANTS
    VerifiedIsGood
