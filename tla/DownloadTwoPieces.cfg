CONSTANTS
    p1 = p1
    p2 = p2
    Piece = {1, 2}
    Block = {11, 12, 21}
    PieceOf <- MCPieceOf
    Byte = {1, 2, 3, 4}
    BlockOf <- MCBlockOf
    Thread = {"chooser", "responder"}
    Peer = {p1}
    Nobody = Nobody
    HasPiece <- AllHave
    SpillsOver <- MCSpillsOver
    MinWindow = 2
    MaxWindow = 2
    InitialWindow = 2
    MaxTimeouts = 1
    MaxCorrupt = 1
    MaxLost = 1
    MaxTotal = 4
    MayStop = FALSE

SPECIFICATION Spec
\* The download is over once the handler is a seed.
CHECK_DEADLOCK FALSE
INVARIANTS
    TypeOK
    NeverUndercounts
    NoPieceStuckDownloaded
    Integrity
    CorruptionCaught
    VerifiedIsWritten
