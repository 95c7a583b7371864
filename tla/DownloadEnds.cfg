CONSTANTS
    p1 = p1
    p2 = p2
    Piece = {1, 2}
    Block = {11, 21, 22}
    PieceOf <- MCPieceOfE
    Byte = {1, 2, 3, 4}
    BlockOf <- MCBlockOfE
    Thread = {"chooser", "responder"}
    Peer = {p1, p2}
    Nobody = Nobody
    HasPiece <- PartHave
    SpillsOver <- MCSpillsOver
    MinWindow = 1
    MaxWindow = 2
    InitialWindow = 1
    MaxTimeouts = 0
    MaxCorrupt = 0
    MaxLost = 1
    MaxTotal = 40
    MayStop = TRUE

SPECIFICATION FairSpec
\* The download is over once the handler is a seed or the user stopped it.
CHECK_DEADLOCK FALSE
INVARIANTS
    ExactWhenUndisturbed
    TrackedUnlessLate
PROPERTIES
    EventuallySeed
