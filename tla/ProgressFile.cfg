CONSTANTS
    Piece = {1, 2}
    Block = {11, 12, 21}
    PieceOf <- MCPieceOf
    Byte = {1, 2, 3}
    BlockOf <- MCBlockOf
    Thread = {"chooser", "responder"}
    CreatorLengths = {4, 5}
    NameLength = 3
    MaxTotal = 4
    MaxTroubles = 2
    KB = 4
    MIN_PIECE_SIZE = 8
    MAX_PIECE_SIZE = 16
    BLOCK_SIZE = 3
    UintSize = 64
    FileSizes = {0, 1, 2, 3, 4, 7, 8, 9, 16, 17, 31, 32, 33, 35, 36, 50, 63, 64, 70, 80}
    Lengths = {0, 1, 4, 255, 256}
    HashCounts = {0, 1, 3}

SPECIFICATION Spec
\* The download is over once the handler is a seed, or the table undefined.
CHECK_DEADLOCK FALSE
CONSTRAINT Told
INVARIANTS
    StaysReadable
    
    VerifiedSurvives
    FileDescribed
    FilesReadBack
