----------------------------- MODULE FileLayout -----------------------------
(***************************************************************************)
(* How a file is divided into pieces and blocks, and the files that say    *)
(* so: the metadata file one peer makes and another reads (MetaDataFile)   *)
(* and the progress file a program makes and reads when it is started      *)
(* again (DownloadProgress). The sizes of the code are constants, so that  *)
(* the boundaries between them can be reached.                             *)
(***************************************************************************)
EXTENDS Layout, FiniteSetsExt

CONSTANTS
    KB,             \* the divisor of pieceSize
    MIN_PIECE_SIZE, MAX_PIECE_SIZE, BLOCK_SIZE,
    UintSize,       \* 2^32, which is MAX_PIECE_SIZE * KB
    FileSizes,      \* sizes of files that are looked at
    Lengths,        \* lengths of names that are looked at
    HashCounts      \* numbers of hashes that are looked at

ASSUME FileLayoutAssumption ==
    /\ {KB, MIN_PIECE_SIZE, MAX_PIECE_SIZE, BLOCK_SIZE} \subseteq Nat \ {0}
    /\ UintSize = MAX_PIECE_SIZE * KB
    /\ FileSizes \subseteq Nat /\ Lengths \subseteq Nat /\ HashCounts \subseteq Nat

Smaller(m, n) == Min({m, n})

\* FileSplitter::pieceSize
pieceSize(n) ==
    CASE n <= MIN_PIECE_SIZE -> n
      [] n > MIN_PIECE_SIZE /\ n <= KB * MIN_PIECE_SIZE -> MIN_PIECE_SIZE
      [] n > KB * MIN_PIECE_SIZE /\ n <= MAX_PIECE_SIZE * KB -> n \div KB
      [] OTHER -> MAX_PIECE_SIZE

\* How many parts of size s it takes for n bytes; none for no bytes.
Parts(n, s) == IF n = 0 THEN 0 ELSE (n + s - 1) \div s

\* n bytes from the first on, in parts of size s and a last one of what is left.
Divided(n, s) ==
    [i \in 1..Parts(n, s) |-> [offset |-> (i - 1) * s, size |-> Smaller(s, n - (i - 1) * s)]]

\* Mutant of PiecesOf: the last piece is as long as the others.
PiecesWhole(n) ==
    [i \in 1..Parts(n, pieceSize(n)) |-> [offset |-> (i - 1) * pieceSize(n), size |-> pieceSize(n)]]

\* The pieces of a file of n bytes (DownloadProgress::init) and the blocks of
\* a piece of n bytes (PieceProgress).
PiecesOf(n) == Divided(n, pieceSize(n))
BlocksOfPiece(n) == Divided(n, BLOCK_SIZE)

\* What the hashes in the metadata are made of: the number of bytes left is
\* cut off to 32 bits before it is compared.
HashedPieces(n) ==
    [i \in 1..Parts(n, pieceSize(n)) |->
        [offset |-> (i - 1) * pieceSize(n),
         size |-> Smaller(pieceSize(n), (n - (i - 1) * pieceSize(n)) % UintSize)]]

\* Where block j of piece i, both from 0 on, is in the file, and the piece in
\* which a place is.
getOffset(n, i, j) == pieceSize(n) * i + j * BLOCK_SIZE
getPieceIndex(n, offset) == offset \div pieceSize(n)

\* The bytes of block j of piece i.
BytesOf(n, i, j) ==
    LET block == BlocksOfPiece(PiecesOf(n)[i].size)[j]
        at == getOffset(n, i - 1, j - 1)
    IN at..(at + block.size - 1)

-----------------------------------------------------------------------------
(* The metadata file.                                                      *)

SerializedString(name, n) == <<Field("size", 4), Field(name, n)>>
Hashes(n) == [i \in 1..n |-> Field("hash", 32)]
Salt(password) == IF password THEN <<Field("salt", 16)>> ELSE <<>>

\* Mutant of MetaData: the creator is written without its length.
MetaDataNoSize(name, creatorName, parts, password) ==
    <<Field("sizes", 8)>> \o SerializedString("fileName", name)
    \o <<Field("creator", creatorName), Field("fileHash", 32)>> \o Hashes(parts)
    \o <<Field("ip", 4), Field("lowByteOfPort", 1), Field("lowByteOfNext", 1),
         Field("aesKey", 16)>> \o Salt(password)

\* Of the port, the lower byte is written, and that of the next two bytes.
MetaData(name, creatorName, parts, password) ==
    <<Field("sizes", 8)>> \o SerializedString("fileName", name)
    \o SerializedString("creator", creatorName) \o <<Field("fileHash", 32)>> \o Hashes(parts)
    \o <<Field("ip", 4), Field("lowByteOfPort", 1), Field("lowByteOfNext", 1),
         Field("aesKey", 16)>> \o Salt(password)

\* The number of hashes has 16 bits.
partsCount(parts) == parts % 65536

\* What is read, when the lengths are those that were written.
ReadMetaData(name, creatorName, parts, password) ==
    <<Field("sizes", 8), Field("size", 4), Field("fileName", name),
      Field("size", 4), Field("creator", creatorName), Field("fileHash", 32)>>
    \o Hashes(partsCount(parts))
    \o <<Field("ip", 4), Field("port", 2), Field("aesKey", 16)>> \o Salt(password)

-----------------------------------------------------------------------------
(* The progress file, for a file of n bytes.                               *)

BlockInfo == <<Field("offset", 4), Field("size", 2), Field("isLastBlock", 1), Field("status", 4)>>

BlockInfos(blocks) == [i \in 1..(4 * blocks) |-> BlockInfo[((i - 1) % 4) + 1]]

\* PieceProgress::serialize of a piece with so many blocks, what is written
\* over it from bytesDownloaded on, and what is read.
PieceInfo(blocks) ==
    <<Field("offset", 8), Field("size", 4), Field("bytesDownloaded", 4), Field("lastAccess", 8),
      Field("status", 4), Field("hash", 32), Field("blocksCount", 4)>> \o BlockInfos(blocks)
PieceUpdate(blocks) ==
    <<Field("bytesDownloaded", 4), Field("status", 4), Field("lastAccess", 8),
      Field("hash", 32), Field("blocksCount", 4)>> \o BlockInfos(blocks)
ReadPieceInfo(blocks) ==
    <<Field("offset", 8), Field("size", 4), Field("bytesDownloaded", 4), Field("lastAccess", 8),
      Field("status", 4), Field("hash", 32), Field("blocksCount", 4)>> \o BlockInfos(blocks)

\* DownloadProgress::serialize and deserialize, up to the pieces: the lengths
\* of the names have one byte.
Progress(name, creatorName) ==
    <<Field("completed", 1), Field("totalDownloadBytes", 8), Field("fileSize", 8),
      Field("startTime", 8), Field("lastTime", 8), Field("fileHash", 32),
      Field("nameSize", 1), Field("fileName", name),
      Field("creatorSize", 1), Field("creator", creatorName),
      Field("signalingAddress", 6), Field("piecesCount", 4)>>
ReadProgress(name, creatorName) ==
    <<Field("completed", 1), Field("totalDownloadBytes", 8), Field("fileSize", 8),
      Field("startTime", 8), Field("lastTime", 8), Field("fileHash", 32),
      Field("nameSize", 1), Field("fileName", name % 256),
      Field("creatorSize", 1), Field("creator", creatorName % 256),
      Field("signalingAddress", 6), Field("piecesCount", 4)>>

-----------------------------------------------------------------------------
\* A sequence of fields is read as it was written, but for the named ones.
SameBut(fields, read, names) ==
    {f \in Written(read) : f.name \notin names} = {f \in Written(fields) : f.name \notin names}

PortBytes == {"port", "lowByteOfPort", "lowByteOfNext"}

\* The sizes for which every byte of the file is in one block, that of the
\* piece its place is in, and every piece has its hash.
Described ==
    {n \in FileSizes :
        LET Blocks == UNION {{<<i, j>> : j \in DOMAIN BlocksOfPiece(PiecesOf(n)[i].size)}
                             : i \in DOMAIN PiecesOf(n)}
        IN /\ UNION {BytesOf(n, b[1], b[2]) : b \in Blocks} = 0..(n - 1)
           /\ \A b, c \in Blocks : b # c => BytesOf(n, b[1], b[2]) \cap BytesOf(n, c[1], c[2]) = {}
           /\ \A b \in Blocks : \A x \in BytesOf(n, b[1], b[2]) : getPieceIndex(n, x) = b[1] - 1
           /\ HashedPieces(n) = PiecesOf(n)}

\* The lengths of names for which a metadata file is read as it was written,
\* but for the port.
MetaDataRead ==
    {l \in Lengths \X Lengths :
        \A parts \in HashCounts, password \in BOOLEAN :
            SameBut(MetaData(l[1], l[2], parts, password),
                    ReadMetaData(l[1], l[2], parts, password), PortBytes)}

\* The lengths of names for which a progress file is.
ProgressRead ==
    {l \in Lengths \X Lengths : SameBut(Progress(l[1], l[2]), ReadProgress(l[1], l[2]), {})}

\* The numbers of blocks of a piece that is read as it was written, before
\* and after it is written over, but for what the update has in another order.
PieceRead ==
    {blocks \in HashCounts :
        /\ SameBut(PieceInfo(blocks), ReadPieceInfo(blocks), {})
        /\ SameBut(<<Field("offset", 8), Field("size", 4)>> \o PieceUpdate(blocks),
                   ReadPieceInfo(blocks), {"status", "lastAccess"})}
=============================================================================
