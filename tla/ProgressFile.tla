---------------------------- MODULE ProgressFile ----------------------------
(***************************************************************************)
(* What survives the end of the program: the table of DownloadProgress,    *)
(* the data of the file (FileIO) and the .gitabic file in which the table  *)
(* is kept. The program may end between any two writes; the next one reads *)
(* the table back. Two threads work on the table: the one that chooses     *)
(* blocks and verifies the file, and the one that stores what arrives.     *)
(***************************************************************************)
EXTENDS DownloadProgress

CONSTANTS
    CreatorLengths, \* lengths of the creator's name that are looked at
    NameLength,     \* the length of the name of the file
    MaxTotal,       \* bound: of the counted bytes
    MaxTroubles     \* bound: how often in all the program ends, the file is added
                    \* again, a request times out, a block comes late or corrupted

ASSUME FileAssumption ==
    /\ IsFiniteSet(Piece) /\ IsFiniteSet(Block)
    /\ CreatorLengths \subseteq Nat /\ NameLength \in Nat
    /\ MaxTotal \in Nat /\ MaxTroubles \in Nat
    /\ Thread = {"chooser", "responder"}

VARIABLES
    creator,        \* the length of _creator
    disk,           \* what the data file holds of each block
    file,           \* the .gitabic file, as deserialize reads it
    life,           \* what the program does with the file
    chooser,        \* where downloadFile is
    left,           \* the pieces it has still to set
    responder,      \* where saveBlock is, and with which block
    faults,         \* what went wrong that the file does not get over
    troubles        \* how many there were

fileVars == <<creator, disk, file, life, chooser, left, responder, faults, troubles>>
vars == <<progressVars, fileVars>>

Trouble == troubles < MaxTroubles /\ troubles' = troubles + 1

Idle == [pc |-> "idle", block |-> 0]

-----------------------------------------------------------------------------
(* The layout of the .gitabic file, in bytes.                              *)

\* serialize: completed, total, size, two times and the hash; the lengths and
\* the names; the address; the number of pieces.
HeaderLength == 1 + 8 + 8 + 8 + 8 + 32 + (1 + NameLength) + (1 + creator) + 6 + 4

\* PieceProgress::serialize: offset, size, bytesDownloaded, lastAccess, status,
\* hash and the number of blocks; BlockInfo::serialize: offset, size,
\* isLastBlock and status.
PieceLength(p) == (8 + 4 + 4 + 8 + 4 + 32 + 4) + Cardinality(BlocksOf(p)) * (4 + 2 + 1 + 4)

Before(p) == {q \in Piece : q < p}

\* Where bytesDownloaded of a piece begins: every piece but the last has as
\* many blocks as the first.
BytesDownloadedAt(p) == HeaderLength + Cardinality(Before(p)) * PieceLength(1) + 8 + 4

\* Mutant of getPieceOffsetInProgressFile: the offset and the size of the
\* piece are not skipped.
OffsetOfPiece(p) == 81 + Cardinality(Before(p)) * (64 + Cardinality(BlocksOf(1)) * 11) + NameLength

\* Where updatePieceStateToFile writes it: the length of the creator's name is
\* taken for 4.
getPieceOffsetInProgressFile(p) ==
    81 + Cardinality(Before(p)) * (64 + Cardinality(BlocksOf(1)) * 11) + 12 + NameLength

\* serializeForFileUpdate writes bytesDownloaded, status and lastAccess where
\* deserialize reads bytesDownloaded, lastAccess and status: it takes for the
\* status the upper half of a time in seconds, which is 0 until 2106.
StatusReadBack(s) == "Empty"

-----------------------------------------------------------------------------
(* The file is added, and read back.                                       *)

Table == [piece |-> pieceStatus, block |-> blockStatus, total |-> total,
          completed |-> completed, readable |-> TRUE]

Fresh == [piece |-> [p \in Piece |-> "Empty"], block |-> [b \in Block |-> "Empty"],
          total |-> 0, completed |-> FALSE, readable |-> TRUE]

Init ==
    /\ ProgressInit
    /\ creator \in CreatorLengths
    /\ disk = [b \in Block |-> "none"]
    /\ file = Fresh
    /\ life = "new"
    /\ chooser = "run" /\ left = {}
    /\ responder = Idle
    /\ faults = {}
    /\ troubles = 0

\* handleAddFile, for a file that is new: initNew makes a place holder and
\* writes the fresh table.
Add ==
    /\ life = "new"
    /\ life' = "loaded"
    /\ UNCHANGED <<progressVars, creator, disk, file, chooser, left, responder, faults, troubles>>

\* handleAddFile, for a file that a handler works on: the place holder takes
\* the place of the data, the fresh table that of the file, but the handler is
\* resumed with the table it has.
AddAgain ==
    /\ life = "loaded"
    /\ Trouble
    /\ disk' = [b \in Block |-> "none"]
    /\ file' = Fresh
    /\ faults' = faults \cup {"added again"}
    /\ chooser' = IF chooser = "seed" /\ "stopped" \in faults THEN "run" ELSE chooser
    /\ UNCHANGED <<progressVars, creator, life, left, responder>>

\* addFileToSeed: the table is done and is saved, then the data is copied.
AddToSeed ==
    /\ life = "new"
    /\ Done
    /\ life' = "copying"
    /\ file' = Table'
    /\ UNCHANGED <<creator, disk, chooser, left, responder, faults, troubles>>

Copy ==
    /\ life = "copying"
    /\ life' = "loaded"
    /\ disk' = [b \in Block |-> "good"]
    /\ UNCHANGED <<progressVars, creator, file, chooser, left, responder, faults, troubles>>

\* What is left behind by the end of the program at this place.
Cut == (IF responder.pc = "total" THEN {"torn"} ELSE {})
       \cup (IF life = "copying" THEN {"not copied"} ELSE {})

\* The program ends, and all its threads with it; the next one reads the
\* table. What is read of a file that is cut off or written at the wrong place
\* is undefined.
Restart ==
    /\ life \in {"loaded", "copying"}
    /\ Trouble
    /\ faults' = faults \cup Cut
    /\ life' = IF file.readable THEN "loaded" ELSE "undefined"
    /\ pieceStatus' = file.piece /\ blockStatus' = file.block
    /\ total' = file.total /\ completed' = file.completed
    /\ checking' = {}
    /\ chooser' = "run" /\ left' = {}
    /\ responder' = Idle
    /\ UNCHANGED <<creator, disk, file>>

-----------------------------------------------------------------------------
(* The thread that chooses blocks (downloadFile).                          *)

PieceGood(p) == \A b \in BlocksOf(p) : disk[b] = "good"

Running == life = "loaded" /\ chooser = "run"

\* ChooseBlocks requests every block of an Empty piece, and those of a piece
\* that is Downloading which are Empty.
Request(b) ==
    /\ Running
    /\ \/ pieceStatus[PieceOf[b]] = "Empty" /\ blockStatus[b] # "Downloading"
       \/ pieceStatus[PieceOf[b]] = "Downloading" /\ blockStatus[b] = "Empty"
    /\ UpdateBlockStatus("chooser", b, "Downloading")
    /\ UNCHANGED fileVars

\* A request timed out.
Expire(b) ==
    /\ Running
    /\ Trouble
    /\ blockStatus[b] = "Downloading"
    /\ UpdateBlockStatus("chooser", b, "Empty")
    /\ UNCHANGED <<creator, disk, file, life, chooser, left, responder, faults>>

\* Mutant of Damaged: the file is not read.
DamagedNone == {}

\* getDamagedPieces
Damaged == {p \in Piece : ~PieceGood(p)}

\* progress() >= 1: verifyFile reads the data; then the pieces found damaged
\* are reset, or the loop ends.
Verify ==
    /\ Running /\ Full /\ "chooser" \notin checking
    /\ IF Damaged = {} THEN chooser' = "finish" /\ left' = Piece
                       ELSE chooser' = "reset" /\ left' = Damaged
    /\ UNCHANGED <<progressVars, creator, disk, file, life, responder, faults, troubles>>

\* stop() ends the loop as a download that is complete does.
Stop ==
    /\ Running /\ "chooser" \notin checking
    /\ chooser' = "finish" /\ left' = Piece
    /\ faults' = faults \cup {"stopped"}
    /\ UNCHANGED <<progressVars, creator, disk, file, life, responder, troubles>>

\* The file says that a block of the piece is there.
Saved(p) == \E b \in BlocksOf(p) : file.block[b] \in Held

ResetDamaged(p) ==
    /\ life = "loaded" /\ chooser = "reset" /\ p \in left
    /\ UpdatePieceStatus("chooser", p, "Empty")
    /\ left' = left \ {p}
    /\ faults' = IF Saved(p) THEN faults \cup {"reset"} ELSE faults
    /\ UNCHANGED <<creator, disk, file, life, chooser, responder, troubles>>

EndReset ==
    /\ chooser = "reset" /\ left = {} /\ "chooser" \notin checking
    /\ chooser' = "run"
    /\ UNCHANGED <<progressVars, creator, disk, file, life, left, responder, faults, troubles>>

\* changeAllStatus, for all pieces at once.
ChangeAllStatus ==
    /\ life = "loaded" /\ chooser = "finish" /\ left # {}
    /\ pieceStatus' = [p \in Piece |-> "Verified"]
    /\ blockStatus' = [b \in Block |-> "Verified"]
    /\ total' = total + Size(UNION {Added(p, "Verified") : p \in Piece})
    /\ total' <= MaxTotal
    /\ checking' = checking \cup {"chooser"}
    /\ left' = {}
    /\ UNCHANGED <<completed, creator, disk, file, life, chooser, responder, faults, troubles>>

\* saveProgressToFile empties the file before it writes it.
Truncate ==
    /\ chooser = "finish" /\ left = {} /\ "chooser" \notin checking
    /\ file' = [file EXCEPT !.readable = FALSE]
    /\ chooser' = "save"
    /\ UNCHANGED <<progressVars, creator, disk, life, left, responder, faults, troubles>>

Save ==
    /\ chooser = "save"
    /\ file' = Table
    /\ chooser' = "seed"
    /\ UNCHANGED <<progressVars, creator, disk, life, left, responder, faults, troubles>>

-----------------------------------------------------------------------------
(* The thread that stores what arrives (saveBlock).                        *)

At(pc, b) == responder = [pc |-> pc, block |-> b]

\* c is the first block of the piece after the one that b is the last of.
Follows(c, b) ==
    /\ PieceOf[c] = PieceOf[b] + 1
    /\ \A d \in BlocksOf(PieceOf[b]) : d <= b
    /\ \A d \in BlocksOf(PieceOf[c]) : c <= d

\* A block is written, whatever its status: one that is requested may be
\* corrupted, one that is not comes late, and the last of a piece comes with
\* the beginning of the next piece, whether the other peer has got it or not.
Arrive(b) ==
    /\ life = "loaded" /\ responder = Idle
    /\ \/ /\ disk' = [disk EXCEPT ![b] = "good"]
          /\ IF blockStatus[b] = "Downloading" THEN UNCHANGED troubles ELSE Trouble
          /\ UNCHANGED faults
       \/ /\ Trouble
          /\ disk' = [disk EXCEPT ![b] = "bad"]
          /\ faults' = IF disk[b] = "good" THEN faults \cup {"overwritten"} ELSE faults
       \/ /\ Trouble
          /\ \E c \in Block : /\ Follows(c, b) /\ disk[c] = "good"
                             /\ disk' = [disk EXCEPT ![b] = "good", ![c] = "bad"]
          /\ faults' = faults \cup {"overwritten"}
    /\ responder' = [pc |-> "count", block |-> b]
    /\ UNCHANGED <<progressVars, creator, file, life, chooser, left>>

Count(b) ==
    /\ At("count", b)
    /\ DownloadedBlock("responder", b)
    /\ total' <= MaxTotal
    /\ responder' = IF pieceStatus'[PieceOf[b]] = "Downloaded"
                    THEN [pc |-> "settle", block |-> b] ELSE Idle
    /\ UNCHANGED <<creator, disk, file, life, chooser, left, faults, troubles>>

Outcome(p) == IF PieceGood(p) THEN "Verified" ELSE "Empty"

Settle(b) ==
    /\ At("settle", b)
    /\ UpdatePieceStatus("responder", PieceOf[b], Outcome(PieceOf[b]))
    /\ total' <= MaxTotal
    /\ responder' = [pc |-> "piece", block |-> b]
    /\ UNCHANGED <<creator, disk, file, life, chooser, left, faults, troubles>>

\* The first write of updatePieceStateToFile: the piece. At a wrong place it
\* lies across the fields that are read.
WritePiece(b) ==
    LET p == PieceOf[b] IN
    /\ At("piece", b) /\ "responder" \notin checking
    /\ file' = IF getPieceOffsetInProgressFile(p) = BytesDownloadedAt(p)
               THEN [file EXCEPT
                       !.piece[p] = StatusReadBack(pieceStatus[p]),
                       !.block = [c \in Block |-> IF PieceOf[c] = p THEN blockStatus[c] ELSE @[c]]]
               ELSE [file EXCEPT !.readable = FALSE]
    /\ responder' = [pc |-> "total", block |-> b]
    /\ UNCHANGED <<progressVars, creator, disk, life, chooser, left, faults, troubles>>

\* Mutant of TotalWritten: the total is written with the whole file only.
TotalKept == file.total

TotalWritten == total

\* The second and the third: the total, and the time, which nothing depends
\* on. completed is written with the whole file only.
WriteTotal(b) ==
    /\ At("total", b)
    /\ file' = [file EXCEPT !.total = TotalWritten]
    /\ responder' = Idle
    /\ UNCHANGED <<progressVars, creator, disk, life, chooser, left, faults, troubles>>

TestCompleted(t) ==
    /\ CheckCompleted(t)
    /\ UNCHANGED fileVars

-----------------------------------------------------------------------------
ChooserNext ==
    \/ \E b \in Block : Request(b) \/ Expire(b)
    \/ \E p \in Piece : ResetDamaged(p)
    \/ ChangeAllStatus \/ Verify \/ Stop \/ EndReset \/ Truncate \/ Save

ResponderNext ==
    \E b \in Block : Arrive(b) \/ Count(b) \/ Settle(b) \/ WritePiece(b) \/ WriteTotal(b)

Next ==
    \/ Add \/ AddAgain \/ AddToSeed \/ Copy \/ Restart
    \/ ChooserNext
    \/ ResponderNext
    \/ \E t \in Thread : TestCompleted(t)

Spec == Init /\ [][Next]_vars

-----------------------------------------------------------------------------
(* Properties.                                                             *)

\* With a creator's name of four letters what is written of a piece lies where
\* it is read, so that only the end of the program during a save makes the file
\* unreadable.
StaysReadable == life = "loaded" /\ creator = 4 /\ chooser # "save" => file.readable

\* However often the program ends and is started again, the total covers what
\* is held, so that the download is complete in time and the unsigned total
\* never goes below zero, unless the program ended between the two writes
\* of a piece and the total, or a piece was reset that the file says is held.
CountSurvives ==
    life = "loaded" /\ faults \cap {"torn", "reset"} = {} => total >= Size(Counted)

\* What is Verified is whole on the disk after a restart, too, unless the user
\* stops the download or adds the file again, the program ends before the file
\* to seed is copied, or a good block is overwritten with other data: other
\* corrupted blocks, updates that are cut in two and statuses in the file that
\* are no longer true do not matter.
VerifiedSurvives ==
    life = "loaded" /\ faults \subseteq {"torn", "reset"} =>
        \A p \in Piece : pieceStatus[p] = "Verified" => PieceGood(p)
=============================================================================
