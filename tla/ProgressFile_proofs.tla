------------------------ MODULE ProgressFile_proofs ------------------------
(***************************************************************************)
(* What the .gitabic file says of the data survives every end of the       *)
(* program, for every layout of the file and any number of restarts.       *)
(***************************************************************************)
EXTENDS ProgramFiles, DownloadProgress_proofs, Layout_proofs

\* For a creator's name of four letters updatePieceStateToFile writes where
\* deserialize reads.
LEMMA OffsetRight ==
    ASSUME creator = 4, NEW p
    PROVE  getPieceOffsetInProgressFile(p) = BytesDownloadedAt(p)
<1> DEFINE before == Cardinality(Before(p))
           blocks == Cardinality(BlocksOf(1))
<1>1. IsFiniteSet(Before(p)) /\ IsFiniteSet(BlocksOf(1))
    BY FileAssumption, FS_Subset DEF Before, BlocksOf
<1>2. before \in Nat /\ blocks \in Nat
    BY <1>1, FS_CardinalityType
<1>3. PieceLength(1) = 64 + blocks * 11
    BY <1>2 DEF PieceLength
<1>4. HeaderLength = 81 + NameLength
    BY FileAssumption DEF HeaderLength
<1> HIDE DEF before, blocks
<1>5. before * (64 + blocks * 11) \in Nat
    BY <1>2
<1>6. \A n \in Nat : 81 + n + 12 + NameLength = 81 + NameLength + n + 8 + 4
    BY FileAssumption
<1> QED
    BY <1>3, <1>4, <1>5, <1>6
       DEF getPieceOffsetInProgressFile, BytesDownloadedAt, before, blocks

-----------------------------------------------------------------------------
(* Types: what the two invariants need to know of the tables.              *)

FileRecord == [piece : [Piece -> Status], block : [Block -> Status], total : Int,
               completed : BOOLEAN, readable : BOOLEAN]

FileTypes ==
    /\ pieceStatus \in [Piece -> Status] /\ blockStatus \in [Block -> Status]
    /\ total \in Int /\ completed \in BOOLEAN
    /\ disk \in [Block -> {"none", "good", "bad"}]
    /\ file \in FileRecord
    /\ left \subseteq Piece

\* Both tables that are written whole are records of the file.
LEMMA RecordsWritten ==
    /\ Fresh \in FileRecord /\ Fresh.readable
    /\ \A p \in Piece : Fresh.piece[p] = "Empty"
<1> QED
    BY DEF Fresh, FileRecord, Status

\* The statuses a piece is given are statuses.
LEMMA FileTypes_Step == FileTypes /\ [Next]_vars => FileTypes'
<1> SUFFICES ASSUME FileTypes, [Next]_vars PROVE FileTypes'
    OBVIOUS
<1> USE LayoutAssumption, SizeType DEF FileTypes, Status, fileVars
<1>1. ASSUME NEW b \in Block, Request(b) \/ Expire(b) PROVE FileTypes'
    <2>1. PICK s \in {"Downloading", "Empty"} : UpdateBlockStatus("chooser", b, s)
        BY <1>1 DEF Request, Expire
    <2>2. UNCHANGED <<disk, file, left>>
        BY <1>1 DEF Request, Expire
    <2> QED
        BY <2>1, <2>2 DEF UpdateBlockStatus
<1>2. ASSUME NEW p \in Piece, ResetDamaged(p) PROVE FileTypes'
    BY <1>2 DEF ResetDamaged, UpdatePieceStatus
<1>3. CASE ChangeAllStatus
    BY <1>3 DEF ChangeAllStatus
<1>4. CASE Verify \/ Stop \/ EndReset
    BY <1>4 DEF Verify, Stop, EndReset, progressVars, Damaged
<1>5. CASE Truncate \/ Save
    <2>1. file' \in FileRecord
        <3>1. CASE Truncate
            BY <3>1 DEF Truncate, FileRecord
        <3>2. CASE Save
            BY <3>2 DEF Save, Table, FileRecord
        <3> QED
            BY <1>5, <3>1, <3>2
    <2> QED
        BY <1>5, <2>1 DEF Truncate, Save, progressVars
<1>6. ASSUME NEW b \in Block, Arrive(b) PROVE FileTypes'
    BY <1>6 DEF Arrive, progressVars
<1>7. ASSUME NEW b \in Block, Count(b) PROVE FileTypes'
    BY <1>7 DEF Count, DownloadedBlock, NewBytes
<1>8. ASSUME NEW b \in Block, Settle(b) PROVE FileTypes'
    <2>1. PICK s \in {"Verified", "Empty"} : UpdatePieceStatus("responder", PieceOf[b], s)
        BY <1>8 DEF Settle, Outcome
    <2>2. UNCHANGED <<disk, file, left>>
        BY <1>8 DEF Settle
    <2> QED
        BY <2>1, <2>2 DEF UpdatePieceStatus
<1>9. ASSUME NEW b \in Block, WritePiece(b) PROVE FileTypes'
    <2>1. file' \in FileRecord
        BY <1>9 DEF WritePiece, StatusReadBack, FileRecord
    <2> QED
        BY <1>9, <2>1 DEF WritePiece, progressVars
<1>10. ASSUME NEW b \in Block, WriteTotal(b) PROVE FileTypes'
    <2>1. file' \in FileRecord
        BY <1>10 DEF WriteTotal, TotalWritten, FileRecord
    <2> QED
        BY <1>10, <2>1 DEF WriteTotal, progressVars
<1>11. CASE Add \/ AddAgain \/ Copy \/ Restart
    <2>1. CASE Add \/ Copy
        BY <2>1 DEF Add, Copy, progressVars
    <2>3. CASE AddAgain
        BY <2>3, RecordsWritten DEF AddAgain, progressVars
    <2>2. CASE Restart
        BY <2>2 DEF Restart, FileRecord
    <2> QED
        BY <1>11, <2>1, <2>2, <2>3
<1>12. CASE AddToSeed
    BY <1>12 DEF AddToSeed, Table, Done, FileRecord
<1>13. ASSUME NEW t \in Thread, TestCompleted(t) PROVE FileTypes'
    BY <1>13 DEF TestCompleted, CheckCompleted
<1>14. CASE UNCHANGED vars
    BY <1>14 DEF vars, progressVars
<1> QED
    BY <1>1, <1>2, <1>3, <1>4, <1>5, <1>6, <1>7, <1>8, <1>9, <1>10, <1>11, <1>12, <1>13, <1>14
       DEF Next, ChooserNext, ResponderNext

\* A place holder and a fresh table to begin with.
LEMMA FileTypes_Init == Init => FileTypes
<1> SUFFICES ASSUME Init PROVE FileTypes
    OBVIOUS
<1>1. file \in FileRecord
    BY RecordsWritten DEF Init
<1>2. ProgressTypeOK
    BY ProgressInit_Inv DEF Init, ProgressInv
<1>3. disk \in [Block -> {"none", "good", "bad"}] /\ left \subseteq Piece
    BY DEF Init
<1> QED
    BY <1>1, <1>2, <1>3 DEF FileTypes, ProgressTypeOK

-----------------------------------------------------------------------------
(* The file stays readable: only saveProgressToFile makes it unreadable,   *)
(* and it ends with a file that is read back.                              *)

ReadableInv == creator = 4 /\ life # "undefined" /\ chooser # "save" => file.readable

\* One step of either thread, or the end of the program.
LEMMA Readable_Step == FileTypes /\ ReadableInv /\ [Next]_vars => ReadableInv'
<1> SUFFICES ASSUME FileTypes, ReadableInv, [Next]_vars PROVE ReadableInv'
    OBVIOUS
<1> USE DEF ReadableInv, fileVars
<1>1. ASSUME NEW b \in Block, Request(b) \/ Expire(b) PROVE ReadableInv'
    BY <1>1 DEF Request, Expire
<1>2. ASSUME NEW p \in Piece, ResetDamaged(p) PROVE ReadableInv'
    BY <1>2 DEF ResetDamaged
<1>3. CASE ChangeAllStatus \/ Verify \/ Stop \/ EndReset
    BY <1>3 DEF ChangeAllStatus, Verify, Stop, EndReset, Running
<1>4. CASE Truncate \/ Save
    BY <1>4 DEF Truncate, Save, Table
<1>5. ASSUME NEW b \in Block, Arrive(b) \/ Count(b) \/ Settle(b) PROVE ReadableInv'
    BY <1>5 DEF Arrive, Count, Settle
<1>6. ASSUME NEW b \in Block, WritePiece(b) PROVE ReadableInv'
    <2>1. CASE creator = 4
        <3>1. file'.readable = file.readable
            BY <1>6, <2>1, OffsetRight DEF WritePiece, FileTypes, FileRecord
        <3> QED
            BY <1>6, <3>1 DEF WritePiece
    <2>2. CASE creator # 4
        BY <1>6, <2>2 DEF WritePiece
    <2> QED
        BY <2>1, <2>2
<1>7. ASSUME NEW b \in Block, WriteTotal(b) PROVE ReadableInv'
    BY <1>7 DEF WriteTotal, FileTypes, FileRecord
<1>8. CASE Add \/ AddAgain \/ AddToSeed \/ Copy \/ Restart
    <2>1. CASE Add \/ Copy \/ Restart
        BY <2>1 DEF Add, Copy, Restart
    <2>2. CASE AddAgain
        BY <2>2, RecordsWritten DEF AddAgain
    <2>3. CASE AddToSeed
        BY <2>3 DEF AddToSeed, Table
    <2> QED
        BY <1>8, <2>1, <2>2, <2>3
<1>9. ASSUME NEW t \in Thread, TestCompleted(t) PROVE ReadableInv'
    BY <1>9 DEF TestCompleted
<1>10. CASE UNCHANGED vars
    BY <1>10 DEF vars
<1> QED
    BY <1>1, <1>2, <1>3, <1>4, <1>5, <1>6, <1>7, <1>8, <1>9, <1>10
       DEF Next, ChooserNext, ResponderNext

\* Only a save that the program does not survive leaves an unreadable file, if
\* the creator's name has four letters.
THEOREM FileStaysReadable == Spec => []StaysReadable
<1>1. Init => ReadableInv
    BY DEF Init, ReadableInv, Fresh
<1>2. ReadableInv => StaysReadable
    BY DEF ReadableInv, StaysReadable
<1> QED
    BY <1>1, <1>2, FileTypes_Init, FileTypes_Step, Readable_Step, PTL DEF Spec

-----------------------------------------------------------------------------
(* What is Verified is whole. The table is right, and so is the file from  *)
(* which the next program takes it; while the pieces are being set, saved  *)
(* and shared as a whole, all of them are.                                 *)

Faultless == life = "loaded" /\ faults \subseteq {"torn", "reset"}

WholeInv ==
    /\ \A p \in Piece : pieceStatus[p] = "Verified" => PieceGood(p)
    /\ \A p \in Piece : file.piece[p] = "Verified" => PieceGood(p)
    /\ chooser \in {"finish", "save", "seed"} => \A p \in Piece : PieceGood(p)

SurvivesInv ==
    /\ life = "new" => /\ \A p \in Piece : pieceStatus[p] = "Empty"
                       /\ \A p \in Piece : file.piece[p] = "Empty"
    /\ life \in {"new", "copying"} => chooser = "run" /\ responder = Idle
    /\ Faultless => WholeInv

\* An end of the program: a fault is not forgotten by the next one.
LEMMA Whole_Restart ==
    ASSUME FileTypes, SurvivesInv, Restart, Faultless'
    PROVE  WholeInv'
<1>1. Faultless
    BY DEF Restart, Faultless, Cut
<1>2. UNCHANGED <<disk, file>> /\ pieceStatus' = file.piece /\ chooser' = "run"
    BY DEF Restart
<1> QED
    BY <1>1, <1>2 DEF SurvivesInv, WholeInv, PieceGood

\* A block that arrives is good, or is written over one that was not.
LEMMA Whole_Arrive ==
    ASSUME FileTypes, SurvivesInv, NEW b \in Block, Arrive(b), Faultless'
    PROVE  WholeInv'
<1>1. Faultless
    BY DEF Arrive, Faultless
<1>2. UNCHANGED <<pieceStatus, file, chooser>>
    BY DEF Arrive, progressVars
<1>3. ASSUME NEW p \in Piece, PieceGood(p) PROVE PieceGood(p)'
    <2>1. CASE disk' = [disk EXCEPT ![b] = "good"]
        BY <1>3, <2>1 DEF PieceGood, BlocksOf, FileTypes
    <2>2. CASE disk' = [disk EXCEPT ![b] = "bad"] /\ disk[b] # "good"
        BY <1>3, <2>2 DEF PieceGood, BlocksOf, FileTypes
    <2>3. CASE faults' = faults \cup {"overwritten"}
        BY <2>3 DEF Faultless
    <2> QED
        BY <2>1, <2>2, <2>3 DEF Arrive
<1> QED
    BY <1>1, <1>2, <1>3 DEF SurvivesInv, WholeInv

\* The chooser sets all pieces Verified after it found the file whole.
LEMMA Whole_Chooser ==
    ASSUME FileTypes, SurvivesInv, ChooserNext, Faultless'
    PROVE  WholeInv'
<1> USE DEF SurvivesInv, WholeInv, fileVars
<1>1. disk' = disk /\ life' = life /\ faults \subseteq faults'
    BY DEF ChooserNext, Request, Expire, ResetDamaged, ChangeAllStatus, Verify, Stop, EndReset,
       Truncate, Save
<1>2. Faultless
    BY <1>1 DEF Faultless
<1>3. \A p \in Piece : PieceGood(p)' <=> PieceGood(p)
    BY <1>1 DEF PieceGood
<1>4. ASSUME NEW b \in Block, Request(b) \/ Expire(b) PROVE WholeInv'
    <2>1. PICK s \in {"Downloading", "Empty"} : UpdateBlockStatus("chooser", b, s)
        BY <1>4 DEF Request, Expire
    <2>2. UNCHANGED <<file, chooser>>
        BY <1>4 DEF Request, Expire
    <2>3. \A p \in Piece : pieceStatus'[p] = "Verified" => pieceStatus[p] = "Verified"
        BY <2>1, LayoutAssumption DEF UpdateBlockStatus, FileTypes
    <2> QED
        BY <1>2, <1>3, <2>2, <2>3
<1>5. ASSUME NEW p \in Piece, ResetDamaged(p) PROVE WholeInv'
    <2>1. UNCHANGED <<file, chooser>> /\ pieceStatus' = [pieceStatus EXCEPT ![p] = "Empty"]
        BY <1>5 DEF ResetDamaged, UpdatePieceStatus
    <2> QED
        BY <1>2, <1>3, <2>1 DEF FileTypes
<1>6. CASE ChangeAllStatus
    BY <1>2, <1>3, <1>6 DEF ChangeAllStatus
<1>7. CASE Verify
    <2>1. Damaged = {} => \A p \in Piece : PieceGood(p)
        BY DEF Damaged
    <2> QED
        BY <1>2, <1>3, <1>7, <2>1 DEF Verify, progressVars
<1>8. CASE Stop
    BY <1>8 DEF Stop, Faultless
<1>9. CASE EndReset
    BY <1>2, <1>3, <1>9 DEF EndReset, progressVars
<1>10. CASE Truncate
    <2>1. file'.piece = file.piece
        BY <1>10 DEF Truncate, FileTypes, FileRecord
    <2> QED
        BY <1>2, <1>3, <1>10, <2>1 DEF Truncate, progressVars
<1>11. CASE Save
    <2>1. file'.piece = pieceStatus
        BY <1>11 DEF Save, Table
    <2> QED
        BY <1>2, <1>3, <1>11, <2>1 DEF Save, progressVars
<1> QED
    BY <1>4, <1>5, <1>6, <1>7, <1>8, <1>9, <1>10, <1>11 DEF ChooserNext

\* The responder sets a piece Verified after it found the piece whole.
LEMMA Whole_Responder ==
    ASSUME FileTypes, SurvivesInv, ResponderNext, Faultless'
    PROVE  WholeInv'
<1> USE DEF SurvivesInv, WholeInv
<1>1. PICK b \in Block : Arrive(b) \/ Count(b) \/ Settle(b) \/ WritePiece(b) \/ WriteTotal(b)
    BY DEF ResponderNext
<1>2. CASE Arrive(b)
    BY <1>2, Whole_Arrive
<1>3. CASE Count(b)
    <2>1. UNCHANGED <<disk, file, chooser, life, faults>>
        BY <1>3 DEF Count
    <2>2. \A p \in Piece : pieceStatus'[p] = "Verified" => pieceStatus[p] = "Verified"
        BY <1>3, LayoutAssumption DEF Count, DownloadedBlock, FileTypes
    <2> QED
        BY <2>1, <2>2 DEF PieceGood, Faultless
<1>4. CASE Settle(b)
    <2>1. UNCHANGED <<disk, file, chooser, life, faults>>
        BY <1>4 DEF Settle
    <2>2. pieceStatus' = [pieceStatus EXCEPT ![PieceOf[b]] = Outcome(PieceOf[b])]
        BY <1>4 DEF Settle, UpdatePieceStatus
    <2>3. \A p \in Piece : pieceStatus'[p] = "Verified" => PieceGood(p)
        BY <2>1, <2>2, LayoutAssumption DEF FileTypes, Outcome, Faultless
    <2> QED
        BY <2>1, <2>3 DEF PieceGood, Faultless
<1>5. CASE WritePiece(b)
    <2>1. UNCHANGED <<disk, pieceStatus, chooser, life, faults>>
        BY <1>5 DEF WritePiece, progressVars
    <2>2. \A p \in Piece : file'.piece[p] = "Verified" => file.piece[p] = "Verified"
        BY <1>5, LayoutAssumption DEF WritePiece, StatusReadBack, FileTypes, FileRecord
    <2> QED
        BY <2>1, <2>2 DEF PieceGood, Faultless
<1>6. CASE WriteTotal(b)
    <2>1. UNCHANGED <<disk, pieceStatus, chooser, life, faults>>
        BY <1>6 DEF WriteTotal, progressVars
    <2>2. file'.piece = file.piece
        BY <1>6 DEF WriteTotal, FileTypes, FileRecord
    <2> QED
        BY <2>1, <2>2 DEF PieceGood, Faultless
<1> QED
    BY <1>1, <1>2, <1>3, <1>4, <1>5, <1>6

\* All steps.
LEMMA Survives_Step == FileTypes /\ SurvivesInv /\ [Next]_vars => SurvivesInv'
<1> SUFFICES ASSUME FileTypes, SurvivesInv, [Next]_vars PROVE SurvivesInv'
    OBVIOUS
<1>1. CASE Add
    BY <1>1 DEF Add, SurvivesInv, WholeInv, progressVars
<1>2. CASE AddAgain
    BY <1>2 DEF AddAgain, SurvivesInv, Faultless
<1>3. CASE AddToSeed
    <2>1. life' = "copying" /\ chooser' = "run" /\ responder' = Idle
        BY <1>3 DEF AddToSeed, SurvivesInv
    <2> QED
        BY <2>1 DEF SurvivesInv, Faultless, Idle
<1>4. CASE Copy
    <2>1. \A p \in Piece : PieceGood(p)'
        BY <1>4 DEF Copy, PieceGood, BlocksOf
    <2> QED
        BY <1>4, <2>1 DEF Copy, SurvivesInv, WholeInv
<1>5. CASE Restart
    BY <1>5, Whole_Restart DEF Restart, SurvivesInv
<1>6. CASE ChooserNext
    <2>1. life' = life /\ (life = "loaded" \/ chooser # "run")
        BY <1>6 DEF ChooserNext, Request, Expire, ResetDamaged, ChangeAllStatus, Verify, Stop,
           EndReset, Truncate, Save, Running, fileVars
    <2> QED
        BY <1>6, <2>1, Whole_Chooser DEF SurvivesInv
<1>7. CASE ResponderNext
    <2>1. PICK b \in Block : Arrive(b) \/ Count(b) \/ Settle(b) \/ WritePiece(b) \/ WriteTotal(b)
        BY <1>7 DEF ResponderNext
    <2>2. life' = life
        BY <2>1 DEF Arrive, Count, Settle, WritePiece, WriteTotal
    <2>3. life = "loaded" \/ responder # Idle
        BY <2>1 DEF Arrive, Count, Settle, WritePiece, WriteTotal, At, Idle
    <2> QED
        BY <1>7, <2>2, <2>3, Whole_Responder DEF SurvivesInv
<1>8. ASSUME NEW t \in Thread, TestCompleted(t) PROVE SurvivesInv'
    BY <1>8 DEF TestCompleted, CheckCompleted, fileVars, SurvivesInv, WholeInv, Faultless, PieceGood
<1>9. CASE UNCHANGED vars
    BY <1>9 DEF vars, progressVars, fileVars, SurvivesInv, WholeInv, Faultless, PieceGood
<1> QED
    BY <1>1, <1>2, <1>3, <1>4, <1>5, <1>6, <1>7, <1>8, <1>9 DEF Next

\* However often the program ends, and between whichever two writes, what the
\* next one calls Verified is whole, short of the faults Faultless excludes.
THEOREM VerifiedPiecesSurvive == Spec => []VerifiedSurvives
<1>1. Init => SurvivesInv
    BY RecordsWritten DEF Init, ProgressInit, SurvivesInv, Faultless
<1>2. SurvivesInv => VerifiedSurvives
    BY DEF SurvivesInv, WholeInv, Faultless, VerifiedSurvives
<1> QED
    BY <1>1, <1>2, FileTypes_Init, FileTypes_Step, Survives_Step, PTL DEF Spec

-----------------------------------------------------------------------------
(* The total covers what is held, also by the file from which the next     *)
(* program takes its table.                                                *)

\* The blocks that the table read from the file would count.
FileHeld ==
    {b \in Block : /\ file.readable
                   /\ file.block[b] \in Held \/ file.piece[PieceOf[b]] \in Held}

\* The blocks of a piece that was settled and that the file has still to be
\* told of.
Unsettled == IF responder.pc = "piece" THEN BlocksOf(PieceOf[responder.block]) ELSE {}

\* The total must cover what the table counts and what the file says besides.
Stated == Counted \cup (FileHeld \ Unsettled)

\* The file calls no piece held without its blocks, and neither does the table
\* when it is about to be saved.
BlocksTold ==
    /\ \A b \in Block : file.piece[PieceOf[b]] \in Held => file.block[b] \in Held
    /\ chooser = "save" \/ (chooser = "finish" /\ left = {}) =>
          \A b \in Block : pieceStatus[PieceOf[b]] \in Held => blockStatus[b] \in Held

NotTorn == life # "undefined" /\ faults \cap {"torn", "reset"} = {}

\* The second conjunct is what the first becomes when the program ends here.
Covers ==
    /\ total >= Size(Stated)
    /\ file.readable /\ responder.pc # "total" => file.total >= Size(FileHeld)

\* A table that is about to be saved calls no piece held without its blocks, as
\* all were set Verified and nothing is requested or times out any more.
LEMMA BlocksTold_Step == FileTypes /\ BlocksTold /\ [Next]_vars => BlocksTold'
<1> SUFFICES ASSUME FileTypes, BlocksTold, [Next]_vars PROVE BlocksTold'
    OBVIOUS
<1> USE LayoutAssumption DEF BlocksTold, fileVars
<1>1. ASSUME NEW b \in Block, Request(b) \/ Expire(b) PROVE BlocksTold'
    BY <1>1 DEF Request, Expire, Running
<1>2. ASSUME NEW p \in Piece, ResetDamaged(p) PROVE BlocksTold'
    BY <1>2 DEF ResetDamaged
<1>3. CASE ChangeAllStatus
    BY <1>3 DEF ChangeAllStatus, Held
<1>4. CASE Verify \/ Stop \/ EndReset
    BY <1>4 DEF Verify, Stop, EndReset, progressVars
<1>5. CASE Truncate \/ Save
    <2>1. CASE Truncate
        <3>1. file'.piece = file.piece /\ file'.block = file.block
            BY <2>1 DEF Truncate, FileTypes, FileRecord
        <3> QED
            BY <2>1, <3>1 DEF Truncate, progressVars
    <2>2. CASE Save
        <3>1. file'.piece = pieceStatus /\ file'.block = blockStatus
            BY <2>2 DEF Save, Table
        <3> QED
            BY <2>2, <3>1 DEF Save, progressVars
    <2> QED
        BY <1>5, <2>1, <2>2
<1>6. ASSUME NEW b \in Block, Arrive(b) PROVE BlocksTold'
    BY <1>6 DEF Arrive, progressVars
<1>7. ASSUME NEW b \in Block, Count(b) PROVE BlocksTold'
    <2>1. UNCHANGED <<file, chooser, left>>
        BY <1>7 DEF Count
    <2>2. \A c \in Block : blockStatus'[c] = IF c = b THEN "Downloaded" ELSE blockStatus[c]
        BY <1>7 DEF Count, DownloadedBlock, FileTypes
    <2>3. ASSUME NEW c \in Block, pieceStatus'[PieceOf[c]] \in Held,
                 pieceStatus[PieceOf[c]] \in Held => blockStatus[c] \in Held
          PROVE  blockStatus'[c] \in Held
        <3>1. CASE pieceStatus'[PieceOf[c]] = pieceStatus[PieceOf[c]]
            BY <2>2, <2>3, <3>1 DEF Held
        <3>2. CASE /\ PieceOf[c] = PieceOf[b]
                   /\ \A d \in BlocksOf(PieceOf[b]) \ {b} : blockStatus[d] = "Downloaded"
            BY <2>2, <3>2 DEF BlocksOf, Held
        <3> QED
            BY <1>7, <3>1, <3>2 DEF Count, DownloadedBlock, FileTypes
    <2> QED
        BY <2>1, <2>3
<1>8. ASSUME NEW b \in Block, Settle(b) PROVE BlocksTold'
    <2>1. PICK s \in Status : UpdatePieceStatus("responder", PieceOf[b], s)
        BY <1>8 DEF Settle, Outcome, Status
    <2>2. UNCHANGED <<file, chooser, left>>
        BY <1>8 DEF Settle
    <2>3. \A c \in Block : pieceStatus'[PieceOf[c]] = IF PieceOf[c] = PieceOf[b] THEN s
                                                      ELSE pieceStatus[PieceOf[c]]
        BY <2>1 DEF UpdatePieceStatus, FileTypes
    <2>4. \A c \in Block : blockStatus'[c] = IF PieceOf[c] = PieceOf[b] THEN s ELSE blockStatus[c]
        BY <2>1 DEF UpdatePieceStatus
    <2> QED
        BY <2>2, <2>3, <2>4
<1>9. ASSUME NEW b \in Block, WritePiece(b) PROVE BlocksTold'
    <2>1. UNCHANGED <<progressVars, chooser, left>>
        BY <1>9 DEF WritePiece
    <2>2. \A c \in Block : file'.piece[PieceOf[c]] \in Held => file'.block[c] \in Held
        <3>1. CASE UNCHANGED <<file.piece, file.block>>
            BY <3>1
        <3>2. CASE file' = [file EXCEPT
                       !.piece[PieceOf[b]] = StatusReadBack(pieceStatus[PieceOf[b]]),
                       !.block = [c \in Block |-> IF PieceOf[c] = PieceOf[b] THEN blockStatus[c]
                                                  ELSE @[c]]]
            <4>1. \A c \in Block : file'.piece[PieceOf[c]] =
                     IF PieceOf[c] = PieceOf[b] THEN "Empty" ELSE file.piece[PieceOf[c]]
                BY <3>2 DEF StatusReadBack, FileTypes, FileRecord
            <4>2. \A c \in Block : PieceOf[c] # PieceOf[b] => file'.block[c] = file.block[c]
                BY <3>2 DEF FileTypes, FileRecord
            <4> QED
                BY <4>1, <4>2 DEF Held
        <3> QED
            BY <1>9, <3>1, <3>2 DEF WritePiece, FileTypes, FileRecord
    <2> QED
        BY <2>1, <2>2 DEF progressVars
<1>10. ASSUME NEW b \in Block, WriteTotal(b) PROVE BlocksTold'
    <2>1. file'.piece = file.piece /\ file'.block = file.block
        BY <1>10 DEF WriteTotal, FileTypes, FileRecord
    <2> QED
        BY <1>10, <2>1 DEF WriteTotal, progressVars
<1>11. CASE Add \/ AddAgain \/ AddToSeed \/ Copy \/ Restart
    <2>1. CASE Add \/ Copy
        BY <2>1 DEF Add, Copy, progressVars
    <2>2. CASE AddAgain
        BY <2>2, RecordsWritten DEF AddAgain, progressVars, Held
    <2>3. CASE AddToSeed
        <3>1. file'.piece = pieceStatus' /\ file'.block = blockStatus'
            BY <2>3 DEF AddToSeed, Table
        <3>2. \A c \in Block : blockStatus'[c] = "Verified"
            BY <2>3 DEF AddToSeed, Done
        <3> QED
            BY <3>1, <3>2 DEF Held
    <2>4. CASE Restart
        BY <2>4 DEF Restart
    <2> QED
        BY <1>11, <2>1, <2>2, <2>3, <2>4
<1>12. ASSUME NEW t \in Thread, TestCompleted(t) PROVE BlocksTold'
    BY <1>12 DEF TestCompleted, CheckCompleted
<1>13. CASE UNCHANGED vars
    BY <1>13 DEF vars, progressVars
<1> QED
    BY <1>1, <1>2, <1>3, <1>4, <1>5, <1>6, <1>7, <1>8, <1>9, <1>10, <1>11, <1>12, <1>13
       DEF Next, ChooserNext, ResponderNext

\* Faults are not forgotten.
LEMMA NotTornBefore == [Next]_vars /\ NotTorn' => NotTorn
<1> USE DEF NotTorn, fileVars
<1> SUFFICES ASSUME [Next]_vars, NotTorn' PROVE NotTorn
    OBVIOUS
<1>1. CASE ChooserNext
    BY <1>1 DEF ChooserNext, Request, Expire, ResetDamaged, ChangeAllStatus, Verify, Stop,
       EndReset, Truncate, Save, Running
<1>2. CASE ResponderNext
    BY <1>2 DEF ResponderNext, Arrive, Count, Settle, WritePiece, WriteTotal
<1>3. CASE Add \/ AddAgain \/ AddToSeed \/ Copy \/ Restart
    BY <1>3 DEF Add, AddAgain, AddToSeed, Copy, Restart
<1>4. ASSUME NEW t \in Thread, TestCompleted(t) PROVE NotTorn
    BY <1>4 DEF TestCompleted
<1> QED
    BY <1>1, <1>2, <1>3, <1>4 DEF Next, vars

-----------------------------------------------------------------------------
(* The steps by what they change.                                          *)

\* The total follows the blocks that are stated.
LEMMA StatedCovered ==
    ASSUME FileTypes, Covers, NEW off, NEW on, off \subseteq Stated,
           Stated' \subseteq (Stated \ off) \cup on, total' = total - Size(off) + Size(on)
    PROVE  total' >= Size(Stated')
BY SizeCovered DEF FileTypes, Covers

\* Where the file stays, only the table is to be looked at.
LEMMA Covers_Table ==
    ASSUME FileTypes, Covers, file' = file,
           responder'.pc # "total" => responder.pc # "total",
           NEW off, NEW on, off \subseteq Stated,
           Stated' \subseteq (Stated \ off) \cup on, total' = total - Size(off) + Size(on)
    PROVE  Covers'
<1>1. total' >= Size(Stated')
    BY StatedCovered
<1>2. FileHeld' = FileHeld
    BY DEF FileHeld
<1> QED
    BY <1>1, <1>2 DEF Covers

\* No total is touched and nothing more is stated.
LEMMA Covers_Fewer ==
    ASSUME FileTypes, Covers, file' = file, total' = total,
           responder'.pc # "total" => responder.pc # "total",
           Stated' \subseteq Stated
    PROVE  Covers'
<1>1. total' = total - Size({}) + Size({})
    BY SizeOfNone DEF FileTypes
<1> QED
    BY <1>1, Covers_Table

\* Requests and timeouts: nothing more is counted.
LEMMA Covers_Request ==
    ASSUME FileTypes, Covers, NEW b \in Block, Request(b) \/ Expire(b)
    PROVE  Covers'
<1>1. PICK s \in {"Empty", "Downloading"} : UpdateBlockStatus("chooser", b, s)
    BY DEF Request, Expire
<1>2. UNCHANGED <<file, responder>>
    BY DEF Request, Expire, fileVars
<1>3. Counted' \subseteq Counted
    BY <1>1, LayoutAssumption DEF UpdateBlockStatus, Counted, Held, FileTypes
<1>4. Stated' \subseteq Stated
    BY <1>2, <1>3 DEF Stated, FileHeld, Unsettled, BlocksOf
<1>5. total' = total
    BY <1>1 DEF UpdateBlockStatus
<1> QED
    BY <1>2, <1>4, <1>5, Covers_Fewer

\* A piece is emptied, of which the file does not say that it is held.
LEMMA Covers_Empty ==
    ASSUME FileTypes, Covers, NEW t, NEW p \in Piece, UpdatePieceStatus(t, p, "Empty"),
           file' = file, responder'.pc # "total" => responder.pc # "total",
           (FileHeld \ Unsettled)' \subseteq (FileHeld \ Unsettled) \ BlocksOf(p)
    PROVE  Covers'
<1> DEFINE off == Removed(p, "Empty")
<1>1. Added(p, "Empty") = {}
    BY DEF Added, Held
<1>2. total' = total - Size(off) + Size({})
    BY <1>1 DEF UpdatePieceStatus
<1>3. Counted' \subseteq Counted \ BlocksOf(p)
    BY LayoutAssumption DEF UpdatePieceStatus, Counted, BlocksOf, Held, FileTypes
<1>4. off \subseteq Counted /\ off \subseteq BlocksOf(p)
    BY DEF Removed, Counted, BlocksOf
<1>5. off \subseteq Stated /\ Stated' \subseteq (Stated \ off) \cup {}
    BY <1>3, <1>4 DEF Stated
<1> HIDE DEF off
<1> QED
    BY <1>2, <1>5, Covers_Table

\* A piece is verified: what was not counted yet is.
LEMMA Covers_Verified ==
    ASSUME FileTypes, Covers, NEW t, NEW p \in Piece, UpdatePieceStatus(t, p, "Verified"),
           file' = file, responder'.pc # "total" => responder.pc # "total",
           (FileHeld \ Unsettled)' \subseteq FileHeld \ Unsettled
    PROVE  Covers'
<1> DEFINE on == Added(p, "Verified")
<1>1. Removed(p, "Verified") = {}
    BY DEF Removed
<1>2. total' = total - Size({}) + Size(on)
    BY <1>1 DEF UpdatePieceStatus
<1>3. Counted' \subseteq Counted \cup on
    BY LayoutAssumption DEF UpdatePieceStatus, Added, Counted, BlocksOf, Held, FileTypes
<1>4. Stated' \subseteq (Stated \ {}) \cup on
    BY <1>3 DEF Stated
<1> HIDE DEF on
<1> QED
    BY <1>2, <1>4, Covers_Table

\* A damaged piece is reset: it is a fault when the file says of a block of it
\* that it is held.
LEMMA Covers_Reset ==
    ASSUME FileTypes, BlocksTold, Covers, NEW p \in Piece, ResetDamaged(p), NotTorn'
    PROVE  Covers'
<1>1. UpdatePieceStatus("chooser", p, "Empty") /\ UNCHANGED <<file, responder>>
    BY DEF ResetDamaged
<1>2. ~Saved(p)
    BY DEF ResetDamaged, NotTorn
<1>3. FileHeld \cap BlocksOf(p) = {}
    BY <1>2 DEF FileHeld, Saved, BlocksTold, BlocksOf
<1>4. FileHeld' = FileHeld /\ Unsettled' = Unsettled
    BY <1>1 DEF FileHeld, Unsettled, BlocksOf
<1> QED
    BY <1>1, <1>3, <1>4, Covers_Empty

\* The piece of the block that arrived is settled, before the file is told.
LEMMA Covers_Settle ==
    ASSUME FileTypes, Covers, NEW b \in Block, Settle(b)
    PROVE  Covers'
<1> DEFINE p == PieceOf[b]
<1>1. UpdatePieceStatus("responder", p, Outcome(p)) /\ file' = file
    BY DEF Settle
<1>2. responder.pc = "settle" /\ responder'.pc = "piece" /\ responder'.block = b
    BY DEF Settle, At
<1>3. FileHeld' = FileHeld /\ Unsettled = {} /\ Unsettled' = BlocksOf(p)
    BY <1>1, <1>2 DEF FileHeld, Unsettled, BlocksOf
<1>4. p \in Piece
    BY LayoutAssumption
<1> HIDE DEF p
<1>5. CASE Outcome(p) = "Empty"
    BY <1>1, <1>2, <1>3, <1>4, <1>5, Covers_Empty
<1>6. CASE Outcome(p) = "Verified"
    BY <1>1, <1>2, <1>3, <1>4, <1>6, Covers_Verified
<1> QED
    BY <1>5, <1>6 DEF Outcome

\* A block is counted.
LEMMA Covers_Count ==
    ASSUME FileTypes, Covers, NEW b \in Block, Count(b)
    PROVE  Covers'
<1>1. DownloadedBlock("responder", b) /\ file' = file
    BY DEF Count
<1>2. responder.pc = "count" /\ responder'.pc \in {"settle", "idle"}
    BY DEF Count, At, Idle
<1>3. FileHeld' = FileHeld /\ Unsettled = {} /\ Unsettled' = {}
    BY <1>1, <1>2 DEF FileHeld, Unsettled, BlocksOf
<1>4. Counted' \subseteq Counted \cup {b}
    BY <1>1, LayoutAssumption DEF DownloadedBlock, Counted, Held, BlocksOf, FileTypes
<1>5. CASE blockStatus[b] \in Held
    <2>1. b \in Counted
        BY <1>5 DEF Counted
    <2>2. Stated' \subseteq Stated
        BY <1>3, <1>4, <2>1 DEF Stated
    <2>3. total' = total
        BY <1>1, <1>5 DEF DownloadedBlock, NewBytes, FileTypes
    <2> QED
        BY <1>1, <1>2, <2>2, <2>3, Covers_Fewer
<1>6. CASE blockStatus[b] \notin Held
    <2>1. total' = total - Size({}) + Size({b})
        BY <1>1, <1>6, SizeOfNone, SizeType DEF DownloadedBlock, NewBytes, FileTypes
    <2>2. Stated' \subseteq (Stated \ {}) \cup {b}
        BY <1>3, <1>4 DEF Stated
    <2> QED
        BY <1>1, <1>2, <2>1, <2>2, Covers_Table
<1> QED
    BY <1>5, <1>6

\* All pieces are set Verified.
LEMMA Covers_All ==
    ASSUME FileTypes, Covers, ChangeAllStatus
    PROVE  Covers'
<1> DEFINE on == UNION {Added(p, "Verified") : p \in Piece}
<1>1. total' = total + Size(on) /\ UNCHANGED <<file, responder>>
    BY DEF ChangeAllStatus
<1>2. total' = total - Size({}) + Size(on)
    BY <1>1, SizeOfNone, SizeType DEF FileTypes
<1>3. Block \subseteq Counted \cup on
    <2>1. ASSUME NEW b \in Block, b \notin Counted PROVE b \in Added(PieceOf[b], "Verified")
        BY <2>1 DEF Counted, Added, BlocksOf, Held
    <2>2. \A b \in Block : PieceOf[b] \in Piece
        BY LayoutAssumption
    <2> QED
        BY <2>1, <2>2
<1>4. Stated' \subseteq Block
    BY DEF Stated, Counted, FileHeld
<1> HIDE DEF on
<1>5. Stated' \subseteq (Stated \ {}) \cup on
    BY <1>3, <1>4 DEF Stated
<1> QED
    BY <1>1, <1>2, <1>5, Covers_Table

\* updatePieceStateToFile tells the file what the table says of the piece.
LEMMA Covers_WritePiece ==
    ASSUME FileTypes, Covers, NEW b \in Block, WritePiece(b)
    PROVE  Covers'
<1> DEFINE p == PieceOf[b]
<1>1. responder.pc = "piece" /\ responder.block = b /\ responder'.pc = "total"
    BY DEF WritePiece, At
<1>2. UNCHANGED <<pieceStatus, blockStatus, total>>
    BY DEF WritePiece, progressVars
<1>3. Unsettled = BlocksOf(p) /\ Unsettled' = {} /\ Counted' = Counted
    BY <1>1, <1>2 DEF Unsettled, Counted
<1>4. FileHeld' \subseteq (FileHeld \ BlocksOf(p)) \cup Counted
    <2>1. CASE ~file'.readable
        BY <2>1 DEF FileHeld
    <2>2. CASE file' = [file EXCEPT
                       !.piece[p] = StatusReadBack(pieceStatus[p]),
                       !.block = [c \in Block |-> IF PieceOf[c] = p THEN blockStatus[c]
                                                  ELSE @[c]]]
        <3>1. file'.readable = file.readable
            BY <2>2 DEF FileTypes, FileRecord
        <3>2. \A c \in Block : file'.piece[PieceOf[c]] =
                 IF PieceOf[c] = p THEN "Empty" ELSE file.piece[PieceOf[c]]
            BY <2>2, LayoutAssumption DEF StatusReadBack, FileTypes, FileRecord
        <3>3. \A c \in Block : file'.block[c] =
                 IF PieceOf[c] = p THEN blockStatus[c] ELSE file.block[c]
            BY <2>2 DEF FileTypes, FileRecord
        <3> QED
            BY <3>1, <3>2, <3>3 DEF FileHeld, Counted, BlocksOf, Held
    <2>3. CASE file' = [file EXCEPT !.readable = FALSE]
        BY <2>1, <2>3 DEF FileTypes, FileRecord
    <2> QED
        BY <2>2, <2>3 DEF WritePiece
<1>5. Stated' \subseteq Stated
    BY <1>3, <1>4 DEF Stated
<1>6. total' >= Size(Stated')
    BY <1>2, <1>5, SizeMonotone, SizeType DEF Covers, FileTypes
<1> QED
    BY <1>1, <1>6 DEF Covers

\* Then it tells the total.
LEMMA Covers_WriteTotal ==
    ASSUME FileTypes, Covers, NEW b \in Block, WriteTotal(b)
    PROVE  Covers'
<1>1. responder.pc = "total" /\ responder'.pc = "idle"
    BY DEF WriteTotal, At, Idle
<1>2. UNCHANGED <<pieceStatus, blockStatus, total>>
    BY DEF WriteTotal, progressVars
<1>3. /\ file'.piece = file.piece /\ file'.block = file.block
      /\ file'.readable = file.readable /\ file'.total = total
    BY DEF WriteTotal, TotalWritten, FileTypes, FileRecord
<1>4. FileHeld' = FileHeld /\ Unsettled = {} /\ Unsettled' = {} /\ Counted' = Counted
    BY <1>1, <1>2, <1>3 DEF FileHeld, Unsettled, Counted
<1>5. Stated' = Stated /\ FileHeld \subseteq Stated
    BY <1>4 DEF Stated
<1>6. Size(FileHeld) <= Size(Stated)
    BY <1>5, SizeMonotone
<1>7. Size(FileHeld) \in Nat /\ Size(Stated) \in Nat
    BY SizeType
<1> QED
    BY <1>2, <1>3, <1>4, <1>5, <1>6, <1>7 DEF Covers, FileTypes

\* Files that are written whole: the table, or a fresh one.
LEMMA Covers_Whole ==
    ASSUME FileTypes, Covers, responder' = responder,
           \/ Truncate
           \/ Save
           \/ file' = Fresh /\ UNCHANGED progressVars
    PROVE  Covers'
<1>1. UNCHANGED <<pieceStatus, blockStatus, total>>
    BY DEF Truncate, Save, progressVars
<1>2. Counted' = Counted
    BY <1>1 DEF Counted
<1>3. FileHeld' \subseteq Counted
    <2>1. CASE Truncate
        BY <2>1 DEF Truncate, FileHeld, FileTypes, FileRecord
    <2>2. CASE Save
        BY <2>2 DEF Save, Table, FileHeld, Counted
    <2>3. CASE file' = Fresh
        <3>1. \A b \in Block : file'.block[b] = "Empty" /\ file'.piece[PieceOf[b]] = "Empty"
            BY <2>3, LayoutAssumption DEF Fresh
        <3> QED
            BY <3>1 DEF FileHeld, Held
    <2> QED
        BY <2>1, <2>2, <2>3
<1>4. Stated' \subseteq Stated /\ Counted \subseteq Stated
    BY <1>2, <1>3 DEF Stated
<1>5. total' >= Size(Stated') /\ total >= Size(FileHeld')
    <2>1. Size(Stated') <= Size(Stated) /\ Size(FileHeld') <= Size(Stated)
        BY <1>3, <1>4, SizeMonotone
    <2>2. Size(Stated) \in Nat /\ Size(Stated') \in Nat /\ Size(FileHeld') \in Nat
        BY SizeType
    <2> QED
        BY <1>1, <2>1, <2>2 DEF Covers, FileTypes
<1>6. file'.readable => file'.total >= Size(FileHeld')
    <2>1. CASE Truncate
        BY <2>1 DEF Truncate, FileTypes, FileRecord
    <2>2. CASE Save
        BY <1>5, <2>2 DEF Save, Table
    <2>3. CASE file' = Fresh
        <3>1. \A b \in Block : file'.block[b] = "Empty" /\ file'.piece[PieceOf[b]] = "Empty"
            BY <2>3, LayoutAssumption DEF Fresh
        <3>2. FileHeld' = {}
            BY <3>1 DEF FileHeld, Held
        <3>3. file'.total = 0
            BY <2>3 DEF Fresh
        <3> QED
            BY <3>2, <3>3, SizeOfNone
    <2> QED
        BY <2>1, <2>2, <2>3
<1> QED
    BY <1>5, <1>6 DEF Covers

\* The next program takes its table from the file.
LEMMA Covers_Restart ==
    ASSUME FileTypes, Covers, Restart, NotTorn'
    PROVE  Covers'
<1>1. /\ pieceStatus' = file.piece /\ blockStatus' = file.block /\ total' = file.total
      /\ file' = file /\ responder'.pc = "idle"
    BY DEF Restart, Idle
<1>2. file.readable /\ responder.pc # "total"
    BY DEF Restart, Cut, NotTorn
<1>3. FileHeld' = FileHeld /\ Counted' = FileHeld /\ Unsettled' = {}
    BY <1>1, <1>2 DEF FileHeld, Counted, Unsettled
<1>4. Stated' = FileHeld
    BY <1>3 DEF Stated
<1> QED
    BY <1>1, <1>2, <1>3, <1>4 DEF Covers

\* A file to be shared is done from the start.
LEMMA Covers_Seed ==
    ASSUME FileTypes, Covers, AddToSeed
    PROVE  Covers'
<1>1. total' = total + Size(Block) /\ total = 0 /\ responder' = responder
    BY DEF AddToSeed, Done
<1>2. file'.total = total'
    BY DEF AddToSeed, Table
<1>3. Stated' \subseteq Block /\ FileHeld' \subseteq Block
    BY DEF Stated, Counted, FileHeld
<1>4. Size(Stated') <= Size(Block) /\ Size(FileHeld') <= Size(Block)
    BY <1>3, SizeMonotone
<1>5. Size(Stated') \in Nat /\ Size(FileHeld') \in Nat /\ Size(Block) \in Nat
    BY SizeType
<1> QED
    BY <1>1, <1>2, <1>4, <1>5 DEF Covers

\* Steps that change neither table nor file, nor how far the file is told.
LEMMA Covers_Same ==
    ASSUME FileTypes, Covers, UNCHANGED <<pieceStatus, blockStatus, total, file>>,
           \/ responder' = responder
           \/ responder.pc # "piece" /\ responder.pc # "total" /\ responder'.pc # "piece"
    PROVE  Covers'
<1>1. FileHeld' = FileHeld /\ Counted' = Counted /\ Unsettled' = Unsettled
    BY DEF FileHeld, Counted, Unsettled, BlocksOf
<1>2. Stated' = Stated
    BY <1>1 DEF Stated
<1> QED
    BY <1>2, Covers_Fewer

\* Each step of the program.
LEMMA Covers_Step ==
    ASSUME FileTypes, BlocksTold, Covers, [Next]_vars, NotTorn'
    PROVE  Covers'
<1> USE DEF fileVars
<1>1. ASSUME NEW b \in Block, Request(b) \/ Expire(b) PROVE Covers'
    BY <1>1, Covers_Request
<1>2. ASSUME NEW p \in Piece, ResetDamaged(p) PROVE Covers'
    BY <1>2, Covers_Reset
<1>3. CASE ChangeAllStatus
    BY <1>3, Covers_All
<1>4. CASE Verify \/ Stop \/ EndReset
    BY <1>4, Covers_Same DEF Verify, Stop, EndReset, progressVars
<1>5. CASE Truncate \/ Save
    BY <1>5, Covers_Whole DEF Truncate, Save
<1>6. ASSUME NEW b \in Block, Arrive(b) PROVE Covers'
    <2>1. responder.pc = "idle" /\ responder'.pc = "count"
        BY <1>6 DEF Arrive, Idle
    <2>2. UNCHANGED <<pieceStatus, blockStatus, total, file>>
        BY <1>6 DEF Arrive, progressVars
    <2> QED
        BY <2>1, <2>2, Covers_Same
<1>7. ASSUME NEW b \in Block, Count(b) PROVE Covers'
    BY <1>7, Covers_Count
<1>8. ASSUME NEW b \in Block, Settle(b) PROVE Covers'
    BY <1>8, Covers_Settle
<1>9. ASSUME NEW b \in Block, WritePiece(b) PROVE Covers'
    BY <1>9, Covers_WritePiece
<1>10. ASSUME NEW b \in Block, WriteTotal(b) PROVE Covers'
    BY <1>10, Covers_WriteTotal
<1>11. CASE Add \/ Copy
    BY <1>11, Covers_Same DEF Add, Copy, progressVars
<1>12. CASE AddAgain
    BY <1>12, Covers_Whole DEF AddAgain
<1>13. CASE AddToSeed
    BY <1>13, Covers_Seed
<1>14. CASE Restart
    BY <1>14, Covers_Restart
<1>15. ASSUME NEW t \in Thread, TestCompleted(t) PROVE Covers'
    BY <1>15, Covers_Same DEF TestCompleted, CheckCompleted
<1>16. CASE UNCHANGED vars
    BY <1>16, Covers_Same DEF vars, progressVars
<1> QED
    BY <1>1, <1>2, <1>3, <1>4, <1>5, <1>6, <1>7, <1>8, <1>9, <1>10, <1>11, <1>12, <1>13, <1>14,
       <1>15, <1>16 DEF Next, ChooserNext, ResponderNext

\* However often the program ends, short of the faults NotTorn excludes, the
\* total of the next one covers what its table holds.
THEOREM CountsSurvive == Spec => []CountSurvives
<1> DEFINE CountInv == BlocksTold /\ (NotTorn => Covers)
<1>1. Init => CountInv
    <2> SUFFICES ASSUME Init PROVE BlocksTold /\ Covers
        OBVIOUS
    <2>1. \A b \in Block : file.block[b] = "Empty" /\ file.piece[PieceOf[b]] = "Empty"
        BY LayoutAssumption DEF Init, Fresh
    <2>2. \A b \in Block : blockStatus[b] = "Empty" /\ pieceStatus[PieceOf[b]] = "Empty"
        BY LayoutAssumption DEF Init, ProgressInit
    <2>3. FileHeld = {} /\ Stated = {}
        BY <2>1, <2>2 DEF FileHeld, Stated, Counted, Held
    <2>4. total = 0 /\ file.total = 0
        BY DEF Init, ProgressInit, Fresh
    <2>5. Covers
        BY <2>3, <2>4, SizeOfNone DEF Covers
    <2> QED
        BY <2>1, <2>5 DEF Init, BlocksTold, Held
<1>2. FileTypes /\ CountInv /\ [Next]_vars => CountInv'
    BY BlocksTold_Step, NotTornBefore, Covers_Step
<1>3. FileTypes /\ CountInv => CountSurvives
    <2> SUFFICES ASSUME FileTypes, Covers PROVE total >= Size(Counted)
        BY DEF NotTorn, CountSurvives
    <2>1. Size(Counted) <= Size(Stated) /\ Size(Counted) \in Nat /\ Size(Stated) \in Nat
        BY SizeMonotone, SizeType DEF Stated
    <2> QED
        BY <2>1 DEF Covers, FileTypes
<1> HIDE DEF CountInv
<1> QED
    BY <1>1, <1>2, <1>3, FileTypes_Init, FileTypes_Step, PTL DEF Spec

-----------------------------------------------------------------------------
(* How a file is divided into pieces and blocks.                           *)

\* What a quotient is, as an inequation of products, ...
LEMMA Quotient ==
    ASSUME NEW x \in Nat, NEW s \in Nat \ {0}
    PROVE  /\ x \div s \in Nat
           /\ s * (x \div s) <= x /\ x < s * (x \div s) + s
    OBVIOUS

\* ... and the other way round.
LEMMA QuotientIs ==
    ASSUME NEW x \in Nat, NEW s \in Nat \ {0}, NEW q \in Nat, s * q <= x, x < s * q + s
    PROVE  x \div s = q
    OBVIOUS

\* The smaller one of two numbers.
LEMMA SmallerIs ==
    ASSUME NEW m \in Int, NEW n \in Int
    PROVE  Smaller(m, n) = IF m <= n THEN m ELSE n
<1>1. Smaller(m, n) = CHOOSE x \in {m, n} : \A y \in {m, n} : x <= y
    BY DEF Smaller, Min
<1> QED
    BY <1>1

\* A piece has a byte.
LEMMA PieceSize ==
    ASSUME NEW n \in Nat \ {0}
    PROVE  pieceSize(n) \in Nat \ {0}
<1>1. CASE n <= MIN_PIECE_SIZE
    BY <1>1, FileLayoutAssumption DEF pieceSize
<1>2. CASE n > MIN_PIECE_SIZE /\ n <= KB * MIN_PIECE_SIZE
    BY <1>2, FileLayoutAssumption DEF pieceSize
<1>3. CASE n > MIN_PIECE_SIZE /\ n > KB * MIN_PIECE_SIZE
    BY <1>3, FileLayoutAssumption DEF pieceSize
<1> QED
    BY <1>1, <1>2, <1>3, FileLayoutAssumption

\* Part i of n bytes that are divided into parts of size s.
Part(n, s, i) == {x \in Nat : (i - 1) * s <= x /\ x < i * s /\ x < n}

\* All parts but the last one are whole, and the last one is not empty.
LEMMA PartsOf ==
    ASSUME NEW n \in Nat \ {0}, NEW s \in Nat \ {0}
    PROVE  /\ Parts(n, s) \in Nat \ {0}
           /\ s * (Parts(n, s) - 1) < n /\ n <= s * Parts(n, s)
<1> DEFINE q == (n + s - 1) \div s
<1>1. q \in Nat /\ s * q <= n + s - 1 /\ n + s - 1 < s * q + s
    BY Quotient
<1>2. Parts(n, s) = q
    BY DEF Parts
<1>3. q # 0
    BY <1>1
<1>4. s * (q - 1) = s * q - s
    BY <1>1
<1> HIDE DEF q
<1> QED
    BY <1>1, <1>2, <1>3, <1>4

\* A part is not empty and lies in the n bytes; a place is in the part of its
\* number.
PartAt(n, s, i, offset, size) ==
    /\ offset \in Nat /\ size \in 1..s /\ offset + size <= n
    /\ \A x \in 0..(n - 1) : x \in offset..(offset + size - 1) <=> x \div s = i - 1

\* The parts there are.
LEMMA DividedAt ==
    ASSUME NEW n \in Nat \ {0}, NEW s \in Nat \ {0}, NEW i \in 1..Parts(n, s)
    PROVE  PartAt(n, s, i, s * (i - 1), Divided(n, s)[i].size)
<1> DEFINE d == Divided(n, s)[i].size
           o == s * (i - 1)
<1>1. i \in Nat \ {0} /\ i <= Parts(n, s) /\ Parts(n, s) \in Nat \ {0} /\ s * (Parts(n, s) - 1) < n
    BY PartsOf
<1>2. o \in Nat /\ o = (i - 1) * s
    BY <1>1
<1>3. o < n
    <2>1. s * (i - 1) <= s * (Parts(n, s) - 1)
        BY <1>1
    <2> QED
        BY <1>1, <1>2, <2>1
<1>4. d = Smaller(s, n - o)
    BY <1>2 DEF Divided
<1>5. d = IF s <= n - o THEN s ELSE n - o
    <2> HIDE DEF d, o
    <2> QED
        BY <1>2, <1>4, SmallerIs
<1>6. d \in 1..s /\ o + d <= n
    BY <1>2, <1>3, <1>5
<1>7. ASSUME NEW x \in 0..(n - 1), x \in o..(o + d - 1) PROVE x \div s = i - 1
    <2>1. x \in Nat /\ i - 1 \in Nat
        BY <1>1
    <2>2. s * (i - 1) <= x /\ x < s * (i - 1) + s
        BY <1>2, <1>6, <1>7
    <2> QED
        BY <2>1, <2>2, QuotientIs
<1>8. ASSUME NEW x \in 0..(n - 1), x \div s = i - 1 PROVE x \in o..(o + d - 1)
    <2>1. x \in Nat
        OBVIOUS
    <2>2. s * (x \div s) <= x /\ x < s * (x \div s) + s
        BY <2>1, Quotient
    <2>3. o <= x /\ x < o + s
        BY <1>8, <2>2
    <2> HIDE DEF o, d
    <2> QED
        BY <1>2, <1>5, <2>3
<1> HIDE DEF o, d
<1>9. PartAt(n, s, i, o, d)
    BY <1>2, <1>6, <1>7, <1>8 DEF PartAt
<1> QED
    BY <1>9 DEF o, d

\* Every byte is in one of them.
LEMMA InOnePart ==
    ASSUME NEW n \in Nat \ {0}, NEW s \in Nat \ {0}, NEW x \in 0..(n - 1)
    PROVE  x \div s + 1 \in 1..Parts(n, s) /\ x \div s \in Nat
<1>1. Parts(n, s) \in Nat \ {0} /\ n <= s * Parts(n, s)
    BY PartsOf
<1>2. x \div s \in Nat /\ s * (x \div s) <= x
    <2>1. x \in Nat
        OBVIOUS
    <2> QED
        BY <2>1, Quotient
<1>3. s * (x \div s) < s * Parts(n, s)
    BY <1>1, <1>2
<1>4. x \div s < Parts(n, s)
    BY <1>1, <1>2, <1>3
<1> QED
    BY <1>1, <1>2, <1>4

\* The block a byte of a file of n bytes is in.
BlockAt(n, x) ==
    <<x \div pieceSize(n) + 1,
      (x - pieceSize(n) * (x \div pieceSize(n))) \div BLOCK_SIZE + 1>>

\* The bytes of a block are those of its piece that are in this part of it.
LEMMA BlockBytes ==
    ASSUME NEW n \in Nat \ {0}, NEW i \in DOMAIN PiecesOf(n),
           NEW j \in DOMAIN BlocksOfPiece(PiecesOf(n)[i].size), NEW x \in Int
    PROVE  x \in BytesOf(n, i, j) <=> x \in 0..(n - 1) /\ BlockAt(n, x) = <<i, j>>
<1> DEFINE s == pieceSize(n)
           m == PiecesOf(n)[i].size
           o == s * (i - 1)
           a == BLOCK_SIZE * (j - 1)
           size == BlocksOfPiece(m)[j].size
           y == x - o
<1>1. s \in Nat \ {0} /\ BLOCK_SIZE \in Nat \ {0}
    BY PieceSize, FileLayoutAssumption
<1>2. i \in 1..Parts(n, s)
    BY DEF PiecesOf, Divided
<1>3. PartAt(n, s, i, o, m)
    BY <1>1, <1>2, DividedAt DEF PiecesOf
<1>4. m \in Nat \ {0} /\ o \in Nat /\ i \in Nat
    <2> HIDE DEF s, o, m
    <2> QED
        BY <1>1, <1>2, <1>3, PartsOf DEF PartAt
<1>5. j \in 1..Parts(m, BLOCK_SIZE)
    BY DEF BlocksOfPiece, Divided
<1>6. PartAt(m, BLOCK_SIZE, j, a, size)
    <2> HIDE DEF m
    <2> QED
        BY <1>1, <1>4, <1>5, DividedAt DEF BlocksOfPiece
<1>7. j \in Nat /\ a \in Nat /\ size \in Nat /\ a + size <= m
    <2> HIDE DEF a, size, m
    <2> QED
        BY <1>1, <1>4, <1>5, <1>6, PartsOf DEF PartAt
<1>8. BytesOf(n, i, j) = (o + a)..(o + a + size - 1)
    <2>1. getOffset(n, i - 1, j - 1) = o + a
        BY <1>1, <1>7 DEF getOffset
    <2> HIDE DEF o, a
    <2> QED
        BY <2>1 DEF BytesOf
<1>9. x \in BytesOf(n, i, j) <=> x \in o..(o + m - 1) /\ y \in 0..(m - 1) /\ y \in a..(a + size - 1)
    <2> HIDE DEF o, a, m, size
    <2> QED
        BY <1>4, <1>7, <1>8
<1>10. x \in o..(o + m - 1) <=> x \in 0..(n - 1) /\ x \div s = i - 1
    <2> HIDE DEF o, m, s
    <2> QED
        BY <1>3, <1>4 DEF PartAt
<1>11. x \in o..(o + m - 1) => y \in 0..(m - 1)
    <2> HIDE DEF o, m
    <2> QED
        BY <1>4
<1>12. y \in 0..(m - 1) => (y \in a..(a + size - 1) <=> y \div BLOCK_SIZE = j - 1)
    <2> HIDE DEF y, a, m, size
    <2> QED
        BY <1>6 DEF PartAt
<1>13. x \in BytesOf(n, i, j) <=> x \in 0..(n - 1) /\ x \div s = i - 1 /\ y \div BLOCK_SIZE = j - 1
    BY <1>9, <1>10, <1>11, <1>12
<1>14. x \in 0..(n - 1) => x \div s \in Nat
    <2> HIDE DEF s
    <2> QED
        BY <1>1, InOnePart
<1>15. ASSUME x \in 0..(n - 1) PROVE x \div s = i - 1 <=> x \div s + 1 = i
    <2> DEFINE q == x \div s
    <2>1. q \in Nat /\ i \in Nat
        BY <1>4, <1>14, <1>15
    <2> HIDE DEF q
    <2>2. q = i - 1 <=> q + 1 = i
        BY <2>1
    <2> QED
        BY <2>2 DEF q
<1>16. x \in o..(o + m - 1) => (y \div BLOCK_SIZE = j - 1 <=> y \div BLOCK_SIZE + 1 = j)
    <2> DEFINE q == y \div BLOCK_SIZE
    <2>1. y \in 0..(m - 1) => q \in Nat
        <3> HIDE DEF y, m
        <3> QED
            BY <1>1, <1>4, InOnePart
    <2> HIDE DEF q
    <2>2. y \in 0..(m - 1) => (q = j - 1 <=> q + 1 = j)
        BY <1>7, <2>1
    <2> QED
        BY <1>11, <2>2 DEF q
<1>17. x \div s = i - 1 => BlockAt(n, x) = <<x \div s + 1, y \div BLOCK_SIZE + 1>>
    BY DEF BlockAt
<1>18. BlockAt(n, x) = <<i, j>> => x \div s + 1 = i
    BY DEF BlockAt
<1> HIDE DEF s, m, o, y
<1> QED
    BY <1>10, <1>13, <1>15, <1>16, <1>17, <1>18

\* Every byte of a file is in one block, that of the piece its place is in,
\* and every piece has its hash.
LEMMA AllDescribed ==
    ASSUME NEW n \in FileSizes, n < UintSize
    PROVE  n \in Described
<1> DEFINE Blocks == UNION {{<<i, j>> : j \in DOMAIN BlocksOfPiece(PiecesOf(n)[i].size)}
                            : i \in DOMAIN PiecesOf(n)}
<1>1. n \in Nat
    BY FileLayoutAssumption
<1>2. \A b : b \in Blocks <=> \E i \in DOMAIN PiecesOf(n) :
                                \E j \in DOMAIN BlocksOfPiece(PiecesOf(n)[i].size) : b = <<i, j>>
    OBVIOUS
<1>3. CASE n = 0
    <2>1. Parts(n, pieceSize(n)) = 0
        BY <1>3 DEF Parts
    <2>2. DOMAIN PiecesOf(n) = {} /\ HashedPieces(n) = PiecesOf(n)
        BY <2>1 DEF PiecesOf, Divided, HashedPieces
    <2>3. Blocks = {}
        BY <2>2
    <2>4. UNION {BytesOf(n, b[1], b[2]) : b \in Blocks} = 0..(n - 1)
        BY <1>3, <2>3
    <2> HIDE DEF Blocks
    <2> QED
        BY <2>2, <2>3, <2>4 DEF Described, Blocks
<1>4. CASE n # 0
    <2> DEFINE s == pieceSize(n)
    <2>1. n \in Nat \ {0} /\ s \in Nat \ {0} /\ BLOCK_SIZE \in Nat \ {0}
        BY <1>1, <1>4, PieceSize, FileLayoutAssumption
    <2>2. DOMAIN PiecesOf(n) = 1..Parts(n, s)
        BY DEF PiecesOf, Divided
    <2>3. ASSUME NEW b \in Blocks, NEW x
          PROVE  x \in BytesOf(n, b[1], b[2]) <=> x \in 0..(n - 1) /\ BlockAt(n, x) = b
        <3>1. PICK i \in DOMAIN PiecesOf(n) :
                \E j \in DOMAIN BlocksOfPiece(PiecesOf(n)[i].size) : b = <<i, j>>
            BY <1>2
        <3>2. PICK j \in DOMAIN BlocksOfPiece(PiecesOf(n)[i].size) : b = <<i, j>>
            BY <3>1
        <3>3. x \in BytesOf(n, i, j) \/ x \in 0..(n - 1) => x \in Int
            BY DEF BytesOf
        <3> HIDE DEF s, Blocks
        <3> QED
            BY <2>1, <3>2, <3>3, BlockBytes
    <2>4. ASSUME NEW x \in 0..(n - 1) PROVE BlockAt(n, x) \in Blocks
        <3> DEFINE q == x \div s
                   y == x - s * q
                   j == y \div BLOCK_SIZE + 1
                   m == PiecesOf(n)[q + 1].size
        <3>1. q + 1 \in 1..Parts(n, s) /\ q \in Nat /\ (q + 1) - 1 = q
            <4>1. q + 1 \in 1..Parts(n, s) /\ q \in Nat
                <5> HIDE DEF s
                <5> QED
                    BY <2>1, InOnePart
            <4> HIDE DEF q
            <4> QED
                BY <4>1
        <3>2. PartAt(n, s, q + 1, s * q, m)
            <4>1. PartAt(n, s, q + 1, s * ((q + 1) - 1), Divided(n, s)[q + 1].size)
                <5> HIDE DEF q
                <5> QED
                    BY <2>1, <3>1, DividedAt
            <4> HIDE DEF q
            <4> QED
                BY <3>1, <4>1 DEF PiecesOf
        <3>3. m \in Nat \ {0} /\ s * q \in Nat /\ x \in (s * q)..(s * q + m - 1)
            <4>1. (q + 1) - 1 = q
                BY <3>1
            <4>2. x \in (s * q)..(s * q + m - 1)
                BY <3>2, <4>1 DEF PartAt
            <4> HIDE DEF q, m, s
            <4> QED
                BY <2>1, <3>2, <4>2 DEF PartAt
        <3>4. y \in 0..(m - 1)
            <4> HIDE DEF q, m, s
            <4> QED
                BY <3>3
        <3>5. j \in 1..Parts(m, BLOCK_SIZE)
            <4> HIDE DEF y, m
            <4> QED
                BY <2>1, <3>3, <3>4, InOnePart
        <3>6. q + 1 \in DOMAIN PiecesOf(n) /\ j \in DOMAIN BlocksOfPiece(m)
            BY <2>2, <3>1, <3>5 DEF BlocksOfPiece, Divided
        <3>7. BlockAt(n, x) = <<q + 1, j>>
            BY DEF BlockAt
        <3> HIDE DEF q, j, Blocks
        <3> QED
            BY <1>2, <3>6, <3>7
    <2>5. UNION {BytesOf(n, b[1], b[2]) : b \in Blocks} = 0..(n - 1)
        <3> HIDE DEF Blocks
        <3> QED
            BY <2>3, <2>4
    <2>6. \A b, c \in Blocks : b # c => BytesOf(n, b[1], b[2]) \cap BytesOf(n, c[1], c[2]) = {}
        <3> HIDE DEF Blocks
        <3> QED
            BY <2>3
    <2>7. ASSUME NEW b \in Blocks, NEW x \in BytesOf(n, b[1], b[2]) PROVE getPieceIndex(n, x) = b[1] - 1
        <3>1. x \in 0..(n - 1) /\ b = BlockAt(n, x)
            <4> HIDE DEF Blocks
            <4> QED
                BY <2>3, <2>7
        <3>2. x \div s \in Nat
            <4> HIDE DEF s
            <4> QED
                BY <2>1, <3>1, InOnePart
        <3>3. b[1] = x \div s + 1
            BY <3>1 DEF BlockAt
        <3> QED
            BY <3>2, <3>3 DEF getPieceIndex
    <2>8. HashedPieces(n) = PiecesOf(n)
        <3>1. ASSUME NEW i \in 1..Parts(n, s) PROVE (n - (i - 1) * s) % UintSize = n - (i - 1) * s
            <4>1. PartAt(n, s, i, s * (i - 1), Divided(n, s)[i].size)
                <5> HIDE DEF s
                <5> QED
                    BY <2>1, DividedAt
            <4>2. i \in Int /\ s * (i - 1) = (i - 1) * s
                BY <2>1, PartsOf
            <4>3. s * (i - 1) \in Nat /\ s * (i - 1) <= n
                <5> HIDE DEF s
                <5> QED
                    BY <2>1, <4>1 DEF PartAt
            <4>4. UintSize \in Nat \ {0}
                BY FileLayoutAssumption
            <4> DEFINE r == n - s * (i - 1)
            <4>5. r \in Nat /\ r < UintSize
                <5> HIDE DEF s
                <5> QED
                    BY <1>1, <4>3, <4>4
            <4>6. r % UintSize = r
                <5> HIDE DEF r
                <5> QED
                    BY <4>4, <4>5
            <4> QED
                BY <4>2, <4>6
        <3> QED
            BY <3>1 DEF HashedPieces, PiecesOf, Divided
    <2> HIDE DEF Blocks
    <2> QED
        BY <2>5, <2>6, <2>7, <2>8 DEF Described, Blocks
<1> QED
    BY <1>3, <1>4

-----------------------------------------------------------------------------
(* What is read of the files.                                              *)

\* Sequences of the same length that are read alike but for the named fields
\* may stand before and behind others.
LEMMA SameBefore ==
    ASSUME NEW N, NEW a \in Seq(Fields(N)), NEW b \in Seq(Fields(N)), NEW c \in Seq(Fields(N)), NEW names,
           TotalLength(a) = TotalLength(b), SameBut(a, b, names)
    PROVE  /\ SameBut(a \o c, b \o c, names)
           /\ a \o c \in Seq(Fields(N)) /\ b \o c \in Seq(Fields(N))
           /\ TotalLength(a \o c) = TotalLength(b \o c)
<1>1. /\ Written(a \o c) = Written(a) \cup Later(Written(c), TotalLength(a))
      /\ Written(b \o c) = Written(b) \cup Later(Written(c), TotalLength(a))
      /\ a \o c \in Seq(Fields(N)) /\ b \o c \in Seq(Fields(N))
      /\ TotalLength(a \o c) = TotalLength(b \o c)
    BY Joined
<1> QED
    BY <1>1 DEF SameBut

\* What follows a sequence of the same length is the same, too.
LEMMA SameBehind ==
    ASSUME NEW N, NEW a \in Seq(Fields(N)), NEW b \in Seq(Fields(N)), NEW c \in Seq(Fields(N)), NEW names,
           TotalLength(a) = TotalLength(b), SameBut(a, b, names)
    PROVE  /\ SameBut(c \o a, c \o b, names)
           /\ c \o a \in Seq(Fields(N)) /\ c \o b \in Seq(Fields(N))
           /\ TotalLength(c \o a) = TotalLength(c \o b)
<1>1. /\ Written(c \o a) = Written(c) \cup Later(Written(a), TotalLength(c))
      /\ Written(c \o b) = Written(c) \cup Later(Written(b), TotalLength(c))
      /\ c \o a \in Seq(Fields(N)) /\ c \o b \in Seq(Fields(N))
      /\ TotalLength(c \o a) = TotalLength(c \o b)
    BY Joined
<1>2. ASSUME NEW x \in Seq(Fields(N)), NEW y \in Seq(Fields(N)), SameBut(x, y, names),
             NEW f \in Later(Written(x), TotalLength(c)), f.name \notin names
      PROVE  f \in Later(Written(y), TotalLength(c))
    <2>1. PICK g \in Written(x) : f = Placed(g.name, TotalLength(c) + g.start, g.length)
        BY <1>2 DEF Later
    <2>2. g.name \notin names
        BY <1>2, <2>1 DEF Placed
    <2>3. g \in Written(y)
        BY <1>2, <2>2 DEF SameBut
    <2> QED
        BY <2>1, <2>3 DEF Later
<1>3. SameBut(b, a, names)
    BY DEF SameBut
<1>4. \A f : f.name \notin names =>
        (f \in Later(Written(a), TotalLength(c)) <=> f \in Later(Written(b), TotalLength(c)))
    BY <1>2, <1>3
<1> QED
    BY <1>1, <1>4 DEF SameBut

\* Two sequences of named fields alone are read alike but for them.
LEMMA SameWithout ==
    ASSUME NEW N, NEW a \in Seq(Fields(N)), NEW b \in Seq(Fields(N)), NEW names,
           \A i \in 1..Len(a) : a[i].name \in names, \A i \in 1..Len(b) : b[i].name \in names
    PROVE  SameBut(a, b, names)
<1>1. DOMAIN a = 1..Len(a) /\ DOMAIN b = 1..Len(b)
    OBVIOUS
<1>2. \A f \in Written(a) : f.name \in names
    BY <1>1 DEF Written, Placed
<1>3. \A f \in Written(b) : f.name \in names
    BY <1>1 DEF Written, Placed
<1> QED
    BY <1>2, <1>3 DEF SameBut

\* The port of a metadata file, in two fields or in one.
LEMMA PortSame ==
    ASSUME NEW N, NEW low \in Fields(N), NEW next \in Fields(N), NEW port \in Fields(N), NEW names,
           low.name \in names, next.name \in names, port.name \in names,
           low.length + next.length = port.length
    PROVE  /\ <<low, next>> \in Seq(Fields(N)) /\ <<port>> \in Seq(Fields(N))
           /\ SameBut(<<low, next>>, <<port>>, names)
           /\ TotalLength(<<low, next>>) = TotalLength(<<port>>)
<1> DEFINE a == <<low, next>>
           b == <<port>>
<1>1. /\ a \in Seq(Fields(N)) /\ Len(a) = 2 /\ a[1] = low /\ a[2] = next
      /\ b \in Seq(Fields(N)) /\ Len(b) = 1 /\ b[1] = port
    OBVIOUS
<1>2. TotalLength(a) = low.length + next.length /\ TotalLength(b) = port.length
    BY OneField, TwoFields
<1> HIDE DEF a, b
<1>3. SameBut(a, b, names)
    BY <1>1, SameWithout
<1> QED
    BY <1>1, <1>2, <1>3 DEF a, b

\* The metadata file, of whatever fields.
LEMMA MetaDataFields ==
    ASSUME NEW N, NEW sizes \in Fields(N), NEW size \in Fields(N), NEW name \in Fields(N),
           NEW maker \in Fields(N), NEW fileHash \in Fields(N), NEW ip \in Fields(N),
           NEW key \in Fields(N), NEW hashes \in Seq(Fields(N)), NEW salt \in Seq(Fields(N)),
           NEW low \in Fields(N), NEW next \in Fields(N), NEW port \in Fields(N), NEW names,
           low.name \in names, next.name \in names, port.name \in names,
           low.length + next.length = port.length
    PROVE  SameBut(<<sizes>> \o <<size, name>> \o <<size, maker>> \o <<fileHash>> \o hashes
                       \o <<ip, low, next, key>> \o salt,
                   <<sizes, size, name, size, maker, fileHash>> \o hashes \o <<ip, port, key>> \o salt,
                   names)
<1> DEFINE a == <<sizes>> \o <<size, name>> \o <<size, maker>> \o <<fileHash>>
           b == <<sizes, size, name, size, maker, fileHash>>
           w == <<ip, low, next, key>>
           r == <<ip, port, key>>
           two == <<low, next>>
           one == <<port>>
           written == (<<ip>> \o two) \o <<key>>
           read == (<<ip>> \o one) \o <<key>>
<1>1. a = b
    <2>1. /\ a \in Seq(Fields(N)) /\ Len(a) = 6
          /\ a[1] = sizes /\ a[2] = size /\ a[3] = name
          /\ a[4] = size /\ a[5] = maker /\ a[6] = fileHash
        OBVIOUS
    <2>2. /\ b \in Seq(Fields(N)) /\ Len(b) = 6
          /\ b[1] = sizes /\ b[2] = size /\ b[3] = name
          /\ b[4] = size /\ b[5] = maker /\ b[6] = fileHash
        OBVIOUS
    <2> HIDE DEF a, b
    <2>3. \A i \in 1..Len(a) : a[i] = b[i]
        BY <2>1, <2>2
    <2> QED
        BY <2>1, <2>2, <2>3, SeqEqual
<1>2. w = written
    <2>1. /\ w \in Seq(Fields(N)) /\ Len(w) = 4
          /\ w[1] = ip /\ w[2] = low /\ w[3] = next /\ w[4] = key
        OBVIOUS
    <2>2. /\ written \in Seq(Fields(N)) /\ Len(written) = 4
          /\ written[1] = ip /\ written[2] = low /\ written[3] = next /\ written[4] = key
        OBVIOUS
    <2> HIDE DEF w, written
    <2>3. \A i \in 1..Len(w) : w[i] = written[i]
        BY <2>1, <2>2
    <2> QED
        BY <2>1, <2>2, <2>3, SeqEqual
<1>3. r = read
    <2>1. /\ r \in Seq(Fields(N)) /\ Len(r) = 3 /\ r[1] = ip /\ r[2] = port /\ r[3] = key
        OBVIOUS
    <2>2. /\ read \in Seq(Fields(N)) /\ Len(read) = 3 /\ read[1] = ip /\ read[2] = port /\ read[3] = key
        OBVIOUS
    <2> HIDE DEF r, read
    <2>3. \A i \in 1..Len(r) : r[i] = read[i]
        BY <2>1, <2>2
    <2> QED
        BY <2>1, <2>2, <2>3, SeqEqual
<1>4. /\ two \in Seq(Fields(N)) /\ one \in Seq(Fields(N))
      /\ SameBut(two, one, names) /\ TotalLength(two) = TotalLength(one)
    BY PortSame
<1>5. <<ip>> \in Seq(Fields(N)) /\ <<key>> \in Seq(Fields(N)) /\ b \in Seq(Fields(N))
    OBVIOUS
<1> DEFINE first == <<ip>>
           last == <<key>>
           before == b \o hashes
<1>6. before \in Seq(Fields(N))
    BY <1>5
<1> HIDE DEF two, one, first, last, before
<1>7. /\ SameBut(first \o two, first \o one, names)
      /\ first \o two \in Seq(Fields(N)) /\ first \o one \in Seq(Fields(N))
      /\ TotalLength(first \o two) = TotalLength(first \o one)
    <2>1. first \in Seq(Fields(N))
        BY <1>5 DEF first
    <2> QED
        BY <1>4, <2>1, SameBehind
<1>8. /\ SameBut((first \o two) \o last, (first \o one) \o last, names)
      /\ (first \o two) \o last \in Seq(Fields(N)) /\ (first \o one) \o last \in Seq(Fields(N))
      /\ TotalLength((first \o two) \o last) = TotalLength((first \o one) \o last)
    <2>1. last \in Seq(Fields(N))
        BY <1>5 DEF last
    <2> DEFINE x == first \o two
               y == first \o one
    <2> HIDE DEF x, y
    <2>2. /\ SameBut(x, y, names) /\ TotalLength(x) = TotalLength(y)
          /\ x \in Seq(Fields(N)) /\ y \in Seq(Fields(N))
        BY <1>7 DEF x, y
    <2>3. /\ SameBut(x \o last, y \o last, names)
          /\ x \o last \in Seq(Fields(N)) /\ y \o last \in Seq(Fields(N))
          /\ TotalLength(x \o last) = TotalLength(y \o last)
        BY <2>1, <2>2, SameBefore
    <2> QED
        BY <2>3 DEF x, y
<1>9. /\ SameBut(written, read, names)
      /\ written \in Seq(Fields(N)) /\ read \in Seq(Fields(N))
      /\ TotalLength(written) = TotalLength(read)
    BY <1>8 DEF first, last
<1> HIDE DEF a, b, w, r, written, read
<1>10. /\ SameBut(before \o written, before \o read, names)
       /\ before \o written \in Seq(Fields(N)) /\ before \o read \in Seq(Fields(N))
       /\ TotalLength(before \o written) = TotalLength(before \o read)
    BY <1>6, <1>9, SameBehind
<1>11. SameBut((before \o written) \o salt, (before \o read) \o salt, names)
    BY <1>10, SameBefore
<1>12. SameBut(((a \o hashes) \o w) \o salt, ((b \o hashes) \o r) \o salt, names)
    BY <1>1, <1>2, <1>3, <1>11 DEF before
<1> QED
    BY <1>12 DEF a, b, w, r
\* The names of the fields of the files.
FileNames ==
    {"sizes", "size", "fileName", "creator", "fileHash", "hash", "salt", "ip", "port",
     "lowByteOfPort", "lowByteOfNext", "aesKey", "offset", "isLastBlock", "status",
     "bytesDownloaded", "lastAccess", "blocksCount", "completed", "totalDownloadBytes", "fileSize",
     "startTime", "lastTime", "nameSize", "creatorSize", "signalingAddress", "piecesCount"}

\* A field of the files.
LEMMA FileFields ==
    ASSUME NEW name \in FileNames, NEW n \in Nat
    PROVE  Field(name, n) \in Fields(FileNames) /\ Field(name, n).name = name /\ Field(name, n).length = n
    BY FieldIs

\* That file, with the fields it has.
LEMMA MetaDataSame ==
    ASSUME NEW m \in Nat, NEW n \in Nat, NEW parts \in Nat, partsCount(parts) = parts, NEW password \in BOOLEAN
    PROVE  SameBut(MetaData(m, n, parts, password), ReadMetaData(m, n, parts, password), PortBytes)
<1> DEFINE sizes == Field("sizes", 8)
           size == Field("size", 4)
           name == Field("fileName", m)
           maker == Field("creator", n)
           fileHash == Field("fileHash", 32)
           ip == Field("ip", 4)
           low == Field("lowByteOfPort", 1)
           next == Field("lowByteOfNext", 1)
           port == Field("port", 2)
           key == Field("aesKey", 16)
           h == Hashes(parts)
           s == Salt(password)
<1>0. /\ "sizes" \in FileNames /\ "size" \in FileNames /\ "fileName" \in FileNames
      /\ "creator" \in FileNames /\ "fileHash" \in FileNames /\ "hash" \in FileNames
      /\ "salt" \in FileNames /\ "ip" \in FileNames /\ "port" \in FileNames
      /\ "lowByteOfPort" \in FileNames /\ "lowByteOfNext" \in FileNames
      /\ "aesKey" \in FileNames
    BY DEF FileNames
<1>1. /\ sizes \in Fields(FileNames) /\ size \in Fields(FileNames) /\ name \in Fields(FileNames)
      /\ maker \in Fields(FileNames) /\ fileHash \in Fields(FileNames)
    BY <1>0, FileFields
<1>2. /\ ip \in Fields(FileNames) /\ key \in Fields(FileNames)
      /\ low \in Fields(FileNames) /\ next \in Fields(FileNames) /\ port \in Fields(FileNames)
    BY <1>0, FileFields
<1>3. /\ low.name \in PortBytes /\ next.name \in PortBytes /\ port.name \in PortBytes
      /\ low.length + next.length = port.length
    BY DEF Field, PortBytes
<1>4. h \in Seq(Fields(FileNames))
    <2>1. Field("hash", 32) \in Fields(FileNames)
        BY <1>0, FileFields
    <2> QED
        BY <2>1 DEF Hashes
<1>5. s \in Seq(Fields(FileNames))
    <2>1. Field("salt", 16) \in Fields(FileNames)
        BY <1>0, FileFields
    <2> QED
        BY <2>1 DEF Salt
<1>7. /\ MetaData(m, n, parts, password) =
            <<sizes>> \o <<size, name>> \o <<size, maker>> \o <<fileHash>> \o h
            \o <<ip, low, next, key>> \o s
      /\ ReadMetaData(m, n, parts, password) =
            <<sizes, size, name, size, maker, fileHash>> \o h \o <<ip, port, key>> \o s
    BY Zenon DEF MetaData, ReadMetaData, SerializedString
<1> HIDE DEF sizes, size, name, maker, fileHash, ip, low, next, port, key, h, s
<1>8. SameBut(<<sizes>> \o <<size, name>> \o <<size, maker>> \o <<fileHash>> \o h
                  \o <<ip, low, next, key>> \o s,
              <<sizes, size, name, size, maker, fileHash>> \o h \o <<ip, port, key>> \o s,
              PortBytes)
    BY <1>1, <1>2, <1>3, <1>4, <1>5, MetaDataFields, Zenon
<1> QED
    BY <1>7, <1>8

\* The blocks of a piece take eleven bytes each.
LEMMA BlockInfosLength ==
    ASSUME NEW blocks \in Nat
    PROVE  BlockInfos(blocks) \in Seq(Fields(FileNames)) /\ TotalLength(BlockInfos(blocks)) = 11 * blocks
<1> DEFINE fields == BlockInfos(blocks)
           t == [i \in 0..(4 * blocks) |-> 11 * (i \div 4) + (CASE i % 4 = 0 -> 0
                                                               [] i % 4 = 1 -> 4
                                                               [] i % 4 = 2 -> 6
                                                               [] OTHER -> 7)]
<1>1. /\ BlockInfo[1] \in Fields(FileNames) /\ BlockInfo[2] \in Fields(FileNames)
      /\ BlockInfo[3] \in Fields(FileNames) /\ BlockInfo[4] \in Fields(FileNames)
    BY FileFields DEF FileNames, BlockInfo
<1>2. /\ BlockInfo[1].length = 4 /\ BlockInfo[2].length = 2
      /\ BlockInfo[3].length = 1 /\ BlockInfo[4].length = 4
    BY DEF BlockInfo, Field
<1>3. \A i \in 1..(4 * blocks) : ((i - 1) % 4) + 1 \in 1..4
    OBVIOUS
<1>4. \A i \in 1..(4 * blocks) : BlockInfo[((i - 1) % 4) + 1] \in Fields(FileNames)
    BY <1>1, <1>3
<1>5. fields \in Seq(Fields(FileNames)) /\ Len(fields) = 4 * blocks
    BY <1>4 DEF BlockInfos
<1>6. ASSUME NEW i \in 1..(4 * blocks)
      PROVE  t[i] = t[i - 1] + fields[i].length
    <2>1. fields[i] = BlockInfo[((i - 1) % 4) + 1]
        BY DEF BlockInfos
    <2>2. i \in Nat /\ i - 1 \in Nat /\ i \in 0..(4 * blocks) /\ i - 1 \in 0..(4 * blocks)
        OBVIOUS
    <2> HIDE DEF fields
    <2>3. CASE i % 4 = 0
        <3>1. (i - 1) % 4 = 3 /\ (i - 1) \div 4 = (i \div 4) - 1
            BY <2>2, <2>3
        <3>2. t[i] = 11 * (i \div 4)
            BY <2>2, <2>3
        <3>3. t[i - 1] = 11 * ((i \div 4) - 1) + 7
            BY <2>2, <3>1
        <3>4. fields[i].length = 4
            BY <1>2, <2>1, <3>1
        <3>5. i \div 4 \in Int
            BY <2>2
        <3> HIDE DEF t
        <3> QED
            BY <3>2, <3>3, <3>4, <3>5
    <2>4. CASE i % 4 = 1
        <3>1. (i - 1) % 4 = 0 /\ (i - 1) \div 4 = i \div 4
            BY <2>2, <2>4
        <3>2. t[i] = 11 * (i \div 4) + 4
            BY <2>2, <2>4
        <3>3. t[i - 1] = 11 * (i \div 4)
            BY <2>2, <3>1
        <3>4. fields[i].length = 4
            BY <1>2, <2>1, <3>1
        <3>5. i \div 4 \in Int
            BY <2>2
        <3> HIDE DEF t
        <3> QED
            BY <3>2, <3>3, <3>4, <3>5
    <2>5. CASE i % 4 = 2
        <3>1. (i - 1) % 4 = 1 /\ (i - 1) \div 4 = i \div 4
            BY <2>2, <2>5
        <3>2. t[i] = 11 * (i \div 4) + 6
            BY <2>2, <2>5
        <3>3. t[i - 1] = 11 * (i \div 4) + 4
            BY <2>2, <3>1
        <3>4. fields[i].length = 2
            BY <1>2, <2>1, <3>1
        <3>5. i \div 4 \in Int
            BY <2>2
        <3> HIDE DEF t
        <3> QED
            BY <3>2, <3>3, <3>4, <3>5
    <2>6. CASE i % 4 = 3
        <3>1. (i - 1) % 4 = 2 /\ (i - 1) \div 4 = i \div 4
            BY <2>2, <2>6
        <3>2. t[i] = 11 * (i \div 4) + 7
            BY <2>2, <2>6
        <3>3. t[i - 1] = 11 * (i \div 4) + 6
            BY <2>2, <3>1
        <3>4. fields[i].length = 1
            BY <1>2, <2>1, <3>1
        <3>5. i \div 4 \in Int
            BY <2>2
        <3> HIDE DEF t
        <3> QED
            BY <3>2, <3>3, <3>4, <3>5
    <2> QED
        BY <2>2, <2>3, <2>4, <2>5, <2>6
<1>7. t[0] = 0 /\ t[4 * blocks] = 11 * blocks
    <2>1. (4 * blocks) % 4 = 0 /\ (4 * blocks) \div 4 = blocks
        OBVIOUS
    <2> QED
        BY <2>1
<1> HIDE DEF fields, t
<1>8. Sized(fields) /\ Totals(fields, t)
    BY <1>5, <1>6, <1>7, SizedFields DEF Totals, t
<1>9. TotalLength(fields) = t[Len(fields)]
    BY <1>8, TotalIs, Zenon
<1>10. TotalLength(fields) = 11 * blocks
    BY <1>5, <1>7, <1>9, Zenon
<1> QED
    BY <1>5, <1>10 DEF fields

\* A piece takes 64 bytes and its blocks.
LEMMA PieceInfoLength ==
    ASSUME NEW blocks \in Nat
    PROVE  TotalLength(PieceInfo(blocks)) = 64 + 11 * blocks
<1> DEFINE fields == <<Field("offset", 8), Field("size", 4), Field("bytesDownloaded", 4),
                       Field("lastAccess", 8), Field("status", 4), Field("hash", 32),
                       Field("blocksCount", 4)>>
           t == [i \in 0..7 |-> <<0, 8, 12, 16, 24, 28, 60, 64>>[i + 1]]
<1>1. /\ Field("offset", 8) \in Fields(FileNames) /\ Field("size", 4) \in Fields(FileNames)
      /\ Field("bytesDownloaded", 4) \in Fields(FileNames) /\ Field("lastAccess", 8) \in Fields(FileNames)
      /\ Field("status", 4) \in Fields(FileNames) /\ Field("hash", 32) \in Fields(FileNames)
      /\ Field("blocksCount", 4) \in Fields(FileNames)
    BY FileFields DEF FileNames
<1>2. fields \in Seq(Fields(FileNames)) /\ Len(fields) = 7
    BY <1>1
<1>3. /\ fields[1].length = 8 /\ fields[2].length = 4 /\ fields[3].length = 4 /\ fields[4].length = 8
      /\ fields[5].length = 4 /\ fields[6].length = 32 /\ fields[7].length = 4
    BY DEF Field
<1>4. /\ t[0] = 0 /\ t[1] = 8 /\ t[2] = 12 /\ t[3] = 16 /\ t[4] = 24 /\ t[5] = 28 /\ t[6] = 60
      /\ t[7] = 64 /\ DOMAIN t = 0..7
    OBVIOUS
<1>5. PieceInfo(blocks) = fields \o BlockInfos(blocks)
    BY DEF PieceInfo
<1> HIDE DEF fields, t
<1>6. Totals(fields, t)
    BY <1>2, <1>3, <1>4 DEF Totals
<1>7. Sized(fields)
    BY <1>2, SizedFields
<1>8. TotalLength(fields) = 64
    <2>1. TotalLength(fields) = t[Len(fields)]
        BY <1>6, <1>7, TotalIs, Zenon
    <2>2. Len(fields) = 7 /\ t[7] = 64
        BY <1>2, <1>4
    <2> QED
        BY <2>1, <2>2, Zenon
<1>9. TotalLength(fields \o BlockInfos(blocks)) = TotalLength(fields) + TotalLength(BlockInfos(blocks))
    BY <1>2, BlockInfosLength, Joined
<1> QED
    BY <1>5, <1>8, <1>9, BlockInfosLength

\* What goes before the pieces.
LEMMA ProgressLength ==
    ASSUME NEW m \in Nat, NEW n \in Nat
    PROVE  TotalLength(Progress(m, n)) = 77 + m + n
<1> DEFINE fields == Progress(m, n)
           t == [i \in 0..12 |-> <<0, 1, 9, 17, 25, 33, 65, 66, 66 + m, 67 + m, 67 + m + n,
                                   73 + m + n, 77 + m + n>>[i + 1]]
<1>1. Len(fields) = 12
    BY DEF Progress
<1>2. /\ fields[1].length = 1 /\ fields[2].length = 8 /\ fields[3].length = 8 /\ fields[4].length = 8
      /\ fields[5].length = 8 /\ fields[6].length = 32 /\ fields[7].length = 1 /\ fields[8].length = m
      /\ fields[9].length = 1 /\ fields[10].length = n /\ fields[11].length = 6 /\ fields[12].length = 4
    BY DEF Progress, Field
<1>3. /\ t[0] = 0 /\ t[1] = 1 /\ t[2] = 9 /\ t[3] = 17 /\ t[4] = 25 /\ t[5] = 33 /\ t[6] = 65
      /\ t[7] = 66 /\ t[8] = 66 + m /\ t[9] = 67 + m /\ t[10] = 67 + m + n /\ t[11] = 73 + m + n
      /\ t[12] = 77 + m + n /\ DOMAIN t = 0..12
    OBVIOUS
<1> HIDE DEF fields, t
<1>4. Sized(fields)
    BY <1>1, <1>2 DEF Sized
<1>5. Totals(fields, t)
    BY <1>1, <1>2, <1>3 DEF Totals
<1>6. TotalLength(fields) = 77 + m + n
    <2>1. TotalLength(fields) = t[Len(fields)]
        BY <1>4, <1>5, TotalIs, Zenon
    <2>2. Len(fields) = 12 /\ t[12] = 77 + m + n
        BY <1>1, <1>3
    <2> QED
        BY <2>1, <2>2, Zenon
<1> QED
    BY <1>6 DEF fields

\* A piece that was written over is read but for its status and its time.
LEMMA PieceUpdateSame ==
    ASSUME NEW blocks \in Nat
    PROVE  SameBut(<<Field("offset", 8), Field("size", 4)>> \o PieceUpdate(blocks),
                   ReadPieceInfo(blocks), {"status", "lastAccess"})
<1> DEFINE offset == Field("offset", 8)
           size == Field("size", 4)
           bytes == Field("bytesDownloaded", 4)
           time == Field("lastAccess", 8)
           state == Field("status", 4)
           hash == Field("hash", 32)
           count == Field("blocksCount", 4)
           infos == BlockInfos(blocks)
           names == {"status", "lastAccess"}
           first == <<offset, size, bytes>>
           two == <<state, time>>
           other == <<time, state>>
           last == <<hash, count>>
           x == <<offset, size>> \o (<<bytes, state, time, hash, count>> \o infos)
           y == <<offset, size, bytes, time, state, hash, count>> \o infos
<1>1. /\ offset \in Fields(FileNames) /\ size \in Fields(FileNames) /\ bytes \in Fields(FileNames)
      /\ time \in Fields(FileNames) /\ state \in Fields(FileNames) /\ hash \in Fields(FileNames)
      /\ count \in Fields(FileNames)
    BY FileFields DEF FileNames
<1>2. time.name \in names /\ state.name \in names /\ time.length \in Nat /\ state.length \in Nat
    BY DEF Field
<1>3. infos \in Seq(Fields(FileNames))
    BY BlockInfosLength
<1>4. /\ <<Field("offset", 8), Field("size", 4)>> \o PieceUpdate(blocks) = x
      /\ ReadPieceInfo(blocks) = y
    BY Zenon DEF PieceUpdate, ReadPieceInfo
<1> HIDE DEF offset, size, bytes, time, state, hash, count, infos, names
<1>5. /\ first \in Seq(Fields(FileNames)) /\ last \in Seq(Fields(FileNames))
      /\ two \in Seq(Fields(FileNames)) /\ other \in Seq(Fields(FileNames))
    BY <1>1
<1>6. SameBut(two, other, names) /\ TotalLength(two) = TotalLength(other)
    <2>1. TotalLength(two) = TotalLength(other)
        BY <1>1, <1>2, TwoFields
    <2>2. /\ Len(two) = 2 /\ two[1] = state /\ two[2] = time
          /\ Len(other) = 2 /\ other[1] = time /\ other[2] = state
        OBVIOUS
    <2> HIDE DEF two, other
    <2> QED
        BY <1>2, <1>5, <2>1, <2>2, SameWithout
<1>7. x = (first \o two) \o (last \o infos)
    <2> DEFINE z == (first \o two) \o (last \o infos)
    <2>1. /\ x \in Seq(Fields(FileNames)) /\ Len(x) = 7 + Len(infos) /\ Len(infos) \in Nat
          /\ x[1] = offset /\ x[2] = size /\ x[3] = bytes /\ x[4] = state /\ x[5] = time
          /\ x[6] = hash /\ x[7] = count /\ \A i \in 1..Len(infos) : x[7 + i] = infos[i]
        BY <1>1, <1>3
    <2>2. /\ z \in Seq(Fields(FileNames)) /\ Len(z) = 7 + Len(infos)
          /\ z[1] = offset /\ z[2] = size /\ z[3] = bytes /\ z[4] = state /\ z[5] = time
          /\ z[6] = hash /\ z[7] = count /\ \A i \in 1..Len(infos) : z[7 + i] = infos[i]
        BY <1>1, <1>3
    <2> HIDE DEF x, z
    <2>3. ASSUME NEW i \in 1..Len(x) PROVE x[i] = z[i]
        <3>1. CASE i <= 7
            <4>1. i \in 1..7
                BY <2>1, <3>1
            <4> QED
                BY <2>1, <2>2, <4>1
        <3>2. CASE i > 7
            <4>1. i - 7 \in 1..Len(infos) /\ 7 + (i - 7) = i
                BY <2>1, <3>2
            <4> QED
                BY <2>1, <2>2, <4>1
        <3> QED
            BY <2>1, <3>1, <3>2
    <2>4. x = z
        BY <2>1, <2>2, <2>3, SeqEqual
    <2> QED
        BY <2>4 DEF z
<1>8. y = (first \o other) \o (last \o infos)
    <2> DEFINE z == (first \o other) \o (last \o infos)
    <2>1. /\ y \in Seq(Fields(FileNames)) /\ Len(y) = 7 + Len(infos) /\ Len(infos) \in Nat
          /\ y[1] = offset /\ y[2] = size /\ y[3] = bytes /\ y[4] = time /\ y[5] = state
          /\ y[6] = hash /\ y[7] = count /\ \A i \in 1..Len(infos) : y[7 + i] = infos[i]
        BY <1>1, <1>3
    <2>2. /\ z \in Seq(Fields(FileNames)) /\ Len(z) = 7 + Len(infos)
          /\ z[1] = offset /\ z[2] = size /\ z[3] = bytes /\ z[4] = time /\ z[5] = state
          /\ z[6] = hash /\ z[7] = count /\ \A i \in 1..Len(infos) : z[7 + i] = infos[i]
        BY <1>1, <1>3
    <2> HIDE DEF y, z
    <2>3. ASSUME NEW i \in 1..Len(y) PROVE y[i] = z[i]
        <3>1. CASE i <= 7
            <4>1. i \in 1..7
                BY <2>1, <3>1
            <4> QED
                BY <2>1, <2>2, <4>1
        <3>2. CASE i > 7
            <4>1. i - 7 \in 1..Len(infos) /\ 7 + (i - 7) = i
                BY <2>1, <3>2
            <4> QED
                BY <2>1, <2>2, <4>1
        <3> QED
            BY <2>1, <3>1, <3>2
    <2>4. y = z
        BY <2>1, <2>2, <2>3, SeqEqual
    <2> QED
        BY <2>4 DEF z
<1> DEFINE rest == last \o infos
           a == first \o two
           b == first \o other
<1>9. rest \in Seq(Fields(FileNames))
    BY <1>3, <1>5
<1> HIDE DEF first, two, other, last, x, y, rest, a, b
<1>10. /\ SameBut(a, b, names) /\ TotalLength(a) = TotalLength(b)
       /\ a \in Seq(Fields(FileNames)) /\ b \in Seq(Fields(FileNames))
    BY <1>5, <1>6, SameBehind DEF a, b
<1>11. SameBut(a \o rest, b \o rest, names)
    BY <1>9, <1>10, SameBefore
<1> QED
    BY <1>4, <1>7, <1>8, <1>11 DEF a, b, rest, names

-----------------------------------------------------------------------------
\* A number of hashes that 16 bits hold is written as it is.
LEMMA HashesCounted ==
    ASSUME NEW n \in Nat, n < 65536
    PROVE  partsCount(n) = n
<1> QED
    BY DEF partsCount

\* A name of at most 255 bytes is read as it was written.
LEMMA ProgressSame ==
    ASSUME NEW m \in Nat, NEW n \in Nat, m < 256, n < 256
    PROVE  SameBut(Progress(m, n), ReadProgress(m, n), {})
<1>1. m % 256 = m /\ n % 256 = n
    OBVIOUS
<1>2. Progress(m, n) = ReadProgress(m, n)
    BY <1>1, Zenon DEF Progress, ReadProgress
<1> QED
    BY <1>2, Zenon DEF SameBut

\* The files are read as they were written.
LEMMA FilesRead ==
    ASSUME \A n \in HashCounts : partsCount(n) = n
    PROVE  /\ MetaDataRead = Lengths \X Lengths
           /\ {l \in Lengths \X Lengths : l[1] < 256 /\ l[2] < 256} \subseteq ProgressRead
           /\ PieceRead = HashCounts
<1>1. Lengths \subseteq Nat /\ HashCounts \subseteq Nat
    BY FileLayoutAssumption
<1>2. ASSUME NEW l \in Lengths \X Lengths PROVE l[1] \in Nat /\ l[2] \in Nat
    <2>1. l[1] \in Lengths /\ l[2] \in Lengths
        OBVIOUS
    <2> QED
        BY <1>1, <2>1
<1>3. ASSUME NEW l \in Lengths \X Lengths, NEW parts \in HashCounts, NEW password \in BOOLEAN
      PROVE  SameBut(MetaData(l[1], l[2], parts, password), ReadMetaData(l[1], l[2], parts, password), PortBytes)
    <2>1. parts \in Nat
        BY <1>1
    <2> QED
        BY <1>2, <2>1, MetaDataSame
<1>4. ASSUME NEW l \in Lengths \X Lengths, l[1] < 256, l[2] < 256
      PROVE  SameBut(Progress(l[1], l[2]), ReadProgress(l[1], l[2]), {})
    BY <1>2, <1>4, ProgressSame
<1>5. ASSUME NEW blocks \in HashCounts
      PROVE  /\ SameBut(PieceInfo(blocks), ReadPieceInfo(blocks), {})
             /\ SameBut(<<Field("offset", 8), Field("size", 4)>> \o PieceUpdate(blocks),
                        ReadPieceInfo(blocks), {"status", "lastAccess"})
    <2>1. PieceInfo(blocks) = ReadPieceInfo(blocks)
        BY Zenon DEF PieceInfo, ReadPieceInfo
    <2>2. SameBut(PieceInfo(blocks), ReadPieceInfo(blocks), {})
        BY <2>1, Zenon DEF SameBut
    <2>3. blocks \in Nat
        BY <1>1
    <2> QED
        BY <2>2, <2>3, PieceUpdateSame
<1>6. MetaDataRead = Lengths \X Lengths
    BY <1>3, Zenon DEF MetaDataRead
<1>7. {l \in Lengths \X Lengths : l[1] < 256 /\ l[2] < 256} \subseteq ProgressRead
    BY <1>4, Zenon DEF ProgressRead
<1>8. PieceRead = HashCounts
    BY <1>5, Zenon DEF PieceRead
<1> QED
    BY <1>6, <1>7, <1>8

\* A file below 2^32 bytes has few pieces, so that 16 bits hold their number.
LEMMA FewPieces ==
    ASSUME NEW n \in Nat, n < UintSize
    PROVE  Parts(n, pieceSize(n)) \in Nat /\ Parts(n, pieceSize(n)) <= 2 * KB
<1>1. CASE n = 0
    BY <1>1, FileLayoutAssumption DEF Parts
<1>2. CASE n # 0
    <2> DEFINE s == pieceSize(n)
               q == (n + s - 1) \div s
    <2>1. s \in Nat \ {0}
        BY <1>2, PieceSize
    <2>2. n <= s * (2 * KB)
        <3>1. CASE n <= MIN_PIECE_SIZE
            <4>1. s = n
                BY <3>1, FileLayoutAssumption DEF pieceSize
            <4>2. \A x \in Nat, y \in Nat \ {0} : x <= x * (2 * y)
                OBVIOUS
            <4> QED
                BY <4>1, <4>2, FileLayoutAssumption
        <3>2. CASE n > MIN_PIECE_SIZE /\ n <= KB * MIN_PIECE_SIZE
            <4>1. s = MIN_PIECE_SIZE
                BY <3>2, FileLayoutAssumption DEF pieceSize
            <4>2. \A x, y \in Nat : y * x <= x * (2 * y)
                OBVIOUS
            <4> HIDE DEF s
            <4>3. KB * MIN_PIECE_SIZE <= s * (2 * KB) /\ KB * MIN_PIECE_SIZE \in Nat
                BY <4>1, <4>2, FileLayoutAssumption
            <4> QED
                BY <2>1, <3>2, <4>3, FileLayoutAssumption
        <3>3. CASE n > MIN_PIECE_SIZE /\ n > KB * MIN_PIECE_SIZE
            <4>1. s = n \div KB
                BY <3>3, FileLayoutAssumption DEF pieceSize
            <4>2. n < KB * s + KB
                BY <4>1, Quotient, FileLayoutAssumption
            <4> HIDE DEF s
            <4>3. \A x, y \in Nat \ {0} : y * x + y <= x * (2 * y)
                OBVIOUS
            <4>4. KB * s + KB <= s * (2 * KB) /\ KB * s \in Nat
                BY <2>1, <4>3, FileLayoutAssumption
            <4> QED
                BY <2>1, <4>2, <4>4, FileLayoutAssumption
        <3> QED
            BY <3>1, <3>2, <3>3, FileLayoutAssumption
    <2> HIDE DEF s
    <2>3. q \in Nat /\ s * q <= n + s - 1
        <3>1. n + s - 1 \in Nat
            BY <2>1
        <3> QED
            BY <2>1, <3>1, Quotient
    <2> HIDE DEF q
    <2>4. s * q < s * (2 * KB) + s
        BY <2>1, <2>2, <2>3, FileLayoutAssumption
    <2>5. \A a, b, c \in Nat : c * a < c * b + c => a <= b
        <3> SUFFICES ASSUME NEW a \in Nat, NEW b \in Nat, NEW c \in Nat, a >= b + 1
                     PROVE  c * a >= c * b + c
            OBVIOUS
        <3>1. c * (a - (b + 1)) >= 0
            OBVIOUS
        <3> QED
            BY <3>1
    <2>6. q <= 2 * KB
        BY <2>1, <2>3, <2>4, <2>5, FileLayoutAssumption
    <2> QED
        BY <1>2, <2>3, <2>6 DEF Parts, q, s
<1> QED
    BY <1>1, <1>2

\* So that with the code's divisor, 1024, no metadata loses a hash: the number
\* of hashes createMetaData writes is that of the pieces.
THEOREM NoHashLost ==
    ASSUME NEW n \in Nat, n < UintSize, 2 * KB < 65536
    PROVE  partsCount(Parts(n, pieceSize(n))) = Parts(n, pieceSize(n))
<1>1. Parts(n, pieceSize(n)) \in Nat /\ Parts(n, pieceSize(n)) < 65536
    BY FewPieces, FileLayoutAssumption
<1> QED
    BY <1>1, HashesCounted

-----------------------------------------------------------------------------
(* The files of the program (ProgramFiles).                                *)

\* Every file below 2^32 bytes, of whatever size and whatever the sizes of
\* the code are, is described from the moment it is added.
THEOREM FilesDescribed == Spec => []FileDescribed
<1>1. FileDescribed
    BY AllDescribed, FileLayoutAssumption DEF FileDescribed
<1> QED
    BY <1>1, PTL

\* The name of the creator has a length.
LEMMA CreatorHasLength == Spec => [](creator \in Nat)
<1>1. Init => creator \in Nat
    BY FileAssumption DEF Init
<1>2. creator \in Nat /\ [Next]_vars => (creator \in Nat)'
    <2> SUFFICES ASSUME [Next]_vars PROVE UNCHANGED creator
        OBVIOUS
    <2>1. CASE UNCHANGED vars
        BY <2>1 DEF vars, fileVars
    <2>2. CASE ChooserNext
        BY <2>2 DEF ChooserNext, Request, Expire, Verify, Stop, ResetDamaged, EndReset,
                    ChangeAllStatus, Truncate, Save, fileVars
    <2>3. CASE ResponderNext
        BY <2>3 DEF ResponderNext, Arrive, Count, Settle, WritePiece, WriteTotal
    <2>4. CASE Add \/ AddAgain \/ AddToSeed \/ Copy \/ Restart
        BY <2>4 DEF Add, AddAgain, AddToSeed, Copy, Restart
    <2>5. ASSUME NEW t \in Thread, TestCompleted(t) PROVE UNCHANGED creator
        BY <2>5 DEF TestCompleted, fileVars
    <2> QED
        BY <2>1, <2>2, <2>3, <2>4, <2>5 DEF Next
<1> QED
    BY <1>1, <1>2, PTL DEF Spec

\* The header and the pieces have the lengths by which ProgressFile finds a
\* piece in the file.
LEMMA LengthsAgree ==
    ASSUME creator \in Nat
    PROVE  /\ TotalLength(Progress(NameLength, creator)) = HeaderLength
           /\ \A p \in Piece : TotalLength(PieceInfo(Cardinality(BlocksOf(p)))) = PieceLength(p)
<1>1. TotalLength(Progress(NameLength, creator)) = 77 + NameLength + creator
    BY FileAssumption, ProgressLength
<1>2. HeaderLength = 77 + NameLength + creator
    BY FileAssumption DEF HeaderLength
<1>3. ASSUME NEW p \in Piece
      PROVE  TotalLength(PieceInfo(Cardinality(BlocksOf(p)))) = PieceLength(p)
    <2> DEFINE blocks == Cardinality(BlocksOf(p))
    <2>1. blocks \in Nat
        BY FileAssumption, FS_Subset, FS_CardinalityType DEF BlocksOf
    <2>2. PieceLength(p) = 64 + 11 * blocks
        BY <2>1 DEF PieceLength
    <2> HIDE DEF blocks
    <2>3. TotalLength(PieceInfo(blocks)) = 64 + 11 * blocks
        BY <2>1, PieceInfoLength
    <2> QED
        BY <2>2, <2>3 DEF blocks
<1> QED
    BY <1>1, <1>2, <1>3

\* Whatever the names, the hashes and the blocks are, as long as 16 bits hold
\* the number of hashes: what the program writes it reads as it was written.
THEOREM FilesAreReadBack ==
    ASSUME \A n \in HashCounts : n < 65536
    PROVE  Spec => []FilesReadBack
<1>1. \A n \in HashCounts : partsCount(n) = n
    BY FileLayoutAssumption, HashesCounted
<1>2. creator \in Nat => FilesReadBack
    BY <1>1, FilesRead, LengthsAgree DEF FilesReadBack
<1> QED
    BY <1>2, CreatorHasLength, PTL

=============================================================================
