-------------------------- MODULE DownloadProgress --------------------------
(***************************************************************************)
(* The progress table of one file: Utils/DowndloadProgress.  It is shared  *)
(* by the thread that chooses blocks and the thread that handles their     *)
(* arrival; each public method holds _mut while it changes the table, then *)
(* releases it, and the two update methods read progress() under a second  *)
(* acquisition before they set _completed.                                 *)
(*                                                                         *)
(* A file is a finite set of bytes, each in one block; a block belongs to  *)
(* one piece.  Sizes are numbers of bytes, so that blocks may differ in    *)
(* size as the last block of a piece does.                                 *)
(***************************************************************************)
EXTENDS Integers, FiniteSets

CONSTANTS Piece,    \* the pieces of the file (indexes)
          Block,    \* the blocks of all pieces
          PieceOf,  \* the piece a block belongs to
          Byte,     \* the bytes of the file
          BlockOf,  \* the block a byte belongs to
          Thread    \* the threads that call the table

ASSUME LayoutAssumption ==
    /\ Piece \subseteq Nat
    /\ PieceOf \in [Block -> Piece]
    /\ IsFiniteSet(Byte)
    /\ BlockOf \in [Byte -> Block]

\* PieceProgress makes blocks as long as bytes are left.
ASSUME NoEmptyBlock == \A b \in Block : \E y \in Byte : BlockOf[y] = b

VARIABLES pieceStatus,  \* PieceProgress::status
          blockStatus,  \* BlockInfo::status
          total,        \* _totalDownloadBytes
          completed,    \* _completed
          checking      \* threads between the unlock and the progress() test

progressVars == <<pieceStatus, blockStatus, total, completed, checking>>

Status == {"Empty", "Downloading", "Downloaded", "Verified"}

\* The statuses under which the bytes of a block count as downloaded.
Held == {"Downloaded", "Verified"}

BlocksOf(p) == {b \in Block : PieceOf[b] = p}

\* The number of bytes in a set of blocks.
Size(S) == Cardinality({y \in Byte : BlockOf[y] \in S})

FileSize == Cardinality(Byte)

\* progress() >= 1. The total is unsigned: below zero it is far above the size.
Full == total >= FileSize \/ total < 0

-----------------------------------------------------------------------------
(* The operations.  Each takes the calling thread, which is not inside     *)
(* another call.                                                           *)

\* What PieceProgress::downloadedBlock returns: the bytes the block adds.
\* (Mutant: a block that comes after its request timed out is not counted.)
NewBytesIfRequested(b) == IF blockStatus[b] = "Downloading" THEN Size({b}) ELSE 0
NewBytes(b) == IF blockStatus[b] \in Held THEN 0 ELSE Size({b})

\* DownloadProgress::downloadedBlock; afterwards pieceStatus'[p] =
\* "Downloaded" is the value it returns.
DownloadedBlock(t, b) ==
    LET p == PieceOf[b] IN
    /\ t \notin checking
    /\ blockStatus' = [blockStatus EXCEPT ![b] = "Downloaded"]
    /\ pieceStatus' = IF \A c \in BlocksOf(p) \ {b} : blockStatus[c] = "Downloaded"
                      THEN [pieceStatus EXCEPT ![p] = "Downloaded"]
                      ELSE pieceStatus
    /\ total' = total + NewBytes(b)
    /\ UNCHANGED <<completed, checking>>

\* What PieceProgress::setStatus takes off and puts on the total.
\* (Mutant: the status of the blocks is not asked for.)
RemovedHeldOrNot(p, s) == {b \in BlocksOf(p) : s = "Empty" /\ pieceStatus[p] # "Empty"}

Removed(p, s) ==
    {b \in BlocksOf(p) : /\ s = "Empty" /\ pieceStatus[p] # "Empty"
                         /\ blockStatus[b] \in Held}

Added(p, s) ==
    {b \in BlocksOf(p) : /\ s \in Held /\ pieceStatus[p] \notin Held
                         /\ blockStatus[b] \notin Held}

\* DownloadProgress::updatePieceStatus with a status other than Downloading,
\* which no caller passes.
UpdatePieceStatus(t, p, s) ==
    /\ t \notin checking
    /\ total' = total - Size(Removed(p, s)) + Size(Added(p, s))
    /\ pieceStatus' = [pieceStatus EXCEPT ![p] = s]
    /\ blockStatus' = [b \in Block |-> IF PieceOf[b] = p THEN s ELSE blockStatus[b]]
    /\ checking' = checking \cup {t}
    /\ UNCHANGED completed

\* DownloadProgress::updateBlockStatus, which is called with Empty (a request
\* timed out) and with Downloading (a request is made).  The total stays.
UpdateBlockStatus(t, b, s) ==
    /\ t \notin checking
    /\ blockStatus' = [blockStatus EXCEPT ![b] = s]
    /\ pieceStatus' = IF s = "Downloading"
                      THEN [pieceStatus EXCEPT ![PieceOf[b]] = "Downloading"]
                      ELSE pieceStatus
    /\ checking' = checking \cup {t}
    /\ UNCHANGED <<total, completed>>

\* The end of both update methods: progress() is read after the unlock.
CheckCompleted(t) ==
    /\ t \in checking
    /\ checking' = checking \ {t}
    /\ completed' = (completed \/ Full)
    /\ UNCHANGED <<pieceStatus, blockStatus, total>>

\* DownloadProgress::done, called on a fresh table for a file being shared.
Done ==
    /\ \A p \in Piece : pieceStatus[p] = "Empty"
    /\ \A b \in Block : blockStatus[b] = "Empty"
    /\ total = 0
    /\ checking = {}
    /\ pieceStatus' = [p \in Piece |-> "Verified"]
    /\ blockStatus' = [b \in Block |-> "Verified"]
    /\ total' = total + Size(Block)
    /\ completed' = TRUE
    /\ UNCHANGED checking

-----------------------------------------------------------------------------

ProgressInit ==
    /\ pieceStatus = [p \in Piece |-> "Empty"]
    /\ blockStatus = [b \in Block |-> "Empty"]
    /\ total = 0
    /\ completed = FALSE
    /\ checking = {}

ProgressNext ==
    \/ \E t \in Thread, b \in Block : DownloadedBlock(t, b)
    \/ \E t \in Thread, p \in Piece, s \in {"Empty", "Downloaded", "Verified"} :
          UpdatePieceStatus(t, p, s)
    \/ \E t \in Thread, b \in Block, s \in {"Empty", "Downloading"} :
          UpdateBlockStatus(t, b, s)
    \/ \E t \in Thread : CheckCompleted(t)
    \/ Done

ProgressSpec == ProgressInit /\ [][ProgressNext]_progressVars

-----------------------------------------------------------------------------
(* Properties.                                                             *)

\* The types of the table.  That total is a natural number says that
\* PieceProgress::setStatus never takes off more than was put on:
\* _totalDownloadBytes is unsigned and would wrap.
ProgressTypeOK ==
    /\ pieceStatus \in [Piece -> Status]
    /\ blockStatus \in [Block -> Status]
    /\ total \in Nat
    /\ completed \in BOOLEAN
    /\ checking \subseteq Thread

\* The blocks whose bytes the total must contain: those held, and all those
\* of a piece that is Downloaded or Verified, even where a late timeout has
\* set one of them back.
Counted == {b \in Block : \/ blockStatus[b] \in Held
                          \/ pieceStatus[PieceOf[b]] \in Held}

\* However the calls of the two threads interleave, the total is never less
\* than the bytes held (downloadedBlock, setStatus and updateBlockStatus
\* disagree on when a block is counted, but only ever to the other side).
NeverUndercounts == total >= Size(Counted)

\* So the download loop, which tests progress() >= 1, cannot miss that every
\* block has arrived.
NoMissedCompletion == Block = Counted => Full

=============================================================================
