------------------------------- MODULE Download -------------------------------
(***************************************************************************)
(* The download of one file by one peer: TorrentFileHandler::downloadFile  *)
(* with RarityTrackerChooser::ChooseBlocks and FileIO::verifyFile (the     *)
(* "chooser" thread), and TorrentFileHandler::handleResponse with          *)
(* FileIO::saveBlock (the "responder" thread).  Both work on the table of  *)
(* DownloadProgress, one locked call at a time; _mutexPieceChooser is held *)
(* by the chooser from "begin" to "send" and taken by the responder only   *)
(* to credit an answer.                                                    *)
(*                                                                         *)
(* Time is abstracted: any request not marked received may be found older  *)
(* than REQUEST_TIMEOUT_MS.  The order in which pieces are taken (rarity,  *)
(* rand) is left open, except that those already Downloading come first;   *)
(* within a piece blocks are taken in order.                               *)
(***************************************************************************)
EXTENDS DownloadProgress

CONSTANTS Peer,            \* the requestable peers
          Nobody,          \* no peer and no block
          HasPiece,        \* the pieces each of them has
          SpillsOver,      \* the blocks that an answer for a block reaches into
          MinWindow,       \* MIN_WINDOW
          MaxWindow,       \* MAX_WINDOW
          InitialWindow,   \* INITIAL_WINDOW
          MaxTimeouts,     \* bound: requests that time out though an answer comes
          MaxCorrupt,      \* bound: blocks that arrive corrupted
          MaxLost,         \* bound: requests or answers that are lost
          MaxTotal,        \* bound: no answer is taken once the total exceeds it
          MayStop          \* whether the user stops the download

ASSUME DownloadAssumption ==
    /\ {"chooser", "responder"} \subseteq Thread
    /\ IsFiniteSet(Block) /\ Block \subseteq Nat
    /\ IsFiniteSet(Piece) /\ IsFiniteSet(Peer)
    /\ Nobody \notin Peer \cup Block
    /\ HasPiece \in [Peer -> SUBSET Piece]
    /\ SpillsOver \in [Block -> SUBSET Block]
    /\ \A b \in Block : b \notin SpillsOver[b]
    /\ MinWindow \in Nat /\ MaxWindow \in Nat
    /\ InitialWindow \in MinWindow..MaxWindow
    /\ MaxTimeouts \in Nat /\ MaxCorrupt \in Nat /\ MaxLost \in Nat /\ MaxTotal \in Nat
    /\ MayStop \in BOOLEAN

VARIABLES
    \* the chooser thread
    pc,        \* where it is
    left,      \* pieces its current loop has still to visit
    expired,   \* timed out entries it has still to erase
    snapDownloading, snapEmpty,  \* Empty blocks of its two copies of the table
    waiting,   \* peers ChooseBlocks has still to serve
    cur,       \* the peer it is serving
    slots,     \* availableSlots, a uint16_t
    picked,    \* the requests of this round, sent when ChooseBlocks returns
    \* RarityTrackerChooser
    open,      \* activeRequests: how many entries, per peer and block
    got,       \* the entries marked received
    window,    \* peerWindows
    \* the responder thread
    rpc, rpeer, rblock, verdict,
    \* the rest of the handler, the disk and the network
    disk,      \* what the file holds where a block belongs
    announced, \* pieces for which hasPieceUpdate was broadcast
    isSeed, running,
    asked,     \* requests sent and not yet answered, per peer and block
    timeouts, corrupt, lost,  \* the uses made of the bounds
    spilt      \* whether an answer has damaged a block beside its own

chooserVars == <<pc, left, expired, snapDownloading, snapEmpty, waiting, cur, slots, picked>>
requestVars == <<open, got, window>>
responderVars == <<rpc, rpeer, rblock, verdict>>
handlerVars == <<isSeed, running>>
faultVars == <<timeouts, corrupt, lost, spilt>>
vars == <<progressVars, chooserVars, requestVars, responderVars, disk, announced,
          handlerVars, asked, faultVars>>

Request == Peer \X Block

\* The two copies of the table that ChooseBlocks takes its blocks from.
CopyName == {"Downloading", "Empty"}

\* The blocks a copy of the table shows as Empty, over pieces of one status.
EmptyBlocks(s) ==
    {b \in Block : pieceStatus[PieceOf[b]] = s /\ blockStatus[b] = "Empty"}

\* The hash of a piece (of the file) matches what is on disk.
PieceGood(p) == \A b \in BlocksOf(p) : disk[b] = "good"
FileGood == \A p \in Piece : PieceGood(p)

\* activeRequests[peer].size()
Outstanding(peer) == Cardinality(UNION {{<<b, i>> : i \in 1..open[peer][b]} : b \in Block})

\* availableSlots: currentWindow - size(), kept in a uint16_t.
Wrap == 65536
Slots(peer) == (window[peer] - Outstanding(peer)) % Wrap

\* The mutex of the piece chooser is held by the chooser thread.
Choosing == pc \in {"expire", "snapEmpty", "nextPeer", "pick"}

-----------------------------------------------------------------------------
(* The chooser thread: downloadFile.                                       *)

ChooserAt(l) == pc = l /\ "chooser" \notin checking

\* while (_running) { if (progress() >= 1) ... }.  When _running is found
\* false the loop ends, and what follows the loop runs all the same.
Check ==
    /\ ChooserAt("check")
    /\ pc' = IF ~running THEN "finish" ELSE IF Full THEN "verify" ELSE "begin"
    /\ UNCHANGED <<progressVars, left, expired, snapDownloading, snapEmpty, waiting, cur, slots,
                   picked, requestVars, responderVars, disk, announced, handlerVars,
                   asked, faultVars>>

\* verifyFile: the hash of the whole file, read without FileIO::mutex_.
\* (Mutant: the result is not looked at.)
VerifyFileIgnored ==
    /\ ChooserAt("verify")
    /\ pc' = "finish"
    /\ UNCHANGED <<progressVars, left, expired, snapDownloading, snapEmpty, waiting, cur, slots,
                   picked, requestVars, responderVars, disk, announced, handlerVars,
                   asked, faultVars>>

VerifyFile ==
    /\ ChooserAt("verify")
    /\ pc' = IF FileGood THEN "finish" ELSE "scan"
    /\ UNCHANGED <<progressVars, left, expired, snapDownloading, snapEmpty, waiting, cur, slots,
                   picked, requestVars, responderVars, disk, announced, handlerVars,
                   asked, faultVars>>

\* getDamagedPieces.
Scan ==
    /\ ChooserAt("scan")
    /\ left' = {p \in Piece : ~PieceGood(p)}
    /\ pc' = "reset"
    /\ UNCHANGED <<progressVars, expired, snapDownloading, snapEmpty, waiting, cur, slots,
                   picked, requestVars, responderVars, disk, announced, handlerVars,
                   asked, faultVars>>

\* Each damaged piece is set Empty, whatever has happened to it meanwhile.
ResetDamaged ==
    /\ ChooserAt("reset")
    /\ \E p \in left :
          /\ \A r \in left : p <= r
          /\ UpdatePieceStatus("chooser", p, "Empty")
          /\ left' = left \ {p}
    /\ UNCHANGED <<pc, expired, snapDownloading, snapEmpty, waiting, cur, slots, picked,
                   requestVars, responderVars, disk, announced, handlerVars, asked,
                   faultVars>>

EndReset ==
    /\ ChooserAt("reset")
    /\ left = {}
    /\ pc' = "begin"
    /\ UNCHANGED <<progressVars, left, expired, snapDownloading, snapEmpty, waiting, cur, slots,
                   picked, requestVars, responderVars, disk, announced, handlerVars,
                   asked, faultVars>>

\* The entries not marked received, numbered among those of one peer and block.
Entries(q, b) == open[q][b] - IF <<q, b>> \in got THEN 1 ELSE 0
Unreceived == UNION {{<<r[1], r[2], i>> : i \in 1..Entries(r[1], r[2])} : r \in Request}

\* Those that an answer still to come, or being handled, may be credited to.
ToCome(q, b) == asked[q][b] + IF rpc # "idle" /\ <<q, b>> = <<rpeer, rblock>> THEN 1 ELSE 0
Answerable == {e \in Unreceived : e[3] <= ToCome(e[1], e[2])}

\* ChooseBlocks takes the mutex, erases the entries marked received and finds
\* the timed out ones (now is read once).  To time out an entry that would yet
\* be answered uses the bound.
BeginRound(E) ==
    /\ ChooserAt("begin")
    /\ E \subseteq Unreceived
    /\ timeouts + Cardinality(E \cap Answerable) <= MaxTimeouts
    /\ timeouts' = timeouts + Cardinality(E \cap Answerable)
    /\ open' = [q \in Peer |-> [b \in Block |-> Entries(q, b)]]
    /\ got' = {}
    /\ expired' = E
    /\ pc' = "expire"
    /\ UNCHANGED <<progressVars, left, snapDownloading, snapEmpty, waiting, cur, slots, picked,
                   window, responderVars, disk, announced, handlerVars, asked,
                   corrupt, lost, spilt>>

\* A timed out entry is erased and its block set Empty, whoever else has
\* delivered it.  Entries for the same peer and block are interchangeable:
\* the last by number goes first.
\* (Mutant: the block keeps its status.)
ExpireEntryOnly ==
    /\ ChooserAt("expire")
    /\ \E e \in expired :
          /\ \A f \in expired : <<f[1], f[2]>> = <<e[1], e[2]>> => f[3] <= e[3]
          /\ open' = [open EXCEPT ![e[1]][e[2]] = @ - 1]
          /\ expired' = expired \ {e}
    /\ UNCHANGED <<progressVars, pc, left, snapDownloading, snapEmpty, waiting, cur, slots,
                   picked, got, window, responderVars, disk, announced, handlerVars,
                   asked, faultVars>>

Expire ==
    /\ ChooserAt("expire")
    /\ \E e \in expired :
          /\ \A f \in expired : <<f[1], f[2]>> = <<e[1], e[2]>> => f[3] <= e[3]
          /\ UpdateBlockStatus("chooser", e[2], "Empty")
          /\ open' = [open EXCEPT ![e[1]][e[2]] = @ - 1]
          /\ expired' = expired \ {e}
    /\ UNCHANGED <<pc, left, snapDownloading, snapEmpty, waiting, cur, slots, picked, got,
                   window, responderVars, disk, announced, handlerVars, asked, faultVars>>

\* getPiecesStatused(Downloading): a copy, taken under _mut.
CopyDownloading ==
    /\ ChooserAt("expire")
    /\ expired = {}
    /\ snapDownloading' = EmptyBlocks("Downloading")
    /\ pc' = "snapEmpty"
    /\ UNCHANGED <<progressVars, left, expired, snapEmpty, waiting, cur, slots, picked,
                   requestVars, responderVars, disk, announced, handlerVars, asked,
                   faultVars>>

\* getPiecesStatused(Empty): a second copy, under a second acquisition.
CopyEmpty ==
    /\ ChooserAt("snapEmpty")
    /\ snapEmpty' = EmptyBlocks("Empty")
    /\ waiting' = Peer
    /\ pc' = "nextPeer"
    /\ UNCHANGED <<progressVars, left, expired, snapDownloading, cur, slots, picked, requestVars,
                   responderVars, disk, announced, handlerVars, asked, faultVars>>

\* The next peer of the list; a peer without a slot is passed over.
ServePeer(q) ==
    /\ ChooserAt("nextPeer")
    /\ q \in waiting
    /\ cur' = q
    /\ slots' = Slots(q)
    /\ waiting' = waiting \ {q}
    /\ pc' = IF Slots(q) = 0 THEN "nextPeer" ELSE "pick"
    /\ UNCHANGED <<progressVars, left, expired, snapDownloading, snapEmpty, picked, requestVars,
                   responderVars, disk, announced, handlerVars, asked, faultVars>>

\* What the peer being served may still be asked for.  A block of a piece that
\* was Downloading leaves the copy when it is requested; a block of a piece
\* that was Empty stays in the copy, for the peers served after this one.
\* A piece may be in both copies, and its blocks are then requested from both.
\* (Mutant: a block requested stays in the copy for the same peer too.)
FromEmptyAgain == {b \in snapEmpty : PieceOf[b] \in HasPiece[cur]}
FromDownloading == {b \in snapDownloading : PieceOf[b] \in HasPiece[cur]}
FromEmpty == {b \in snapEmpty : /\ PieceOf[b] \in HasPiece[cur]
                                /\ <<cur, b, "Empty">> \notin picked}

Copy == IF FromDownloading # {} THEN "Downloading" ELSE "Empty"
Eligible == IF Copy = "Downloading" THEN FromDownloading ELSE FromEmpty

\* One request: blocks of a piece are taken in the order of their indexes.
Pick(b) ==
    /\ ChooserAt("pick")
    /\ slots > 0
    /\ b \in Eligible
    /\ \A c \in Eligible : PieceOf[c] = PieceOf[b] => b <= c
    /\ UpdateBlockStatus("chooser", b, "Downloading")
    /\ open' = [open EXCEPT ![cur][b] = @ + 1]
    /\ picked' = picked \cup {<<cur, b, Copy>>}
    /\ slots' = slots - 1
    /\ snapDownloading' = snapDownloading \ {b}
    /\ UNCHANGED <<pc, left, expired, snapEmpty, waiting, cur, got, window, responderVars, disk,
                   announced, handlerVars, asked, faultVars>>

EndPeer ==
    /\ ChooserAt("pick")
    /\ slots = 0 \/ Eligible = {}
    /\ pc' = "nextPeer"
    /\ UNCHANGED <<progressVars, left, expired, snapDownloading, snapEmpty, waiting, cur, slots,
                   picked, requestVars, responderVars, disk, announced, handlerVars,
                   asked, faultVars>>

\* ChooseBlocks returns, the requests are sent, the mutex is released and the
\* thread sleeps until the next second.
Send ==
    /\ ChooserAt("nextPeer")
    /\ waiting = {}
    /\ asked' = [q \in Peer |-> [b \in Block |->
                   asked[q][b] + Cardinality({c \in CopyName : <<q, b, c>> \in picked})]]
    /\ picked' = {}
    /\ snapDownloading' = {} /\ snapEmpty' = {}
    /\ cur' = Nobody /\ slots' = 0
    /\ pc' = "check"
    /\ UNCHANGED <<progressVars, left, expired, waiting, requestVars, responderVars, disk,
                   announced, handlerVars, faultVars>>

\* After the loop: the handler becomes a seed.
BecomeSeed ==
    /\ ChooserAt("finish")
    /\ isSeed' = TRUE
    /\ left' = Piece
    /\ pc' = "changeAll"
    /\ UNCHANGED <<progressVars, expired, snapDownloading, snapEmpty, waiting, cur, slots, picked,
                   requestVars, responderVars, disk, announced, running, asked, faultVars>>

\* changeAllStatus(Verified); saveProgressToFile and finishedFile end it.
ChangeAllStatus ==
    /\ ChooserAt("changeAll")
    /\ \E p \in left :
          /\ \A r \in left : p <= r
          /\ UpdatePieceStatus("chooser", p, "Verified")
          /\ left' = left \ {p}
    /\ pc' = IF left' = {} THEN "seed" ELSE "changeAll"
    /\ UNCHANGED <<expired, snapDownloading, snapEmpty, waiting, cur, slots, picked, requestVars,
                   responderVars, disk, announced, handlerVars, asked, faultVars>>

-----------------------------------------------------------------------------
(* The responder thread: handleResponse.                                   *)

\* loadBlock reads BLOCK_SIZE bytes for the last block of a piece, too, which is
\* shorter: they end with the beginning of the next piece, or with the place
\* holder when the answering peer has not got that piece; saveBlock writes all.
SpiltOn(q, b) ==
    {c \in SpillsOver[b] : PieceOf[c] \notin HasPiece[q] /\ disk[c] = "good"}

\* A peer's answer is taken from the queue and saveBlock writes it, whatever
\* the state of the block is by now.  The inner loop of handleResponses does
\* not test _running: answers queued when the user stops are still handled.
Answer(q, b, content) ==
    /\ rpc = "idle"
    /\ asked[q][b] > 0
    /\ total <= MaxTotal
    /\ content = "bad" => corrupt < MaxCorrupt
    /\ corrupt' = IF content = "bad" THEN corrupt + 1 ELSE corrupt
    /\ asked' = [asked EXCEPT ![q][b] = @ - 1]
    /\ disk' = [c \in Block |-> IF c = b THEN content
                                ELSE IF c \in SpiltOn(q, b) THEN "bad" ELSE disk[c]]
    /\ spilt' = (spilt \/ SpiltOn(q, b) # {})
    /\ rpc' = "count" /\ rpeer' = q /\ rblock' = b
    /\ UNCHANGED <<progressVars, chooserVars, requestVars, verdict, announced,
                   handlerVars, timeouts, lost>>

\* downloadedBlock; when it leaves the piece Downloaded the piece is verified
\* against the disk, which no other thread writes.
CountBlock ==
    /\ rpc = "count"
    /\ DownloadedBlock("responder", rblock)
    /\ LET p == PieceOf[rblock] IN
          /\ rpc' = IF pieceStatus'[p] = "Downloaded" THEN "settle" ELSE "credit"
          /\ verdict' = (pieceStatus'[p] = "Downloaded" /\ PieceGood(p))
    /\ UNCHANGED <<chooserVars, requestVars, rpeer, rblock, disk, announced, handlerVars,
                   asked, faultVars>>

\* The piece becomes Verified or Empty.
\* (Mutants: the verdict is ignored; a damaged piece keeps its status.)
OutcomeUnchecked == "Verified"
OutcomeKept == IF verdict THEN "Verified" ELSE "Downloaded"
Outcome == IF verdict THEN "Verified" ELSE "Empty"

SettlePiece ==
    /\ rpc = "settle"
    /\ UpdatePieceStatus("responder", PieceOf[rblock], Outcome)
    /\ rpc' = "credit"
    /\ UNCHANGED <<chooserVars, requestVars, rpeer, rblock, verdict, disk, announced,
                   handlerVars, asked, faultVars>>

\* updateBlockReceived, under the chooser's mutex: the first entry for the
\* block, even one already received, is marked and the window follows the
\* trend of the response times.  A finished piece is then broadcast.
Credit ==
    /\ rpc = "credit"
    /\ "responder" \notin checking
    /\ ~Choosing
    /\ IF open[rpeer][rblock] > 0
       THEN /\ got' = got \cup {<<rpeer, rblock>>}
            /\ \E w \in {window[rpeer] + d : d \in {-1, 0, 1}} \cap (MinWindow..MaxWindow) :
                  window' = [window EXCEPT ![rpeer] = w]
       ELSE UNCHANGED <<got, window>>
    /\ announced' = IF verdict THEN announced \cup {PieceOf[rblock]} ELSE announced
    /\ rpc' = "idle" /\ rpeer' = Nobody /\ rblock' = Nobody /\ verdict' = FALSE
    /\ UNCHANGED <<progressVars, chooserVars, open, disk, handlerVars, asked, faultVars>>

\* The network or the other peer drops a request or its answer.
Lose(q, b) ==
    /\ asked[q][b] > 0
    /\ lost < MaxLost
    /\ lost' = lost + 1
    /\ asked' = [asked EXCEPT ![q][b] = @ - 1]
    /\ UNCHANGED <<progressVars, chooserVars, requestVars, responderVars, disk, announced,
                   handlerVars, timeouts, corrupt, spilt>>

\* TorrentFileHandler::stop, by the user.
Stop ==
    /\ MayStop /\ running
    /\ running' = FALSE
    /\ UNCHANGED <<progressVars, chooserVars, requestVars, responderVars, disk, announced,
                   isSeed, asked, faultVars>>

-----------------------------------------------------------------------------

Init ==
    /\ ProgressInit
    /\ pc = "check" /\ left = {} /\ expired = {}
    /\ snapDownloading = {} /\ snapEmpty = {}
    /\ waiting = {} /\ cur = Nobody /\ slots = 0 /\ picked = {}
    /\ open = [q \in Peer |-> [b \in Block |-> 0]]
    /\ got = {}
    /\ window = [q \in Peer |-> InitialWindow]
    /\ rpc = "idle" /\ rpeer = Nobody /\ rblock = Nobody /\ verdict = FALSE
    /\ disk = [b \in Block |-> "none"]
    /\ announced = {}
    /\ isSeed = FALSE /\ running = TRUE
    /\ asked = [q \in Peer |-> [b \in Block |-> 0]]
    /\ timeouts = 0 /\ corrupt = 0 /\ lost = 0 /\ spilt = FALSE

\* progress() after an update, by either thread.
TestCompleted(t) ==
    /\ CheckCompleted(t)
    /\ UNCHANGED <<chooserVars, requestVars, responderVars, disk, announced, handlerVars,
                   asked, faultVars>>

ChooserNext ==
    \/ Check \/ VerifyFile \/ Scan \/ ResetDamaged \/ EndReset
    \/ \E E \in SUBSET Unreceived : BeginRound(E)
    \/ Expire \/ CopyDownloading \/ CopyEmpty
    \/ \E q \in Peer : ServePeer(q)
    \/ \E b \in Block : Pick(b)
    \/ EndPeer \/ Send \/ BecomeSeed \/ ChangeAllStatus
    \/ TestCompleted("chooser")

ResponderNext ==
    \/ \E q \in Peer, b \in Block, content \in {"good", "bad"} : Answer(q, b, content)
    \/ CountBlock \/ SettlePiece \/ Credit
    \/ TestCompleted("responder")

Next == \/ ChooserNext \/ ResponderNext \/ Stop
        \/ \E q \in Peer, b \in Block : Lose(q, b)

Spec == Init /\ [][Next]_vars

\* The threads run and time passes: each request is answered or, once its
\* answer cannot come any more, found older than the timeout by some round.
Late == Unreceived \ Answerable

Fairness ==
    /\ WF_vars(ChooserNext)
    /\ WF_vars(CountBlock) /\ WF_vars(SettlePiece) /\ SF_vars(Credit)
    /\ WF_vars(TestCompleted("responder"))
    /\ SF_vars(\E E \in SUBSET Unreceived : Late \subseteq E /\ BeginRound(E))
    /\ \A q \in Peer, b \in Block : SF_vars(Answer(q, b, "good"))

FairSpec == Spec /\ Fairness

-----------------------------------------------------------------------------
(* Properties.                                                             *)

ChooserTypeOK ==
    /\ pc \in {"check", "verify", "scan", "reset", "begin", "expire", "snapEmpty",
               "nextPeer", "pick", "finish", "changeAll", "seed"}
    /\ left \subseteq Piece
    /\ expired \subseteq Peer \X Block \X (Nat \ {0})
    /\ snapDownloading \subseteq Block /\ snapEmpty \subseteq Block
    /\ waiting \subseteq Peer
    /\ cur \in Peer \cup {Nobody}
    /\ slots \in 0..(Wrap - 1)
    /\ picked \subseteq Peer \X Block \X CopyName

RequestTypeOK ==
    /\ open \in [Peer -> [Block -> Nat]]
    /\ got \subseteq Request
    /\ window \in [Peer -> MinWindow..MaxWindow]

ResponderTypeOK ==
    /\ rpc \in {"idle", "count", "settle", "credit"}
    /\ rpeer \in Peer \cup {Nobody}
    /\ rblock \in Block \cup {Nobody}
    /\ verdict \in BOOLEAN

HandlerTypeOK ==
    /\ disk \in [Block -> {"none", "good", "bad"}]
    /\ announced \subseteq Piece
    /\ isSeed \in BOOLEAN /\ running \in BOOLEAN
    /\ asked \in [Peer -> [Block -> Nat]]
    /\ timeouts \in 0..MaxTimeouts /\ corrupt \in 0..MaxCorrupt /\ lost \in 0..MaxLost
    /\ spilt \in BOOLEAN

TypeOK == ProgressTypeOK /\ ChooserTypeOK /\ RequestTypeOK /\ ResponderTypeOK /\ HandlerTypeOK

\* A piece is Downloaded only while the responder is about to verify it: no
\* interleaving with the chooser leaves a piece Downloaded, where it would be
\* neither requested again nor verified.
NoPieceStuckDownloaded ==
    \A p \in Piece : pieceStatus[p] = "Downloaded" =>
        rpc = "settle" /\ PieceOf[rblock] = p

\* What a Verified or announced piece promises, and a handler that is a seed.
Kept == /\ \A p \in Piece : pieceStatus[p] = "Verified" \/ p \in announced => PieceGood(p)
        /\ isSeed => FileGood

\* While the download is not stopped, no block has arrived corrupted and no
\* answer has damaged a block beside its own, a piece that is Verified or
\* announced to other peers is whole on the disk, and the handler is a seed only
\* of a whole file: although the chooser resets pieces on the word of an older
\* look at the disk, requests are repeated and their answers counted twice, and
\* a block is written whatever its status.
Integrity == running /\ corrupt = 0 /\ ~spilt => Kept

\* A first corrupted block is caught too, as long as no two copies of a block
\* are on their way: one peer is asked, and no request times out that is
\* answered.  Of a second one this cannot be said: the chooser may reset and
\* request again a piece that the responder is still about to find damaged, and
\* when that resets it once more its blocks are requested twice.
CorruptionCaught ==
    running /\ timeouts = 0 /\ corrupt <= 1 /\ ~spilt /\ Cardinality(Peer) = 1 => Kept

\* Corrupted blocks apart, a Verified piece has all its blocks on the disk.
VerifiedIsWritten ==
    running => \A b \in Block : pieceStatus[PieceOf[b]] = "Verified" => disk[b] # "none"

\* As long as no request times out that is answered, nothing is damaged, and
\* nothing is lost either where several peers are asked: the total is exact (the
\* duplicate requests of one round are not counted twice), and a peer is never
\* asked for more than its window, nor twice for a block.
ExactWhenUndisturbed ==
    timeouts = 0 /\ corrupt = 0 /\ ~spilt /\ (lost = 0 \/ Cardinality(Peer) = 1) =>
        /\ total = Size(Counted)
        /\ slots <= MaxWindow
        /\ \A q \in Peer, b \in Block : open[q][b] <= 1

\* As long as only requests that are really lost time out, a block that is
\* Downloading has an entry that is not marked received, by whose timeout it
\* would be requested again: crediting an answer to the first entry for its
\* block forgets none, and neither do two peers asked for it.
TrackedUnlessLate ==
    timeouts = 0 =>
        \A b \in Block : blockStatus[b] = "Downloading" => \E q \in Peer : Entries(q, b) > 0

\* The download ends, unless the user stops it, or a block is counted twice
\* (both copies of a request that was repeated came): an over-counted total
\* resets a piece in every round, for ever. It ends with the whole file good,
\* unless an answer damaged a block beside its own: what is found damaged is
\* downloaded again, but such an answer may come after the last verification.
EventuallySeed ==
    <>(\/ ~running
       \/ total # Size(Counted)
       \/ isSeed /\ pc = "seed" /\ Full /\ (FileGood \/ spilt))

-----------------------------------------------------------------------------
(* What comments of the code say and its steps do not keep.                *)

\* DownloadStatus::Verified, "Downloaded data has been verified".
VerifiedIsGood == \A p \in Piece : pieceStatus[p] = "Verified" => PieceGood(p)
=============================================================================
