# Gitabic in TLA+

Gitabic shares files between peers. A **server** gives every client an
identifier, remembers which peers have which file (the tracker) and carries the
messages by which two peers set up a direct connection (signaling). A **peer**
downloads a file from several others at once and serves what it has. This
directory models the parts of the program that threads, peers and failures make
hard to test, checks them with TLC on small instances, and proves the most
important results with TLAPS for every size. All paths below are relative to
`src/`.

## 1. Inventory

| Component | State | Operations | Talks to |
|---|---|---|---|
| Progress table `Peer/Utils/DowndloadProgress` | status of every piece and block, bytes downloaded, completed flag, one mutex | downloadedBlock, updatePieceStatus, updateBlockStatus, done, getPiecesStatused, progress, (de)serialisation | called by chooser, FileIO, the command line |
| Piece chooser `Peer/Torrent/PieceManagement` | open requests per peer with time and received mark, window and response times per peer, bitfields, rarity counts | ChooseBlocks, updateBlockReceived, addPeer, updatePeerBitfield, gotPiece, lostPiece | the table; called by the file handler under `_mutexPieceChooser` |
| File handler `Peer/Torrent/TorrentFileHandler` | four detached threads, queues of requests, responses and messages to send, running and seed flags | downloadFile, handleResponses, handleRequests, sendMessages, stop, resume, addMessage | chooser, FileIO, peer manager, connections manager, republisher |
| File on disk `Peer/Torrent/FileIO` | the file, the progress file beside it, one mutex | saveBlock, loadBlock, verifyFile, getDamagedPieces, changeAllStatus, updatePieceStateToFile, saveProgressToFile | the table, the file system |
| Peer manager `Peer/Torrent/PeerManager` | states of at most ten peers, backup, blacklisted, disconnected and new peers; peer lists shared by all instances | updateConnectedPeers (thread), requestForNewPeerList, addPeer, addConnectedPeer, removePeer, getPeerState | server socket, connections manager |
| Connections manager `Peer/Torrent/PeersConnectionManager` | connections, files registered per peer, two mutexes | addFileForPeer, removeFileFromPeer, sendMessage, routePackets (thread), shareIceData (thread) | server socket, ICE connections, torrent manager |
| ICE connection `Peer/ICEConnection` | state of one libnice agent, received and outgoing messages | connectToPeer, disconnect, callbacks, messageSendingThread | libnice |
| Server socket `Peer/NetworkUnit/ServerComm/TCPSocket` | socket, messages nobody has taken yet | sendRequest, receive | every thread that talks to the server |
| Republisher `Peer/NetworkUnit/ServerComm/DataRepublish` | next announcement per file | saveData, stopRepublish, republishOldData (thread) | server socket |
| Torrent manager `Peer/Torrent/TorrentManager` | handler per file | addNewFileHandler, stopFileHandler, handleMessage | file handlers |
| Server connections `Server/Communication/MultiThreadedServer` | a thread, an identifier and an outgoing queue per client | acceptClient, handleClient | signaling, tracker |
| Signaling `Server/Communication/IceMessagesHandler` | pending connection requests with their times | GetUserICEInfo, Authorized, AlreadyConnected, FullCapacity | the clients' queues |
| Tracker `Server/NetworkUnit/ServerCom/TrackerDataStorage` | records by the second they expire | saveData, getRegisteredData, removePeerData, removeOldData (thread) | client threads |
| Messages `Messages.h` (client and server), `BitTorrentMessages.h` | none | serialize and the constructors that read, for every message | all of the above |
| Files and their layout `Peer/Utils/MetaDataFile`, `FileUtils`, `FileSplitter` | the metadata file | sizes of pieces and blocks, hashes of the pieces, serialize, deserialize | the table, the file on disk |

The rest (command line, hashing and encryption, unused transports, container
scripts, build output) keeps no state that interacts; `PROJECT.json` lists each
with the reason it is left out.

**What is hard.** The download of one file is the work of two threads that
share the table one call at a time: the *chooser* (`downloadFile`), which every
second times requests out, copies the table twice and requests blocks by what
the copies say, and the *responder* (`handleResponses`), which writes answers
to the file, counts them, verifies pieces and credits the answer to a request.
Requests and answers may be lost, late or corrupted, a late answer comes after
its repetition, and the last step of the download is a look at the whole file
followed by resets of pieces that may have changed since. Between peers, a
request to connect holds the mutex needed to answer the requests of others.
On the server, threads share maps without locks, and records and pending
requests age. A program may end between any two writes to its files, and a
connection at any time. `PROJECT.json` lists each hazard at its line with the
property that covers it.

**What makes each part correct.**

- Table: the byte count never wraps below zero, never misses a byte that is
  held (or the end of the download would be missed), never exceeds the file.
- Chooser: no peer has more open requests than its window; a block that is
  Downloading will be answered or timed out; no needless repetition.
- File handler and file: what is Verified, announced or seeded is good on the
  disk; no piece is stuck; the download ends.
- Progress file: it can be read after a crash, and claims nothing the disk lacks.
- Messages and files: what one end writes is what the other end reads.
- Bitfields and rarity: nothing a peer announced is missed, every count covers
  what it counts.
- Peer manager: who is downloaded from is registered, peers that are gone leave.
- Connections: one connection per pair, every call ends, the last file of a
  peer closes its connection.
- ICE connection: nothing is sent twice or forgotten; gathering ends.
- File handler's threads: a request is answered once, stopped threads end.
- Tracker and republisher: a peer that keeps announcing is never forgotten, a
  peer that left is forgotten in time.

## 2. Modules

| Module | Models | Extends or instantiates |
|---|---|---|
| `DownloadProgress` | the progress table; actions are its public methods, called by any thread | |
| `Download` | one download: chooser, responder, user, network, disk | the table |
| `ProgressFile` | the table, the data and the progress file through crashes and restarts | the table |
| `Layout`, `FileLayout` | sequences of fields; pieces, blocks, hashes, the metadata file and the progress file | |
| `ProgramFiles` | what the files say of what is added and saved: `ProgressFile` joined with `FileLayout` | both |
| `Messages` | what every message writes and the other end reads | `Layout` |
| `PeerBitfields` | bitfields, updates and rarity counts between a downloader and its peers | |
| `FileHandlerLifecycle` | the threads and queues of a file handler through start, stop and resume; the torrent manager | |
| `PeerConnections` | connections of one program and the files they are used for | |
| `PeerManager` | the peers of each file, composed with the connections | `PeerConnections` |
| `PeerLists` | several peer managers that ask for lists on one socket | |
| `IceSignaling` | several programs and the server that introduces them; the client's socket | |
| `SignalingMessages` | what is under way is made of these messages: `IceSignaling` joined with `Messages` | both |
| `IceConnection` | one connection: gathering, connecting, sending, receiving, disconnecting | |
| `TrackerPromise` | what the tracker promises (abstract) | |
| `TrackerStorage` | how it stores announcements; implements the promise | instantiates `TrackerPromise` |
| `Republish` | a client that announces its files to the tracker, composed with it | `TrackerStorage` |
| `*_proofs` | theorems: `DownloadProgress_proofs`, `Download_proofs`, `Republish_proofs` about these modules, `ProgressFile_proofs` about `ProgramFiles`, `IceSignaling_proofs` about `SignalingMessages`, `PeerManager_proofs` about `PeerConnections`, `PeerManager`, `PeerLists` and `IceConnection`, `FileHandler_proofs` about `FileHandlerLifecycle` and `PeerBitfields`; `Layout_proofs` has lemmas on sequences of fields for the two that need them | |
| `MC*` | instances; `MCProgressFile` is one of `ProgramFiles`, `MCIceSignaling` of `SignalingMessages` | |

`PROJECT.json` maps every definition to its lines. What follows says how states
correspond and what was abstracted.

### `Download`

| Variable | Code |
|---|---|
| `pieceStatus`, `blockStatus`, `total`, `completed` | `PieceProgress::status`, `BlockInfo::status`, `_totalDownloadBytes`, `_completed` |
| `checking` | threads between the unlock and `progress()` at the end of the update methods |
| `pc`, `left`, `expired`, `snapDownloading`, `snapEmpty`, `waiting`, `cur`, `slots`, `picked` | the chooser thread's place and local variables in `downloadFile`, `verifyFile`, `ChooseBlocks` |
| `open`, `got`, `window` | `activeRequests` (as counts, with the marked entries in `got`), `peerWindows` |
| `rpc`, `rpeer`, `rblock`, `verdict` | the responder thread in `handleResponse` and `saveBlock` |
| `disk`, `announced`, `isSeed`, `running` | the file, the broadcast hasPieceUpdate messages, `_isSeed`, `_running` |
| `asked` | requests on their way or not yet answered, from the send queue to the queue of responses |
| `spilt` | history: an answer damaged the beginning of the next piece |

Chooser: `Check` (loop test and progress test), `VerifyFile`, `Scan`,
`ResetDamaged`, `EndReset` (verifyFile and getDamagedPieces), `BeginRound`
and `Expire` (the timeout loop), `CopyDownloading`, `CopyEmpty`, `ServePeer`,
`Pick`, `EndPeer`, `Send` (ChooseBlocks and the queueing of its result),
`BecomeSeed`, `ChangeAllStatus` (after the loop). Responder: `Answer` (the
write in saveBlock), `CountBlock` (downloadedBlock and verifyPiece),
`SettlePiece` (updatePieceStatus), `Credit` (updateBlockReceived and the
broadcast). A step ends where another thread can take a lock or see a change;
`_mutexPieceChooser` is held from `BeginRound` to `Send`, so `Credit` waits
(`Choosing`). `TestCompleted` is the second half of the table's updates.

Abstractions: a block's content on the disk is nothing, good or bad, so a hash
matches when all its blocks are good. A file is a set of bytes, each in a
block, so that blocks differ in size. Every answer is BLOCK_SIZE bytes long,
also that for the shorter last block of a piece: `SpillsOver` names the blocks
such an answer reaches into. Any request not marked received may be found older
than the timeout. The order of pieces (rarity and `rand`) is open, except that
those of the first copy come first; so is the order of peers. Joining consecutive
requests in one message is left out: each block is still answered on its own.
The window moves by one or stays, within its bounds, as the response times may
have it. The requestable peers and their bitfields are fixed for a run
(`PeerBitfields` has how they change).

### `ProgressFile`, `FileLayout`

`disk` is the data, `file` what `deserialize` would read of the `.gitabic` file.
`Add`, `AddToSeed`, `Copy` are the command line's ways to a file; `AddAgain` is
adding one that a handler works on; `Restart` ends the program in any state and
starts it with what the file says. The responder's `WritePiece` and
`WriteTotal` are the writes of `updatePieceStateToFile`, `Truncate` and `Save`
those of `saveProgressToFile`; a restart may come between any two. Where
`getPieceOffsetInProgressFile` writes is compared with where `serialize` put the
field; a status that is written by an update is read back as Empty, as it is
swapped with the time (`StatusReadBack`). `faults` remembers what
went wrong, for the conditions of the properties.
`FileLayout` has the sizes of the code as constants and computes pieces, blocks,
hashed parts and the fields of the two files; a run compares them at the
boundaries of every size.

### `PeerBitfields`

The downloader's three threads (`TellPeer`/`AddPeer` in `downloadFile`,
`HandleField` in `handleResponses`, `GotPiece` in `handleRequests`), the peer
manager (`FindPeer`, `AnswerInterest`, `ErasePeer`) and the other peers
(`TakeInterest`, `TakeBitfield`, `SendField`, `Verify`, `SendUpdate`). A
bitfield waits in the send queue, an update is sent at once, and at the receiver
they go to different queues. `Steps` is the order of the calls for a bitfield,
each of which other threads may see. Not modelled: losing a piece (no program
sends it) and the bits of a bitfield.

### `FileHandlerLifecycle`

Threads are numbered by the start that made them. `TestRequests`, `TakeRequest`,
`HandleRequest`; `TestDownload`, `Choose`, `Sleep`; `TestSender`, `Wait`,
`EndDrain`, `TakeMessage`, `Send`, `SendFails`. The condition variable is
modelled with its notifications (`Notified`) and the test of its predicate;
`held` is whether the sender holds the mutex, which an exception leaves unlocked.

### `PeerConnections`, `PeerManager`, `PeerLists`

A thread's call is in `job`; `holder` is who keeps `_mutexPeerConnections` from
one step to another (during an attempt to connect). `made` numbers connections,
so that a thread that goes on with an entry it found earlier can be seen to use
another one (`Valid`). `fate` is an exception nobody catches or undefined
behaviour; the program is not followed further. `PeerManager` adds the updater's
rounds and the handler's calls, with `_mutexPeerStates` (`stateLock`); the two
run on the same connections. `PeerLists` has the exchange of lists between
managers that receive on one socket, with the condition variable in its steps.

### `IceSignaling`, `Messages`

A peer has a thread in `addFileForPeer` (`add`) and one in `shareIceData`
(`share`); `inbox` is the socket with the list of messages that another thread
has read and not wanted; `First` is `receive(isRelevant)`. The server has a
thread for each client: `SendQueued`, `HandleGetUserICEInfo` and `RecordRequest`
(two steps, as two client threads may be in the handler), `HandleAnswer`,
`CleanUp`. Identifiers wrap at `IdSpace`. `Age` lets the ten seconds of a request
pass. `Messages` gives every message the fields that are written, the size that
is said and the fields that are read, at their offsets, from both sides' sources.

### `IceConnection`

`phase` is where getLocalICEData and connectToPeer are, `component` the state of
the agent, `closing` the calls of disconnect, `sender` and `hand` the sending
threads, `othersRun` whether the thread of another connection runs the main
context that all share. `agent` is used, closed or freed; `outcome` is what ends the
program, an exception nobody catches or undefined behaviour. libnice and GLib
appear as what they call.

### `TrackerStorage`, `Republish`, `TrackerPromise`

`savedData` is keyed by the second of expiry as in the code; `cleaner` is the
thread with its sleep. `Republish` adds a client: `saveData` (`BeginSave`,
`EndSave`), `stopRepublish`, and the thread's walk and sleep. A second passes when
every thread that can work has worked (`Working`). The refinement `KeepsPromise`
maps the clock to the clock and the records to announcements with their expiry.

## 3. Runs

| Run | Instance | Shows |
|---|---|---|
| `two_pieces` | one peer, two pieces of two blocks and one, window 2, one timeout, one corrupted, one lost message | types; the total covers what is held; no piece left Downloaded; integrity with and without corruption |
| `ends` | two peers, one with half of the file, two pieces, windows 1 to 2, one loss, the user may stop; fair | exact accounting when undisturbed, request tracking; the download ends as a seed of the good file |
| `restart` | two pieces, two troubles (restart, timeout, late or corrupted block, adding again) in any order; layouts at 20 sizes, 5 lengths | the file stays readable, the count covers what is held, what is Verified is whole after a restart; pieces and files are read as they were written |
| `bitfields` | two peers, one piece, one connection lost | a peer is known before use, counts cover the bitfields, nothing announced is missed |
| `handler` | one request of three kinds, two starts, stops, one round of the download; fair | a request is answered once, in the end; threads of a stopped file end |
| `connections` | two threads, two peers, two files, two connections; fair | no connection is replaced while used, and every call ends |
| `peers` | two peers, one file, a place for one peer, two connections; fair | who is downloaded from is registered; dead peers leave |
| `peer_lists` | three managers, one early wake-up; fair | no thread is left receiving; a list is on its way to who waits; a request ends |
| `signaling` | three peers, three requests, one peer leaves, one request ages; fair | one trace per request, answers reach the asker, messages are read as written; only circles and peers that left hold anybody up, else requests end |
| `connection` | two messages out, two in, both callers of disconnect, with and without other connections; fair | sent once, in order while there is one sender; everything leaves; gathering ends |
| `tracker` | two files of a client, another peer, six seconds with a life of two | listed until due, announced again in time; the refinement |
| `stopped_seed` | one peer, the user stops | violated: what is Verified is not downloaded |

Larger instances do not fit in the time a run should take: a second request at
the handler, a third start, two files in the peer manager (more than 16 million
states), four peers at the server.

**Bounds.** Every bound is a constant named `Max...` and limits how often the
environment acts (losses, corruptions, restarts, requests, connections), never
what the program does with it. Each run has as many as its hazards need to meet:
two connections, so that a new one can take the place of one that ended while a
thread still uses it; two starts, so that the threads of both work at once; a
life of two seconds and six seconds of time, so that records are announced
again, expire and are erased in each order; three peers, so that a ring can
form; three identifiers for three requests. `MaxTimeouts` counts only requests that
are found timed out although an answer will still come: timing out a request
that was lost is free, so every retry can happen. `MaxTotal` stops a run whose
total is over-counted beyond the file size by another whole block; in `ends` it is
never reached. Two pieces let one be finished while the other is not, a piece of two
blocks can be half complete, and blocks of different size tell byte counts from
block counts. Windows are 1 to 2 instead of 2 to 40, maximum numbers of peers and
connections 0 or 1 instead of 10 and 50: what happens at the limit is the same.
The sizes of `FileLayout` keep the relations of those in the code (`KB` times the
largest piece is the range of 32 bits) and are small enough to look at every byte.
`ProgressFile`'s constraint `Told` ends behaviours in which faults of both
groups happened, of which the two properties with conditions speak no more.
`MaxInHandler` = 1 keeps two client threads of the server out of the same
handler: what happens otherwise is in section 5. `Collisions` = FALSE keeps two
announcements out of one second (likewise). `CHECK_DEADLOCK FALSE` is set where the
program may stop: a download ends, a connection ends, all may wait.

**Symmetry** is used where only invariants are checked: the two peers of
`bitfields`, and the two files of `tracker` (whose refinement is an action
property). `RequestsEnd` is liveness and is checked without symmetry, for one
peer, as the three may be exchanged in the specification.

**Fairness.**

- `Download`: threads are scheduled (weak fairness of the chooser and of the
  responder's steps); the responder waits for a mutex that the chooser takes every
  second for a short time, so crediting is strongly fair; a block that is asked for
  again and again is in the end answered by a good copy (strong fairness of
  `Answer`); time passes, so some round finds the requests that nobody will
  answer any more older than the timeout (strong fairness of `BeginRound`).
- `IceSignaling`: the threads of peers and server are scheduled, an attempt to
  connect ends within a minute (connectToPeer polls 60 times), `shareIceData` gets
  a mutex that is free again and again.
- `PeerConnections`, `PeerManager`: the same of threads, attempts and mutexes.
- `PeerLists`: the server answers; managers that receive on the same socket each
  get a message again and again (strong fairness of `Receive`).
- `IceConnection`: threads run; the agent ends gathering. Connecting may fail.
- `FileHandlerLifecycle`: every thread runs.

Nothing is assumed of users, peers that ask or leave, losses, or requests that
time out too early.

**Conditions.** Several properties hold only up to something the code does not
do; the condition names it, and each is explained in section 5: `Integrity` (not
stopped, no corruption, no spill), `CorruptionCaught` (one peer, no early timeout,
one corrupted block), `ExactWhenUndisturbed` (no early timeout, no damage, and no loss
where several peers are asked), `TrackedUnlessLate` (no early timeout),
`EventuallySeed` (no block counted twice), `VerifiedSurvives` and `CountSurvives`
(the kinds of `faults`), `NothingMissed` (not `disturbed`, not asked again), `RequestsEnd` (no circle),
`InterestedIsRegistered` (one file), `InOrder` (one sender), `GatheringEnds` (no other
connection), `StoppedThreadsEnd` (not resumed at once, not a sender without work).
Within them the interleavings do no harm, which is what the runs show.

## 4. Proofs

TLAPS checks these for all values of the constants that satisfy
`LayoutAssumption` (pieces are numbers, finitely many bytes, each in a block of
a piece), `NoEmptyBlock` (every block has a byte: the constructor of a piece makes
blocks while bytes are left, `DownloadProgress.cpp:273`) and `DownloadAssumption` or `FileAssumption` (finite sets of blocks,
pieces and peers, windows in their bounds, numbers where numbers are meant),
those about the tracker for `TtlAssumption` and `PublisherAssumption` (any sets of
files and peers, a positive lifetime) and `Collisions = FALSE`: no two announcements
arrive in one second, the case section 5 has. `PeerLists` needs finitely many
managers, `PeerConnections` that threads are told apart (`ConnectionsAssumption`),
`PeerManager` that each of finitely many files has its two threads
(`ManagerAssumption`), `PeerBitfields` finitely many peers and pieces. `FileLayout` needs that
sizes are positive and that the range of 32 bits is `KB` times the largest piece
(`FileLayoutAssumption`), `Messages` that lengths and counts are numbers
(`MessagesAssumption`). The theorems about
`IceSignaling` state up to two hypotheses besides `SignalingAssumption`. `EnoughIds`, in all
of them but `SignalingTypes` and `MessagesAreRead`: no more requests are made than there are
identifiers, of which the code has 65536; it counts on without looking whether one is in use. `OneHandler`, in `AskedOnce`,
`RightPeer` and `OnlyCirclesHoldUp`: one client thread of the server at a time is in the handler of
GetUserICEInfo. The handler has no lock, and two threads in it may send two requests out
under one identifier (`IceMessagesHandler.cpp:30-32`, section 5); TLC finds these properties
violated with `MaxInHandler` = 2. `OneTraceEach` needs no such hypothesis, but
`RecordRequest` is one step in it: that two threads write `waitsForResponse[waitIds++]`
at once, the data race that section 6 leaves out, is not in the model.
`FilesAreReadBack` has the hypothesis that the numbers of hashes looked at are below 65536,
as the metadata keeps them in 16 bits; `NoHashLost` shows that the files below 2^32 bytes
have no more. Nothing else is assumed.

- `ProgressTypeCorrect`, `ProgressNeverUndercounts`, `CompletionNotMissed`:
  `ProgressTypeOK /\ NeverUndercounts` is inductive. Neither half is alone: that the
  unsigned total does not wrap when a piece is emptied follows from its covering
  the blocks held, because what is taken off is part of `Counted`. The proof is by
  cases on the operations, with lemmas on `Size` (monotone, additive on disjoint sets).
- `TableImplemented`: every step of `Download` is a step of the table or leaves it
  alone, so the table's theorems carry over (`DownloadNeverUndercounts`). It is a
  refinement by the identity on the table's variables; its content is that the two
  threads never call the table while they are still inside a call.
- `TypeCorrect`: `DownloadTypes` strengthens the types of the threads and requests
  with what the local variables mean: an entry the chooser is about to erase
  exists, marked entries exist and are gone while the chooser works (`EntriesOK`),
  and a thread's current peer and block are defined where they are used (`ThreadsOK`).
- `NoPieceStuck`: inductive given the types.
- `IntegrityKept` and `VerifiedWritten`: the strengthening is `WrittenInv`, about
  blocks being *written* rather than good. A block once written stays written,
  whatever the table says of it; the responder's `verdict` and the chooser's `pc`
  carry what they saw to the moment they change a status, and both stay true
  meanwhile for that reason. Without corruption and spills, written is good. The
  statement about good content is not inductive: a late corrupted block breaks it.
- `NoneForgotten`: the property counts entries; what is inductive counts where they
  come from. `LateInv`: without early timeouts an entry of a peer is there for every
  request still to be answered and every answer not yet credited, and an entry that
  is being erased is one more than that. `TrackedInv`: a block that is Downloading has an entry
  besides the one for the answer that the responder is settling, which `Credit` marks.
- `ExactUndisturbed`: `CalmState` follows a download in which nothing goes wrong.
  The total is exact because no block is counted twice (`TableExact`); none is, because
  a held block is on order from nobody (`OrdersMatch`), for which the chooser must not
  pick from stale copies (`CopiesFresh`) and no piece may be reset, for which
  what is held must be good (`HeldIsGood`). Windows are respected because the entries of
  a peer and the slots of the chooser add up to its window (`WithinWindow`, on
  cardinalities). None of these is inductive without the others.
- `CorruptionIsCaught`: as long as no block has been corrupted this is `HeldIsGood`. From
  then on `GoodInv`: what is Verified or announced is good, and so is what a positive
  `verdict` speaks of, until the piece is settled. A first corrupted block reaches a
  block that nothing else is on its way for; the second may not (section 5).
- `FileStaysReadable` (`ProgressFile`): `ReadableInv`, that only the save in
  progress makes the file unreadable, given `FileTypes`. The step that needs an
  argument is `WritePiece`: the computed place is that of the field for every layout,
  when the creator's name has four letters.
- `VerifiedPiecesSurvive`: `SurvivesInv` adds to the table that the *file* calls no
  piece Verified that is not whole, as a restart copies the file into the table, and
  that all pieces are whole while they are marked and saved at once (`WholeInv`), as
  long as no fault of the other group happened (`Faultless`; faults are only added).
  One lemma per group of actions.
- `CountsSurvive`: `Covers` adds the same of the file, which the next program reads, and
  that the total covers what the file says besides the table (`Stated`): a piece whose
  status the responder has settled and has still to write, which the total may already
  have left. Between the two writes of an update the file is let off, and `BlocksTold` keeps
  a whole piece in the file from counting blocks that are not held.
- `OneTraceEach`, `AskedOnce`, `RightPeer` (`IceSignaling`): traces and steps are sums of what
  is counted in queues, so the lemmas say what each step adds to and takes from the
  count of each kind of message, and a step is then one line of arithmetic. That a
  new request is recorded where none is pending needs `IdsInv` (whatever is pending or on
  its way has an identifier below the number of requests recorded, which together with those
  still to be recorded are no more than were made); this is enough for `OneTraceEach`
  (`TracesInv`). That the message to the other peer has the same identifier as the record
  needs `AloneInv` (the one thread in the handler holds the next identifier). That an answer settles one pending request needs `AskedInv`: who has a request
  in hands is the peer it was asked of. `RightPeer` follows the name through the
  server, which turns it from the peer asked for into the peer that asks and back:
  all there is of a call names the same peer (`NamedInv`), and replies name their
  sender (`SignedInv`).
- `OnlyCirclesHoldUp`: `AllHeldUp` is that no step of a peer's or a client's thread is possible,
  guard by guard. Then the queues are empty, so by `OneTraceEach` a request that waits is pending,
  by `AskedOnce` it is in the hands of the peer it was asked of, and that peer would answer
  if it did not hold the mutex, waiting itself. The waiting peers are the set that `InCircle` asks
  for. It is the part of `RequestsEnd` that a proof can reach: for every number of peers
  there is no other deadlock. With `MaxInHandler` = 2 there is one: of two requests under one
  identifier one has no answer (TLC finds it).
- `PromiseKept` (`Republish`): the storage refines `TrackerPromise`. The mapping
  alone is not enough: that time does not pass with an expired record needs
  `SleepInv`, that the cleaner never sleeps past the second after an expiration;
  announcements made while it sleeps keep that, as they expire later than it wakes.
- `ListedTheorem`: `ListedInv` says until when a peer is covered, by a request under
  way or by a record. A walk may write a new time long after its request was
  handled, so the time it is *about to* write must be covered already.
- `RepublishedTheorem`: `RoundInv` bounds the end of the sleep by every next
  announcement and the time the walk was held up.
- `NoneLeftReceiving`, `AnswerNotLost` (`PeerLists`): the count of receivers is
  inductive with its types; an answer is followed from its request on (`WayInv`),
  not only while its manager waits, and a manager that is not about to share holds
  nothing that the next list could overwrite.
- `ConnectionsNotReplaced` (`PeerConnections`): who connects or accepts holds the
  mutex and the peer still has no entry (`ConnectInv`, `AcceptInv`); threads that
  erase entries without that mutex do not disturb this, as they only take away.
- `AddedHasFiles` (`PeerConnections`): of all steps only `Register` takes a thread from its
  connection to the answer true, which the same invariant gives as types and calls.
- `InterestedAreRegistered` (`PeerManager`): a registration made for an answer true must last
  until the answer is taken. `UpdaterInv` says that the updater keeps the file's mutex from
  the call to the answer, `WorkerInv` that only a worker with that mutex ends connections, so with
  one file nobody removes what was registered (`AnswerInv`), and afterwards registration and
  interest go together (`InterestInv`).
- `ConnectionsImplemented` (`PeerManager`): every step with the managers of all files at work is one
  that `PeerConnections` has for its threads, with updaters and workers as the threads, or
  leaves the connections alone. The one exception ends the program: the updater goes on
  past the last backup peer (`NoBackupLeft`, `PeerManager.cpp:43`). `ManagersReplaceNone` carries
  `NeverReplaced` over.
- `NeitherTwiceNorDropped`, `OrderKept` (`IceConnection`): messages are numbered as they are
  given. The queue is ascending (`QueueInv`), what a sender holds left the queue and
  no other sender holds it (`HandInv`), and what is on the wire is earlier than the queue and
  with nobody (`WireInv`); the goodbye of disconnect is no message. For a lone
  sender, what it holds comes after all that was sent (`OrderInv`).
- `RequestsAnsweredOnce` (`FileHandlerLifecycle`): `PlaceInv` says that a request is in one of
  six places at most and one for data in one, `DistinctInv` that no place has it
  twice. Most steps move one request at most (`OneMoves`) or none (`NoneMoves`);
  messages of the download have no number and may be anywhere. It needs that a start
  whose request thread does not exist yet has no sender either.
- `UsedAreKnown` (`PeerBitfields`): the property speaks of the update that ends the program;
  `OriginInv` speaks of every peer: either it is known, found or answered, or nothing was
  asked of it and nothing comes from it (`Silent`). `DescribedInv` carries the chooser's entry
  from the step that stores a bitfield to the one that tells the manager.
- `CountsCover`: the property holds between bitfields, its invariant also while one is
  replaced. Then the peer is not counted (`Counted`), and a piece announced after the bitfield
  was stored is counted once too often when the bitfield has it not, which covers for
  the peer being added with the bitfield's pieces only (`Extra`).
- `NothingIsMissed`: `OrderOf` says that the bitfields of a peer grow from the queue of responses over the
  channel to the queue of the sender, so that a newer one has all that an older one has; `NewsOf` that
  what a quiet peer has is known, announced or coming, and that what is known is
  in some bitfield still to come, if one is, as it will replace what is known. The second half
  is what makes storing a bitfield safe; it fails when an update overtakes an older
  bitfield, which is when the model calls the peer `disturbed`. `NetOf` gives a peer that was told
  its connection, without which updates are not sent.

- `FilesDescribed` (`ProgramFiles`): for every file below 2^32 bytes and all sizes of pieces
  and blocks, pieces and blocks divide the file. It is division with remainder, twice: a
  byte is in block (i, j) exactly when i is its quotient by the size of the pieces, and j that
  of the remainder by BLOCK_SIZE (`InOnePart`, `BlockBytes`), so each is in one block. The hashes
  are over the pieces since what is left of such a file is never cut off to 32 bits.
- `FilesAreReadBack`: the places of fields are defined by recursion, so what holds of all
  sequences would need induction over data. `Layout_proofs` does it in sets instead: of the
  numbers at which two solutions of the recursion differ there is a least one, and it is not
  zero and not a successor (`LeastNumber`). Hence the places are the only solution, and those of a
  joined sequence are those of the first, then those of the second moved by the length of
  the first (`Joined`). What is read is then compared with what is written part by part, for
  names, hashes and blocks of any number.
- `NoHashLost`: a file below 2^32 bytes has at most twice `KB` pieces, 2048 in the code, so the
  16 bits in which the metadata keeps the number of hashes are enough (`FewPieces`).
- `MessagesAreRead` (`SignalingMessages`): of each message the fields read are where they were
  written and the size said is its length, for ICE data of any length below 2^16 and
  lists of any number of users. That nothing else is under way is a consequence of `SignalTypes`,
  which says which messages are in which queue.

**Only model-checked.** Every liveness property, as liveness under fairness is out of the
prover's reach. Every invariant and action property of a passing run is a theorem.

## 5. Disagreements between the code and what it says

`stopped_seed` shows one: `stop()` clears `_running`, the loop of `downloadFile` ends
and `TorrentFileHandler.cpp:339-344` make the handler a seed, mark all pieces Verified
and save that. `DownloadProgress.h:13`: "Downloaded data has been verified".

The others below were met while modelling. They are in the models as the code has
them; a property that would contradict one has a condition instead (section 3).

Download:

- `FileIO.cpp:152`: a block is written whatever the state of its piece; a late corrupted
  copy damages a piece that stays Verified.
- `FileIO.cpp:180`: a file found damaged is reset piece by piece while the responder
  may be about to settle one of these pieces with the verdict of an earlier moment: the
  piece is emptied a second time and what was requested in between is requested twice.
- `FileIO.cpp:171`: the answer for the last block of a piece is BLOCK_SIZE bytes long and
  overwrites the beginning of the next piece.
- `DownloadProgress.cpp:199`: a timeout empties a counted block and leaves the total, so
  that progress exceeds the 1.0 of `DownloadProgress.h:169`; then `TorrentFileHandler.cpp:311`
  verifies one block early in every round and resets the unfinished piece, for ever.
- `RarityTrackerChooser.cpp:197`: the free slots are unsigned and tested against 0 only;
  when the window shrinks below the open requests they wrap (`RarityTrackerChooser.h:23`:
  "Maximum window size for requests").
- `RarityTrackerChooser.cpp:308`: a late answer is credited to a newer request; when that
  one is lost nothing times out and the block stays Downloading.
- `RarityTrackerChooser.cpp:156,179`: the most common piece is preferred where the comment says
  the rarest; `:259`: every block of an Empty piece is requested from every peer; `:74`: adding a
  peer over its bitfield leaves its pieces in the counts.
- `TorrentFileHandler.cpp:93`: an update of a peer whose interest was only answered makes
  hasPiece throw out of the thread, which ends the program; an update that overtakes the
  bitfield is lost with it.

Files:

- `DownloadProgress.cpp:419`: status and time are written in the order in which they are not
  read, so that every piece reads back as Empty; its blocks keep the status and are
  counted again, and `TorrentFileHandler.cpp:31-33` may take the file for complete.
- `DownloadProgress.cpp:3`: a creator's name that has not four letters puts every update
  across other fields.
- `FileIO.cpp:202`: piece and total are separate writes: a program that ends between them
  undercounts afterwards, and the unsigned total may wrap. A save empties the file first.
- A seed's table is saved as done before the data is copied; adding a file again puts a
  placeholder over its data.
- `MetaDataFile.cpp:83`: of the port one byte is written, with one of what lies behind it; `:40`:
  the rest of a file is cut off to 32 bits, so that files from 4 GiB on have wrong hashes.
  Numbers of pieces are kept in 16 bits there, names of more than 255 bytes are
  cut in the progress file.

Peers and connections:

- `PeersConnectionManager.cpp:96`: `addFileForPeer` waits for the server with
  `_mutexPeerConnections` held and no timeout, and `shareIceData` needs it to answer: peers
  that ask in a ring wait for ever, as does one whose peer has left.
- `:275` accepts one connection more than MAXIMUM_CONNECTED_USERS, and `addFileForPeer` does
  not look at it; `:103` throws for a peer whose entry has ended on the other side only.
- `:127` and `:159`: the file is registered, and the last one removed, under another mutex
  than the connection's: a second file may be answered true and not be registered, or lose
  its connection at once. `:192` uses the iterator before it is compared with end().
  `:135`: an entry that ended is only erased by a failed send.
- `PeerManager.cpp:89`: two managers that hold each other's list may both share it before
  either waits, and are not woken again; `:91`: shared lists are never taken out; `:189` adds
  peers beyond MAX_PEERS.
- `TorrentFileHandler.cpp:123`: a peer that shows interest is entered without ours and is never
  downloaded from; `:241`: missingFile from a peer never registered ends the program.
- `ICEConnection.cpp:214`: the gathering handler is set after gathering was started, in a context
  that another thread may run; `:511`: two sender threads reorder messages; `:567`: a waiting sender
  is not notified of the end; `:68`, `:588`, `:341`: the agent is freed twice, used when freed, or
  connects for a connection that is gone.

Handler's threads: `TorrentFileHandler.cpp:396` stop and resume within a second leave two
download threads; `:381` stop does not notify the sender; `:372` an exception leaves the
mutex unlocked, and the next unlock ends the program; `:113` the answer to keepAlive goes to nobody;
`:74` a cancel compares pointers and cancels nothing. `TorrentManager.cpp:48` resumes a file that
`TorrentManager.h:76` refuses; `:60` keeps the handler of a stopped file, whose queues grow.

Server: `IceMessagesHandler.cpp:30` two handlers may read one identifier for two requests;
`TrackerDataStorage.cpp:39` an announcement replaces another of the same second;
`DataRepublish.cpp:56` a file is announced again in the second after the tracker may have
forgotten it, and `:86` the delay is counted from the end of the walk; `Messages.h:344` the length of
the ICE data is cut off to 16 bits.

## 6. Not modelled, and why

- Command line, logging, hashing and encryption: no interaction; AES is never applied to a message.
- The text of the ICE candidates and the settings of libnice: external formats. libnice, GLib
  and sockets are external and appear as messages that may be lost or late, and as callbacks.
- One `recv` that returns less than was asked for (`TCPSocket.cpp:58-74`): messages are whole.
- Data races on containers (`FileUtils.cpp:131`, `TrackerDataStorage.cpp:59`, `IceMessagesHandler`'s
  maps): what they do to a hash map is undefined; the models make each access one step.
- Accepting clients at the server and the choice of identifiers; code without a caller
  (`UpdateHash`, `verifyHash`, the chooser's `removePeer`, `savePiece`, `loadPiece`, choking).

## 7. Plan

Next: `Download` composed with `PeerBitfields`, so that requestable peers change during a
download; the recording of a request in its single writes, for two threads in the handler
of GetUserICEInfo, and what they can lose; a larger instance of the peer manager with two files.
