--------------------------- MODULE PeerBitfields ----------------------------
(***************************************************************************)
(* What a downloader knows of the pieces other peers have, and how often   *)
(* it counts each piece (RarityTrackerChooser). A peer that is found is    *)
(* told of the interest, answers with its bitfield, and from then on sends *)
(* an update for every piece it verifies. The bitfield waits among the     *)
(* messages to send while an update is sent at once; at the downloader     *)
(* bitfields are responses and updates are requests, with a queue and a    *)
(* thread each, and a third thread adds the peers that are found.          *)
(***************************************************************************)
EXTENDS Integers, Sequences, SequencesExt, FiniteSets, Functions

CONSTANTS
    Peer,       \* the other peers
    Piece,      \* the pieces of the file
    MaxLost     \* bound: connections that are lost

ASSUME BitfieldsAssumption ==
    /\ IsFiniteSet(Peer) /\ IsFiniteSet(Piece) /\ MaxLost \in Nat

VARIABLES
    has,        \* the pieces a peer has verified
    fresh,      \* the piece it verified last, while no update is sent
    told,       \* the peers whose peerInterested is set for the downloader
    replying,   \* the peers between that and their bitfield
    fields,     \* _messagesToSend of a peer: bitfields
    channel,    \* what is on its way from a peer
    connected,  \* the peers there is a connection to
    asks,       \* fileInterested on their way to a peer
    states,     \* _peerStates of the downloader
    interested, \* amInterested
    described,  \* the peers whose state has a bitfield
    newPeers,   \* _newPeerList
    adding,     \* the peer downloadFile has told, and not yet added
    bitfields,  \* _peersBitfields of the chooser
    rarity,     \* _rarity
    requests,   \* _receivedRequests: updates
    responses,  \* _receivedResponses: bitfields
    step,       \* where handleResponses is with the first of them
    answered,   \* the peers whose own interest the downloader has answered
    crashed,    \* the peers of which an update ended the program
    disturbed,  \* the peers whose bitfield was replaced by an older one, or
                \* whose connection was lost, and which were not asked again
    overlapped, \* a peer's counts were changed while they were replaced
    lost        \* count for the bound

otherVars == <<has, fresh, told, replying, fields>>
managerVars == <<states, interested, described, newPeers, adding>>
chooserVars == <<bitfields, rarity, disturbed, overlapped>>
threadVars == <<requests, responses, step, crashed>>
netVars == <<connected, channel, asks>>
bitfieldsVars == <<otherVars, netVars, managerVars, chooserVars, threadVars, answered, lost>>

Update(q, i) == [from |-> q, piece |-> i]
Field(q, f) == [from |-> q, field |-> f]
IsField(m) == "field" \in DOMAIN m

\* Mutant of Steps: the manager is told of the bitfield before the chooser.
StepsSwapped == <<"state", "remove", "store", "add">>

\* What handleResponses does with a bitfield: updatePeerBitfield takes the old
\* one off the counts, stores the new one and adds it, then the manager is
\* told.
Steps == <<"remove", "store", "add", "state">>

BitfieldsInit ==
    /\ has \in [Peer -> SUBSET Piece]
    /\ fresh = [q \in Peer |-> {}]
    /\ told = {} /\ replying = {}
    /\ fields = [q \in Peer |-> <<>>]
    /\ channel = [q \in Peer |-> <<>>]
    /\ connected = {}
    /\ asks = [q \in Peer |-> 0]
    /\ states = {} /\ interested = {} /\ described = {}
    /\ newPeers = <<>> /\ adding = {}
    /\ bitfields = <<>>
    /\ rarity = [i \in Piece |-> 0]
    /\ requests = <<>> /\ responses = <<>> /\ step = 1
    /\ answered = {} /\ crashed = {} /\ disturbed = {} /\ overlapped = FALSE
    /\ lost = 0

-----------------------------------------------------------------------------
(* The other peers.                                                        *)

\* The first half of handle(fileInterested).
TakeInterest(q) ==
    /\ asks[q] > 0 /\ q \notin replying
    /\ asks' = [asks EXCEPT ![q] = @ - 1]
    /\ told' = told \cup {q}
    /\ replying' = replying \cup {q}
    /\ UNCHANGED <<has, fresh, fields, connected, channel, managerVars, chooserVars, threadVars,
                   answered, lost>>

\* The second half: the bitfield as it is now is queued.
TakeBitfield(q) ==
    /\ q \in replying
    /\ replying' = replying \ {q}
    /\ fields' = [fields EXCEPT ![q] = Append(@, Field(q, has[q]))]
    /\ UNCHANGED <<has, fresh, told, netVars, managerVars, chooserVars, threadVars,
                   answered, lost>>

\* sendMessages
SendField(q) ==
    /\ fields[q] # <<>>
    /\ channel' = IF q \in connected
                  THEN [channel EXCEPT ![q] = Append(@, Head(fields[q]))]
                  ELSE channel
    /\ fields' = [fields EXCEPT ![q] = Tail(@)]
    /\ UNCHANGED <<has, fresh, told, replying, connected, asks, managerVars, chooserVars, threadVars,
                   answered, lost>>

\* saveBlock verifies a piece ...
Verify(q, i) ==
    /\ fresh[q] = {} /\ i \notin has[q]
    /\ has' = [has EXCEPT ![q] = @ \cup {i}]
    /\ fresh' = [fresh EXCEPT ![q] = {i}]
    /\ UNCHANGED <<told, replying, fields, netVars, managerVars, chooserVars,
                   threadVars, answered, lost>>

\* Mutant of Listeners: only peers whose bitfield was sent are told.
ListenersServed == {q \in told \ replying : fields[q] = <<>>}

\* getInterestedPeers
Listeners == told

\* ... and handleResponse sends the update to those that are interested.
SendUpdate(q) ==
    /\ \E i \in fresh[q] :
        /\ fresh' = [fresh EXCEPT ![q] = @ \ {i}]
        /\ channel' = IF q \in Listeners \cap connected
                      THEN [channel EXCEPT ![q] = Append(@, Update(q, i))]
                      ELSE channel
    /\ UNCHANGED <<has, told, replying, fields, connected, asks, managerVars, chooserVars, threadVars,
                   answered, lost>>

-----------------------------------------------------------------------------
(* The downloader's peer manager.                                          *)

Runs == crashed = {}

\* addPeer of the manager, for a peer that is connected to.
FindPeer(q) ==
    /\ Runs /\ q \notin states
    /\ states' = states \cup {q}
    /\ interested' = interested \cup {q}
    /\ newPeers' = Append(newPeers, q)
    /\ connected' = connected \cup {q}
    /\ UNCHANGED <<otherVars, channel, asks, described, adding, chooserVars, threadVars,
                   answered, lost>>

\* A peer asks for the file: getPeerState enters it, and unless amInterested
\* is set there the interest is answered by one of its own.
AnswerInterest(q) ==
    /\ Runs /\ q \notin answered
    /\ connected' = connected \cup {q}
    /\ states' = states \cup {q}
    /\ asks' = IF q \in interested THEN asks ELSE [asks EXCEPT ![q] = @ + 1]
    /\ disturbed' = IF q \in interested THEN disturbed ELSE disturbed \ {q}
    /\ answered' = answered \cup {q}
    /\ UNCHANGED <<otherVars, channel, interested, described, newPeers, adding, bitfields,
                   rarity, overlapped, threadVars, lost>>

\* A connection is lost with all that is on its way. The other peer may
\* remember the interest.
LoseConnection(q) ==
    /\ Runs /\ q \in connected /\ lost < MaxLost
    /\ lost' = lost + 1
    /\ connected' = connected \ {q}
    /\ channel' = [channel EXCEPT ![q] = <<>>]
    /\ asks' = [asks EXCEPT ![q] = 0]
    /\ told' \in {told, told \ {q}}
    /\ disturbed' = disturbed \cup {q}
    /\ UNCHANGED <<has, fresh, replying, fields, managerVars, bitfields, rarity, overlapped,
                   threadVars, answered>>

\* updateConnectedPeers erases its state. The chooser is not told.
ErasePeer(q) ==
    /\ Runs /\ q \in states \ connected
    /\ states' = states \ {q}
    /\ interested' = interested \ {q}
    /\ described' = described \ {q}
    /\ UNCHANGED <<otherVars, netVars, newPeers, adding, chooserVars, threadVars, answered,
                   lost>>

-----------------------------------------------------------------------------
(* The downloader's threads.                                               *)

\* downloadFile tells a new peer of the interest ...
TellPeer ==
    /\ Runs /\ newPeers # <<>> /\ adding = {}
    /\ adding' = {Head(newPeers)}
    /\ newPeers' = Tail(newPeers)
    /\ asks' = IF Head(newPeers) \in connected
               THEN [asks EXCEPT ![Head(newPeers)] = @ + 1]
               ELSE asks
    /\ disturbed' = disturbed \ ({Head(newPeers)} \cap connected)
    /\ UNCHANGED <<otherVars, connected, channel, states, interested, described, bitfields,
                   rarity, overlapped, threadVars, answered, lost>>

Stored(q, f) == [p \in DOMAIN bitfields \cup {q} |-> IF p = q THEN f ELSE bitfields[p]]

\* The bitfield handleResponses is at work on.
AtWork(q) == step > 1 /\ Head(responses).from = q

\* ... and adds it to the chooser, with no pieces.
AddPeer(q) ==
    /\ Runs /\ q \in adding
    /\ adding' = {}
    /\ bitfields' = Stored(q, {})
    /\ disturbed' = disturbed \cup {p \in {q} \cap DOMAIN bitfields : bitfields[p] # {}}
    /\ overlapped' = (overlapped \/ AtWork(q) \/ \E p \in {q} \cap DOMAIN bitfields : bitfields[p] # {})
    /\ UNCHANGED <<otherVars, netVars, states, interested, described, newPeers, rarity,
                    threadVars, answered, lost>>

\* addMessage
Arrive(q) ==
    /\ Runs /\ channel[q] # <<>>
    /\ channel' = [channel EXCEPT ![q] = Tail(@)]
    /\ LET m == Head(channel[q]) IN
       IF IsField(m) THEN responses' = Append(responses, m) /\ UNCHANGED requests
                     ELSE requests' = Append(requests, m) /\ UNCHANGED responses
    /\ UNCHANGED <<otherVars, connected, asks, managerVars, chooserVars, step, crashed, answered, lost>>

\* The bitfields of q that are on their way and not yet stored.
Pending(q) ==
    {m \in ToSet(fields[q]) \cup {c \in ToSet(channel[q]) : IsField(c)}
           \cup ToSet(responses) : m.from = q}

\* handle(hasPieceUpdate): hasPiece throws for a peer the chooser does not
\* know, which ends the program.
GotPiece ==
    LET m == Head(requests) IN
    /\ Runs /\ requests # <<>>
    /\ requests' = Tail(requests)
    /\ IF m.from \notin DOMAIN bitfields
       THEN crashed' = {m.from} /\ UNCHANGED chooserVars
       ELSE /\ bitfields' = [bitfields EXCEPT ![m.from] = @ \cup {m.piece}]
            /\ rarity' = IF m.piece \in bitfields[m.from] THEN rarity
                         ELSE [rarity EXCEPT ![m.piece] = @ + 1]
            /\ disturbed' = IF \E f \in Pending(m.from) : m.piece \notin f.field
                            THEN disturbed \cup {m.from} ELSE disturbed
            /\ overlapped' = (overlapped \/ AtWork(m.from))
            /\ UNCHANGED crashed
    /\ UNCHANGED <<otherVars, netVars, managerVars, responses, step, answered, lost>>

\* Mutant of Without: the old bitfield is kept in the counts.
WithoutNothing(q) == rarity

\* removePeerRarity and addPeerRarity
Without(q) == [i \in Piece |-> IF i \in bitfields[q] THEN rarity[i] - 1 ELSE rarity[i]]
With(f) == [i \in Piece |-> IF i \in f THEN rarity[i] + 1 ELSE rarity[i]]

\* handleResponses, for a bitfield, takes no mutex.
HandleField ==
    LET m == Head(responses) IN
    /\ Runs /\ responses # <<>>
    /\ CASE Steps[step] = "remove" ->
              /\ rarity' = IF m.from \in DOMAIN bitfields THEN Without(m.from) ELSE rarity
              /\ UNCHANGED <<bitfields, states, described>>
         [] Steps[step] = "store" ->
              /\ bitfields' = Stored(m.from, m.field)
              /\ UNCHANGED <<rarity, states, described>>
         [] Steps[step] = "add" ->
              /\ rarity' = With(m.field)
              /\ UNCHANGED <<bitfields, states, described>>
         [] Steps[step] = "state" ->
              /\ states' = states \cup {m.from}
              /\ described' = described \cup {m.from}
              /\ UNCHANGED <<bitfields, rarity>>
    /\ step' = (step % Len(Steps)) + 1
    /\ responses' = IF step = Len(Steps) THEN Tail(responses) ELSE responses
    /\ UNCHANGED <<otherVars, netVars, interested, newPeers, adding, disturbed,
                   overlapped, requests, crashed, answered, lost>>

BitfieldsNext ==
    \/ \E q \in Peer : \/ TakeInterest(q) \/ TakeBitfield(q) \/ SendField(q) \/ SendUpdate(q)
                       \/ \E i \in Piece : Verify(q, i)
                       \/ FindPeer(q) \/ AnswerInterest(q) \/ LoseConnection(q) \/ ErasePeer(q)
                       \/ AddPeer(q) \/ Arrive(q)
    \/ TellPeer \/ GotPiece \/ HandleField

BitfieldsSpec == BitfieldsInit /\ [][BitfieldsNext]_bitfieldsVars

-----------------------------------------------------------------------------
(* Properties.                                                             *)

\* getRequestablePeers
Requestable == interested \cap described

\* ChooseBlocks asks only for peers that are in the chooser's map (hasPiece
\* throws for others). An update of a peer that is not there comes only from a
\* peer whose own interest was answered, which does not add it, or while
\* downloadFile is about to add it.
KnownBeforeUse ==
    /\ Requestable \subseteq DOMAIN bitfields
    /\ crashed \subseteq answered \cup adding \cup ToSet(newPeers)

\* Between two bitfields the counts cover the bitfields: a piece that a peer
\* has is never counted for less, and exactly so while no thread changes them
\* under another and no known peer is added again.
Have(i) == {q \in DOMAIN bitfields : i \in bitfields[q]}
RarityCovers ==
    Steps[step] \in {"remove", "state"} =>
        \A i \in Piece : /\ rarity[i] >= Cardinality(Have(i))
                         /\ ~overlapped => rarity[i] = Cardinality(Have(i))

\* The updates of q that are not yet seen.
Announced(q) ==
    fresh[q] \cup {m.piece : m \in {c \in ToSet(channel[q]) : ~IsField(c)}}
             \cup {m.piece : m \in {r \in ToSet(requests) : r.from = q}}

\* A peer that is asked for its bitfield again gives it.
Asked(q) == asks[q] > 0 \/ q \in replying

\* A peer is not asked for pieces it has not got, and what it has got beyond
\* what the downloader knows is announced or in a bitfield on its way, unless
\* an update overtook a bitfield that is older, or the peer was added when its
\* bitfield had come.
NothingMissed ==
    \A q \in DOMAIN bitfields :
        /\ bitfields[q] \subseteq has[q]
        /\ q \in told /\ q \notin disturbed /\ ~Asked(q) =>
             has[q] \subseteq bitfields[q] \cup Announced(q) \cup UNION {m.field : m \in Pending(q)}
=============================================================================
