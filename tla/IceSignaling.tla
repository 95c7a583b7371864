---------------------------- MODULE IceSignaling ----------------------------
(***************************************************************************)
(* How peers come to be connected. A peer that wants a connection sends    *)
(* its ICE data to the server (addFileForPeer), the server passes it on    *)
(* and keeps the pair of peers under an identifier (IceMessagesHandler),   *)
(* the other peer answers under that identifier (shareIceData) and both    *)
(* try to connect. Every peer holds _mutexPeerConnections from the request *)
(* to the end of the attempt, and needs it to answer. The server has a     *)
(* thread per client, which sends what is queued for the client and        *)
(* handles what it receives (MultiThreadedServer, MessageHandler). Peers   *)
(* may leave at any time. The ten seconds after which a pending request    *)
(* is no longer looked at are an action of the clock.                      *)
(***************************************************************************)
EXTENDS Naturals, Sequences, SequencesExt, FiniteSets, Functions

CONSTANTS
    Peer,           \* the clients, by the identifier the server gave them
    Nobody,         \* the null identifier ID()
    IdSpace,        \* number of request identifiers, 2^16 in the code
    MaxConnected,   \* MAXIMUM_CONNECTED_USERS
    MaxRequests,    \* bound: connection requests of all peers together
    MaxLeaves,      \* bound: peers that leave
    MaxAged,        \* bound: pending requests that pass their ten seconds
    MaxInHandler    \* bound: server threads inside a GetUserICEInfo handler

ASSUME SignalingAssumption ==
    /\ IsFiniteSet(Peer) /\ Nobody \notin Peer
    /\ IdSpace \in Nat \ {0} /\ MaxConnected \in Nat /\ MaxRequests \in Nat

Id == 0..(IdSpace - 1)

VARIABLES
    here,       \* the peers whose program runs
    served,     \* the clients that have a thread at the server
    add,        \* the thread of a peer that is in addFileForPeer
    share,      \* the thread of a peer in shareIceData
    conn,       \* _peerConnections of a peer: whom it has a connection to
    inbox,      \* what the server sent to a peer and nobody has taken yet
    uplink,     \* what a peer sent and the server has not read yet
    queue,      \* messagesToSend
    waits,      \* waitsForResponse
    old,        \* identifiers whose requestsTime is ten seconds back
    waitIds,    \* the next identifier
    handler,    \* the server's thread of a client, inside GetUserICEInfo
    asked, left, aged   \* counts for the bounds

peerVars == <<add, share, conn>>
netVars == <<inbox, uplink, queue>>
serverVars == <<waits, old, waitIds, handler>>
counts == <<asked, left, aged>>
vars == <<here, served, peerVars, netVars, serverVars, counts>>

Answer == {"UserAuthorizedICEData", "UserAlreadyConnected", "UserFullCapacity",
           "ExistsOpositeRequest"}

\* A message: its code, the peer it names (whose ICE data it carries, or
\* the peer it asks for) and the identifier of the request.
Msg(code, peer, id) == [code |-> code, peer |-> peer, id |-> id]

Idle == [pc |-> "idle", peer |-> Nobody, ice |-> Nobody]
Receiving == [pc |-> "receive", peer |-> Nobody, id |-> 0]
NotHandling == [peer |-> Nobody, id |-> 0]

\* _mutexPeerConnections is held by the thread in addFileForPeer or by the
\* one in shareIceData.
MutexFree(p) == add[p].pc = "idle" /\ share[p].pc # "connect"

Init ==
    /\ here = Peer
    /\ served = Peer
    /\ add = [p \in Peer |-> Idle]
    /\ share = [p \in Peer |-> Receiving]
    /\ conn = [p \in Peer |-> {}]
    /\ inbox = [p \in Peer |-> <<>>]
    /\ uplink = [p \in Peer |-> <<>>]
    /\ queue = [p \in Peer |-> <<>>]
    /\ waits = <<>>
    /\ old = {}
    /\ waitIds = 0
    /\ handler = [p \in Peer |-> NotHandling]
    /\ asked = 0 /\ left = 0 /\ aged = 0

-----------------------------------------------------------------------------
(* The peers.                                                              *)

\* addFileForPeer up to the request, for a peer without a connection.
RequestConnection(p, q) ==
    /\ p \in here /\ p # q /\ MutexFree(p)
    /\ q \notin conn[p]
    /\ asked < MaxRequests /\ asked' = asked + 1
    /\ add' = [add EXCEPT ![p] = [pc |-> "wait", peer |-> q, ice |-> Nobody]]
    /\ uplink' = [uplink EXCEPT ![p] = Append(@, Msg("GetUserICEInfo", q, 0))]
    /\ UNCHANGED <<here, served, share, conn, inbox, queue, serverVars, left, aged>>

\* receive(isRelevant): the first message of the wanted kind in the order
\* of arrival, wherever it is (in the socket or among the messages that
\* another thread read and did not want).
First(p, codes) == SelectInSeq(inbox[p], LAMBDA m : m.code \in codes)

\* The answer of the server arrives in addFileForPeer. Only authorisation
\* leads to an attempt; the others return false or throw.
TakeAnswer(p) ==
    LET k == First(p, Answer) IN
    /\ add[p].pc = "wait" /\ k # 0
    /\ inbox' = [inbox EXCEPT ![p] = RemoveAt(@, k)]
    /\ add' = [add EXCEPT ![p] =
                 IF inbox[p][k].code = "UserAuthorizedICEData"
                 THEN [@ EXCEPT !.pc = "connect", !.ice = inbox[p][k].peer]
                 ELSE Idle]
    /\ UNCHANGED <<here, served, share, conn, uplink, queue, serverVars, counts>>

\* shareIceData takes the request of another peer, then asks for the mutex.
TakeRequest(p) ==
    LET k == First(p, {"AuthorizeICEConnection"}) IN
    /\ share[p].pc = "receive" /\ k # 0 /\ p \in here
    /\ inbox' = [inbox EXCEPT ![p] = RemoveAt(@, k)]
    /\ share' = [share EXCEPT ![p] = [pc |-> "lock", peer |-> inbox[p][k].peer,
                                      id |-> inbox[p][k].id]]
    /\ UNCHANGED <<here, served, add, conn, uplink, queue, serverVars, counts>>

\* With the mutex it answers; when it authorises, it goes on to connect
\* with the mutex held.
AnswerRequest(p) ==
    LET q == share[p].peer
        reply == IF q \in conn[p] THEN "AlreadyConnected"
                 ELSE IF Cardinality(conn[p]) > MaxConnected THEN "FullCapacity"
                 ELSE "AuthorizedICEConnection"
    IN
    /\ share[p].pc = "lock" /\ MutexFree(p) /\ p \in here
    /\ uplink' = [uplink EXCEPT ![p] = Append(@, Msg(reply, p, share[p].id))]
    /\ share' = [share EXCEPT ![p] = IF reply = "AuthorizedICEConnection"
                                     THEN [@ EXCEPT !.pc = "connect"]
                                     ELSE Receiving]
    /\ UNCHANGED <<here, served, add, conn, inbox, queue, serverVars, counts>>

\* p tries to reach q with the data of q, and q tries to reach p.
Meeting(p, q) ==
    /\ add[p].pc = "connect" /\ add[p].ice = q
    /\ share[q].pc = "connect" /\ share[q].peer = p

\* Both agents connect. addFileForPeer stores the connection under the
\* peer it asked for.
Connect(p, q) ==
    /\ Meeting(p, q) /\ p \in here /\ q \in here
    /\ conn' = [conn EXCEPT ![p] = @ \cup {add[p].peer}, ![q] = @ \cup {p}]
    /\ add' = [add EXCEPT ![p] = Idle]
    /\ share' = [share EXCEPT ![q] = Receiving]
    /\ UNCHANGED <<here, served, netVars, serverVars, counts>>

\* connectToPeer gives up after a minute, on either side.
AttemptFails(p) ==
    /\ p \in here
    /\ \/ /\ add[p].pc = "connect"
          /\ add' = [add EXCEPT ![p] = Idle]
          /\ UNCHANGED share
       \/ /\ share[p].pc = "connect"
          /\ share' = [share EXCEPT ![p] = Receiving]
          /\ UNCHANGED add
    /\ UNCHANGED <<here, served, conn, netVars, serverVars, counts>>

\* A connection ends on one side: removeFileFromPeer takes the last file off
\* it, or sendMessage finds it broken. The other side keeps its entry until
\* it sends something itself.
ForgetConnection(p, q) ==
    /\ q \in conn[p]
    /\ conn' = [conn EXCEPT ![p] = @ \ {q}]
    /\ UNCHANGED <<here, served, add, share, netVars, serverVars, counts>>

\* The program of a peer ends. What it sent still reaches the server.
Leave(p) ==
    /\ p \in here /\ left < MaxLeaves
    /\ left' = left + 1
    /\ here' = here \ {p}
    /\ add' = [add EXCEPT ![p] = Idle]
    /\ share' = [share EXCEPT ![p] = Receiving]
    /\ conn' = [conn EXCEPT ![p] = {}]
    /\ inbox' = [inbox EXCEPT ![p] = <<>>]
    /\ UNCHANGED <<served, uplink, queue, serverVars, asked, aged>>

-----------------------------------------------------------------------------
(* The server.                                                             *)

\* The thread of a client is in the loop of handleClient.
InLoop(p) == p \in served /\ handler[p] = NotHandling

\* It sends one message of the client's queue.
SendQueued(p) ==
    /\ InLoop(p) /\ queue[p] # <<>>
    /\ queue' = [queue EXCEPT ![p] = Tail(@)]
    /\ inbox' = IF p \in here
                THEN [inbox EXCEPT ![p] = Append(@, Head(queue[p]))]
                ELSE inbox
    /\ UNCHANGED <<here, served, peerVars, uplink, serverVars, counts>>

\* A request between the same two peers, in either direction, that is less
\* than ten seconds old.
ExistsRequest(p, q) ==
    \E k \in DOMAIN waits : waits[k] \in {<<p, q>>, <<q, p>>} /\ k \notin old

\* Mutant of Refusal: no answer.
RefusalNone(q) == <<>>

\* What the requester gets when such a request exists.
Refusal(q) == <<Msg("ExistsOpositeRequest", q, 0)>>

InHandler == {p \in Peer : handler[p] # NotHandling}

\* The handler of GetUserICEInfo looks for such a request, and answers or
\* takes the next identifier for the message to the other peer.
HandleGetUserICEInfo(p) ==
    /\ InLoop(p) /\ uplink[p] # <<>>
    /\ Cardinality(InHandler) < MaxInHandler
    /\ LET q == Head(uplink[p]).peer IN
       /\ Head(uplink[p]).code = "GetUserICEInfo"
       /\ uplink' = [uplink EXCEPT ![p] = Tail(@)]
       /\ IF ExistsRequest(p, q)
          THEN /\ queue' = [queue EXCEPT ![p] = @ \o Refusal(q)]
               /\ UNCHANGED handler
          ELSE /\ handler' = [handler EXCEPT ![p] = [peer |-> q, id |-> waitIds]]
               /\ UNCHANGED queue
    /\ UNCHANGED <<here, served, peerVars, inbox, waits, old, waitIds, counts>>

\* Mutant of NextId: not counted on.
SameId == waitIds

\* waitIds++ on an unsigned of sixteen bits.
NextId == (waitIds + 1) % IdSpace

\* waitsForResponse[waitIds] = the two peers, whatever was there before.
Entered(pair) ==
    [k \in DOMAIN waits \cup {waitIds} |-> IF k = waitIds THEN pair ELSE waits[k]]

\* It records the request, counts the identifier on, and queues the message
\* for the other peer, whether or not that peer is still here.
RecordRequest(p) ==
    LET q == handler[p].peer IN
    /\ handler[p] # NotHandling
    /\ waits' = Entered(<<p, q>>)
    /\ old' = old \ {waitIds}
    /\ waitIds' = NextId
    /\ queue' = [queue EXCEPT ![q] =
                   Append(@, Msg("AuthorizeICEConnection", p, handler[p].id))]
    /\ handler' = [handler EXCEPT ![p] = NotHandling]
    /\ UNCHANGED <<here, served, peerVars, inbox, uplink, counts>>

\* The requester of an identifier; an unknown identifier reads as nobody.
Requester(k) == IF k \in DOMAIN waits THEN waits[k][1] ELSE Nobody

\* Mutant of Answered: the request is kept.
AnsweredKept(k) == waits

\* The pending requests once k is answered.
Answered(k) == Restrict(waits, DOMAIN waits \ {k})

\* What the requester gets for each answer of the other peer.
Forwarded(m) ==
    CASE m.code = "AuthorizedICEConnection" -> Msg("UserAuthorizedICEData", m.peer, m.id)
      [] m.code = "AlreadyConnected" -> Msg("UserAlreadyConnected", m.peer, m.id)
      [] m.code = "FullCapacity" -> Msg("UserFullCapacity", m.peer, m.id)

\* The handlers of the three answers: pass it on and forget the request.
HandleAnswer(p) ==
    /\ InLoop(p) /\ uplink[p] # <<>>
    /\ LET m == Head(uplink[p]) r == Requester(m.id) IN
       /\ m.code # "GetUserICEInfo"
       /\ uplink' = [uplink EXCEPT ![p] = Tail(@)]
       /\ queue' = IF r = Nobody THEN queue
                   ELSE [queue EXCEPT ![r] = Append(@, Forwarded(m))]
       /\ waits' = Answered(m.id)
       /\ old' = old \ {m.id}
    /\ UNCHANGED <<here, served, peerVars, inbox, waitIds, handler, counts>>

\* The thread of a client that left fails to send or to receive, and cleans
\* up. The requests of and for that client stay, and what is queued for it
\* later is never sent.
CleanUp(p) ==
    /\ InLoop(p) /\ p \notin here
    /\ served' = served \ {p}
    /\ queue' = [queue EXCEPT ![p] = <<>>]
    /\ UNCHANGED <<here, peerVars, inbox, uplink, serverVars, counts>>

\* Ten seconds pass for a pending request.
Age(k) ==
    /\ k \in DOMAIN waits \ old /\ aged < MaxAged
    /\ old' = old \cup {k}
    /\ aged' = aged + 1
    /\ UNCHANGED <<here, served, peerVars, netVars, waits, waitIds, handler, asked, left>>

-----------------------------------------------------------------------------
PeerStep(p) ==
    \/ TakeAnswer(p) \/ TakeRequest(p) \/ AnswerRequest(p)

ServerStep(p) ==
    \/ SendQueued(p) \/ HandleGetUserICEInfo(p) \/ RecordRequest(p)
    \/ HandleAnswer(p) \/ CleanUp(p)

Attempt(p) == AttemptFails(p) \/ \E q \in Peer : Connect(p, q) \/ Connect(q, p)

Next ==
    \/ \E p \in Peer : PeerStep(p) \/ ServerStep(p) \/ Attempt(p) \/ Leave(p)
    \/ \E p, q \in Peer : RequestConnection(p, q) \/ ForgetConnection(p, q)
    \/ \E k \in Id : Age(k)

Spec == Init /\ [][Next]_vars

\* The threads of the peers and of the server are scheduled, an attempt
\* ends within a minute. Nothing makes a peer ask, leave or forget.
FairSpec ==
    /\ Spec
    /\ \A p \in Peer : /\ WF_vars(TakeAnswer(p))
                       /\ WF_vars(TakeRequest(p))
                       /\ SF_vars(AnswerRequest(p))
                       /\ WF_vars(ServerStep(p))
                       /\ WF_vars(Attempt(p))
-----------------------------------------------------------------------------
(* Properties.                                                             *)

\* The messages with one of the codes and one of the identifiers.
MsgsOf(codes, ids) == [code : codes, peer : Peer, id : ids]

\* How many messages of a sequence are among these.
Count(seq, msgs) == Cardinality({i \in DOMAIN seq : seq[i] \in msgs})

\* The answers of the asked peer.
Reply == {"AuthorizedICEConnection", "AlreadyConnected", "FullCapacity"}

Asks == MsgsOf({"GetUserICEInfo"}, Id)
Answers == MsgsOf(Answer, Id)
PassedOn(k) == MsgsOf({"AuthorizeICEConnection"}, {k})
Replies(k) == MsgsOf(Reply, {k})

\* The pending requests of p.
Pending(p) == {k \in DOMAIN waits : waits[k][1] = p}

\* Where a request of p, or its answer, can be.
Traces(p) ==
    Count(uplink[p], Asks)
    + (IF handler[p] = NotHandling THEN 0 ELSE 1)
    + Cardinality(Pending(p))
    + Count(queue[p], Answers) + Count(inbox[p], Answers)

\* A peer that waits for the server has one request or answer under way,
\* and a peer that does not wait has none: no answer is lost, comes twice or
\* is left for a later request, although addFileForPeer takes any answer.
OneTracePerRequest ==
    \A p \in here : Traces(p) = IF add[p].pc = "wait" THEN 1 ELSE 0

\* The messages with identifier k between the server and the asked peer.
Steps(k, q) ==
    Count(queue[q], PassedOn(k)) + Count(inbox[q], PassedOn(k))
    + (IF share[q].pc = "lock" /\ share[q].id = k THEN 1 ELSE 0)
    + Count(uplink[q], Replies(k))

\* A pending request has been asked of the other peer once, and is in that
\* peer's hands or its answer comes back.
RequestOnItsWay ==
    \A k \in DOMAIN waits : waits[k][2] \in here => Steps(k, waits[k][2]) = 1

\* The ICE data a peer connects with is that of the peer it asked for: the
\* connection is stored under that peer.
AnswersToAsker ==
    \A p \in Peer : add[p].pc = "connect" => add[p].ice = add[p].peer

\* p waits in a circle, or for someone who does: requests have been passed on
\* to peers that cannot answer, as addFileForPeer holds the mutex that
\* shareIceData needs. Nor does a peer answer that has left.
InCircle(p) ==
    \E S \in SUBSET Peer :
        /\ p \in S
        /\ \A q \in S : /\ add[q].pc = "wait"
                        /\ <<q, add[q].peer>> \in Range(waits)
                        /\ add[q].peer \in S \/ add[q].peer \notin here

\* No thread of a peer or of the server can go on: all is read, handled, sent
\* and taken, nobody tries to connect, and whoever has the request of another
\* peer in shareIceData finds the mutex locked.
AllHeldUp ==
    /\ served \subseteq here /\ InHandler = {}
    /\ \A p \in served : uplink[p] = <<>> /\ queue[p] = <<>>
    /\ \A p \in here :
        /\ add[p].pc # "connect" /\ share[p].pc # "connect"
        /\ add[p].pc = "wait" => First(p, Answer) = 0
        /\ share[p].pc = "receive" => First(p, {"AuthorizeICEConnection"}) = 0
        /\ share[p].pc = "lock" => ~MutexFree(p)

\* When no thread can go on, whoever still waits in addFileForPeer waits in a
\* circle, or for one that has left: no answer, request or wake-up is lost on
\* any way through peers and server that would leave it waiting otherwise.
HeldUpInCircles == AllHeldUp => \A p \in here : add[p].pc = "wait" => InCircle(p)

\* addFileForPeer returns, unless peers wait for each other in a circle or
\* for one that has left: nothing else keeps it, whatever is asked, ages or
\* is left at once.
RequestEnds(p) == add[p].pc # "idle" ~> add[p].pc = "idle" \/ InCircle(p)
=============================================================================
