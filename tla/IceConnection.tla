--------------------------- MODULE IceConnection ----------------------------
(***************************************************************************)
(* One ICE connection between two peers, from this side: candidates are    *)
(* gathered, the agent of libnice tries to connect, a thread sends what is *)
(* queued, and disconnect ends it. The callbacks of the agent run in the   *)
(* thread that runs the main loop; the connections manager calls from its  *)
(* own threads. libnice and GLib are modelled from how they are used.      *)
(***************************************************************************)
EXTENDS Naturals, Sequences, SequencesExt

CONSTANTS
    MaxMessages,    \* bound: messages given to sendMessage
    MaxReceived,    \* bound: messages that arrive
    Others          \* may the thread of another connection run the main
                    \* context, which all connections share

ASSUME IceAssumption == MaxMessages \in Nat /\ MaxReceived \in Nat /\ Others \subseteq BOOLEAN

Caller == {"callback", "manager"}
Sender == 1..2      \* at most one for each of the states connected and ready

VARIABLES
    phase,      \* where getLocalICEData and connectToPeer are
    gathered,   \* candidate-gathering-done was signalled
    watching,   \* the handler of component-state-changed is in place
    component,  \* the state of the agent's component
    isConnected,
    sender,     \* the threads messageSendingThread
    hand,       \* the message that a sender has taken, or 0
    queue,      \* _messagesToSend: messages are numbered as they come
    given,      \* messages given to sendMessage so far
    wire,       \* what was sent to the other side; 0 says goodbye
    received,   \* _receivedMessages, counted
    arrived,    \* messages that arrived so far
    counted,    \* messages that routePackets is still to take
    closing,    \* the calls of disconnect
    agent,      \* used, closed or freed
    outcome,       \* what undefined behaviour was met
    othersRun   \* another connection runs the context, one of Others

connecting == <<phase, gathered, watching, component>>
sending == <<sender, hand, queue, given, wire>>
receiving == <<received, arrived, counted>>
ending == <<closing, agent, outcome, othersRun>>
iceVars == <<connecting, isConnected, sending, receiving, ending>>

IceInit ==
    /\ phase = "new" /\ gathered = FALSE /\ watching = FALSE
    /\ component = "connecting" /\ isConnected = FALSE
    /\ sender = [s \in Sender |-> "none"] /\ hand = [s \in Sender |-> 0]
    /\ queue = <<>> /\ given = 0 /\ wire = <<>>
    /\ received = 0 /\ arrived = 0 /\ counted = 0
    /\ closing = [c \in Caller |-> "no"] /\ agent = "used" /\ outcome = "runs"
    /\ othersRun \in Others

-----------------------------------------------------------------------------
(* getLocalICEData: gathering begins, then the handler is set, then the    *)
(* loop runs until the handler quits it.                                   *)

StartGathering ==
    /\ phase = "new"
    /\ phase' \in {"gathering", "failed"}
    /\ UNCHANGED <<gathered, watching, component, isConnected, sending, receiving, ending>>

RunGathering ==
    /\ phase = "gathering"
    /\ phase' = "running"
    /\ UNCHANGED <<gathered, watching, component, isConnected, sending, receiving, ending>>

\* Mutant of GatheringDone: the loop is not quit.
GatheringNotQuit ==
    /\ ~gathered /\ phase = "running"
    /\ gathered' = TRUE
    /\ UNCHANGED <<phase, watching, component, isConnected, sending, receiving, ending>>

\* The callback runs in whichever thread runs the context. Before this
\* thread runs its loop, there is nothing to quit.
GatheringDone ==
    /\ ~gathered
    /\ \/ phase = "running"
       \/ phase = "gathering" /\ othersRun
    /\ gathered' = TRUE
    /\ phase' = IF phase = "running" THEN "gathered" ELSE phase
    /\ UNCHANGED <<watching, component, isConnected, sending, receiving, ending>>

-----------------------------------------------------------------------------
(* connectToPeer polls for a minute while a thread runs the loop.          *)

StartConnecting ==
    /\ phase = "gathered"
    /\ phase' = "polling"
    /\ UNCHANGED <<gathered, watching, component, isConnected, sending, receiving, ending>>

Watch ==
    /\ phase \in {"polling", "gaveup", "destroyed"} /\ ~watching
    /\ watching' = TRUE
    /\ UNCHANGED <<phase, gathered, component, isConnected, sending, receiving, ending>>

\* Both connected and ready start a thread.
StartSender ==
    \E s \in Sender :
        /\ sender[s] = "none" /\ \A r \in 1..(s - 1) : sender[r] # "none"
        /\ sender' = [sender EXCEPT ![s] = "check"]

NextState == [connecting |-> "connected", connected |-> "ready"]

\* A step of the negotiation, which the callback is told of if it is set.
Negotiate ==
    /\ component \in DOMAIN NextState /\ agent = "used"
    /\ phase \in {"polling", "gaveup", "connected", "destroyed"}
    /\ watching \/ othersRun
    /\ component' = NextState[component]
    /\ IF watching THEN isConnected' = TRUE /\ StartSender ELSE UNCHANGED <<isConnected, sender>>
    /\ UNCHANGED <<phase, gathered, watching, hand, queue, given, wire, receiving, ending>>

\* The negotiation fails: the loop is left.
Fail ==
    /\ component = "connecting" /\ watching /\ agent = "used"
    /\ component' = "failed"
    /\ UNCHANGED <<phase, gathered, watching, isConnected, sending, receiving, ending>>

Poll ==
    /\ phase = "polling"
    /\ phase' = IF isConnected THEN "connected" ELSE "gaveup"
    /\ UNCHANGED <<gathered, watching, component, isConnected, sending, receiving, ending>>

-----------------------------------------------------------------------------
(* Sending.                                                                *)

Woken == IF \E s \in Sender : sender[s] = "wait"
         THEN {[sender EXCEPT ![s] = "check"] : s \in {s \in Sender : sender[s] = "wait"}}
         ELSE {sender}

\* Mutant of Notified: nobody is notified.
NotNotified == sender' = sender

\* One of the waiting senders is notified.
Notified == sender' \in Woken

\* Mutant of SendMessage: the queue becomes a stack.
SendMessageFirst ==
    /\ phase = "connected" /\ given < MaxMessages
    /\ given' = given + 1
    /\ queue' = <<given + 1>> \o queue
    /\ Notified
    /\ UNCHANGED <<connecting, isConnected, hand, wire, receiving, ending>>

SendMessage ==
    /\ phase = "connected" /\ given < MaxMessages
    /\ given' = given + 1
    /\ queue' = Append(queue, given + 1)
    /\ Notified
    /\ UNCHANGED <<connecting, isConnected, hand, wire, receiving, ending>>

\* The loop test and the wait: disconnect does not notify, so that a sender
\* that waits goes on waiting.
CheckSender(s) ==
    /\ sender[s] = "check"
    /\ sender' = [sender EXCEPT ![s] = IF ~isConnected THEN "ended"
                                       ELSE IF queue = <<>> THEN "wait" ELSE "take"]
    /\ UNCHANGED <<connecting, isConnected, hand, queue, given, wire, receiving, ending>>

\* Mutant of PopFront: the message stays in the queue.
NoPop == queue

PopFront == Tail(queue)

\* Messages are taken under the mutex until there are none ...
Take(s) ==
    /\ sender[s] = "take"
    /\ IF queue = <<>>
       THEN sender' = [sender EXCEPT ![s] = "check"] /\ UNCHANGED <<hand, queue>>
       ELSE /\ hand' = [hand EXCEPT ![s] = Head(queue)]
            /\ queue' = PopFront
            /\ sender' = [sender EXCEPT ![s] = "send"]
    /\ UNCHANGED <<connecting, isConnected, given, wire, receiving, ending>>

\* ... and sent without it. An agent that was freed is used again if the
\* pointer was read before it became null, which the free allows.
SendTaken(s) ==
    /\ sender[s] = "send"
    /\ wire' = IF agent = "used" THEN Append(wire, hand[s]) ELSE wire
    /\ outcome' \in IF agent = "freed" THEN {outcome, "used freed agent"} ELSE {outcome}
    /\ hand' = [hand EXCEPT ![s] = 0]
    /\ sender' = [sender EXCEPT ![s] = "take"]
    /\ UNCHANGED <<connecting, isConnected, queue, given, receiving, closing, agent, othersRun>>

-----------------------------------------------------------------------------
(* Receiving: the callback queues, routePackets counts and takes.          *)

Arrive ==
    /\ watching /\ arrived < MaxReceived /\ agent = "used"
    /\ arrived' = arrived + 1
    /\ received' = IF isConnected THEN received + 1 ELSE received
    /\ UNCHANGED <<connecting, isConnected, sending, counted, ending>>

CountReceived ==
    /\ phase = "connected" /\ counted = 0 /\ received > 0
    /\ counted' = received
    /\ UNCHANGED <<connecting, isConnected, sending, received, arrived, ending>>

ReceiveMessage ==
    /\ counted > 0
    /\ received' = received - 1 /\ counted' = counted - 1
    /\ UNCHANGED <<connecting, isConnected, sending, arrived, ending>>

-----------------------------------------------------------------------------
(* disconnect, by the callback when the other side ends the connection, or *)
(* by the manager.                                                         *)

BeginDisconnect(c) ==
    /\ isConnected /\ closing[c] = "no"
    /\ c = "manager" => phase = "connected"
    /\ closing' = [closing EXCEPT ![c] = "goodbye"]
    /\ UNCHANGED <<connecting, isConnected, sending, receiving, agent, outcome, othersRun>>

SayGoodbye(c) ==
    /\ closing[c] = "goodbye"
    /\ wire' = IF agent = "used" THEN Append(wire, 0) ELSE wire
    /\ isConnected' = FALSE
    /\ closing' = [closing EXCEPT ![c] = "close"]
    /\ UNCHANGED <<connecting, sender, hand, queue, given, receiving, agent, outcome, othersRun>>

\* The agent is closed, which takes turns of the main loop, ...
CloseAgent(c) ==
    /\ closing[c] = "close"
    /\ agent' = IF agent = "used" THEN "closed" ELSE agent
    /\ closing' = [closing EXCEPT ![c] = "free"]
    /\ UNCHANGED <<connecting, isConnected, sending, receiving, outcome, othersRun>>

\* ... and freed. Who closed it meanwhile frees it, too.
FreeAgent(c) ==
    /\ closing[c] = "free"
    /\ agent' = "freed"
    /\ outcome' = IF agent = "freed" THEN "freed twice" ELSE outcome
    /\ closing' = [closing EXCEPT ![c] = "done"]
    /\ UNCHANGED <<connecting, isConnected, sending, receiving, othersRun>>

\* The manager lets go of a connection that was not made; the destructor's
\* disconnect does nothing then.
Destroy ==
    /\ phase = "gaveup"
    /\ phase' = "destroyed"
    /\ UNCHANGED <<gathered, watching, component, isConnected, sending, receiving, ending>>

-----------------------------------------------------------------------------

Gathering == StartGathering \/ RunGathering \/ GatheringDone
Connecting == StartConnecting \/ Watch \/ Negotiate \/ Fail \/ Poll
SenderStep(s) == CheckSender(s) \/ Take(s) \/ SendTaken(s)
Receiving == Arrive \/ CountReceived \/ ReceiveMessage
Disconnecting(c) == SayGoodbye(c) \/ CloseAgent(c) \/ FreeAgent(c)

IceNext ==
    \/ Gathering \/ Connecting \/ Receiving \/ SendMessage \/ Destroy
    \/ \E s \in Sender : SenderStep(s)
    \/ \E c \in Caller : BeginDisconnect(c) \/ Disconnecting(c)

IceSpec == IceInit /\ [][IceNext]_iceVars

\* The threads go on and the gathering is done; connecting may fail.
FairIceSpec ==
    /\ IceSpec
    /\ WF_iceVars(StartGathering) /\ WF_iceVars(RunGathering) /\ WF_iceVars(GatheringDone)
    /\ \A s \in Sender : WF_iceVars(SenderStep(s))
    /\ \A c \in Caller : WF_iceVars(Disconnecting(c))

-----------------------------------------------------------------------------
(* Properties.                                                             *)

Places(n) == {<<"queue", i>> : i \in {i \in DOMAIN queue : queue[i] = n}}
             \cup {<<"hand", s>> : s \in {s \in Sender : hand[s] = n}}
             \cup {<<"wire", i>> : i \in {i \in DOMAIN wire : wire[i] = n}}

\* However many senders there are, a message is in one place at most, and in
\* one as long as the agent is there: it is not sent twice and not dropped.
SentOnce ==
    \A n \in 1..given : /\ \A a, b \in Places(n) : a = b
                        /\ agent = "used" => Places(n) # {}

\* What is given to a connection is sent unless somebody ends the connection.
MessagesLeave ==
    \A n \in 1..MaxMessages :
        given >= n ~> n \in ToSet(wire) \/ \E c \in Caller : closing[c] # "no"

\* getLocalICEData ends, however long gathering takes, when no other
\* connection runs the context meanwhile. (One that does may deliver the
\* signal before the loop runs that it should quit.)
GatheringEnds == phase = "new" /\ ~othersRun ~> phase \in {"gathered", "failed"}

\* Messages are sent in the order in which they were given until the state
\* ready starts the second sender.
InOrder ==
    sender[2] = "none" =>
        \A i, j \in DOMAIN wire : i < j /\ wire[i] # 0 /\ wire[j] # 0 => wire[i] < wire[j]
=============================================================================
