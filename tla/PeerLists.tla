------------------------------ MODULE PeerLists -----------------------------
(***************************************************************************)
(* How the peer managers of one program ask the server who has their file  *)
(* (requestForNewPeerList). There is a manager for each file; they share   *)
(* the socket, so one may receive the list of another. It then puts the    *)
(* list into a set that all share, and waits for its own.                  *)
(***************************************************************************)
EXTENDS Naturals, Sequences, FiniteSets

CONSTANTS
    Manager,        \* a manager stands for its file, too
    MaxEarly        \* bound: wake-ups without a notification

\* The managers are the files of one program.
ASSUME BoundsAssumption == IsFiniteSet(Manager) /\ MaxEarly \in Nat

VARIABLES
    pc,             \* where the thread of a manager is
    requests,       \* UserListRequests that the server has not handled
    inbox,          \* UserListResponses in the socket or in its list, by file
    held,           \* the response that the manager is about to share
    messagesSet,    \* _messagesSet, by file
    early           \* wake-ups without a notification so far

listVars == <<pc, requests, inbox, held, messagesSet, early>>

ListsInit ==
    /\ pc = [m \in Manager |-> "idle"]
    /\ requests = <<>>
    /\ inbox = <<>>
    /\ held = [m \in Manager |-> {}]
    /\ messagesSet = {}
    /\ early = 0

-----------------------------------------------------------------------------
(* The server.                                                             *)

Serve ==
    /\ requests # <<>>
    /\ inbox' = Append(inbox, Head(requests))
    /\ requests' = Tail(requests)
    /\ UNCHANGED <<pc, held, messagesSet, early>>

-----------------------------------------------------------------------------
(* A manager.                                                              *)

Request(m) ==
    /\ pc[m] = "idle"
    /\ pc' = [pc EXCEPT ![m] = "receive"]
    /\ requests' = Append(requests, m)
    /\ UNCHANGED <<inbox, held, messagesSet, early>>

ReturnList(m) == pc' = [pc EXCEPT ![m] = "idle"]

\* Mutant of KeepForeign: a list of another file is thrown away, and the
\* manager receives again.
DropForeign(m) ==
    /\ Head(inbox) # m
    /\ UNCHANGED <<pc, held>>

KeepForeign(m) ==
    /\ Head(inbox) # m
    /\ held' = [held EXCEPT ![m] = {Head(inbox)}]
    /\ pc' = [pc EXCEPT ![m] = "share"]

\* Any thread that receives may take the next list, whoever asked for it:
\* the mutex of the socket is one of the manager, not of the socket.
Receive(m) ==
    /\ pc[m] = "receive" /\ inbox # <<>>
    /\ inbox' = Tail(inbox)
    /\ \/ Head(inbox) = m /\ ReturnList(m) /\ UNCHANGED held
       \/ KeepForeign(m)
    /\ UNCHANGED <<requests, messagesSet, early>>

Waiting == {m \in Manager : pc[m] = "wait"}

\* Mutant of Share: what others shared before is lost.
ShareReplaces(m) ==
    /\ pc[m] = "share"
    /\ messagesSet' = held[m]
    /\ held' = [held EXCEPT ![m] = {}]
    /\ pc' = [n \in Manager |-> IF n = m THEN "enter"
                                ELSE IF n \in Waiting THEN "woken" ELSE pc[n]]
    /\ UNCHANGED <<requests, inbox, early>>

\* The response is shared and the waiting managers are notified; the mutex
\* is released before the manager itself begins to wait.
Share(m) ==
    /\ pc[m] = "share"
    /\ messagesSet' = messagesSet \cup held[m]
    /\ held' = [held EXCEPT ![m] = {}]
    /\ pc' = [n \in Manager |-> IF n = m THEN "enter"
                                ELSE IF n \in Waiting THEN "woken" ELSE pc[n]]
    /\ UNCHANGED <<requests, inbox, early>>

EnterWait(m) ==
    /\ pc[m] = "enter"
    /\ pc' = [pc EXCEPT ![m] = "wait"]
    /\ UNCHANGED <<requests, inbox, held, messagesSet, early>>

\* A condition variable may wake a thread that nobody notified.
WakeEarly(m) ==
    /\ m \in Waiting /\ early < MaxEarly
    /\ early' = early + 1
    /\ pc' = [pc EXCEPT ![m] = "woken"]
    /\ UNCHANGED <<requests, inbox, held, messagesSet>>

\* A woken manager finds a list of its file in the set, which keeps it for
\* later rounds, too, or gives up after a second, or waits again; the time is
\* looked at only here.
Look(m) ==
    /\ pc[m] = "woken"
    /\ \/ ReturnList(m)
       \/ m \notin messagesSet /\ pc' = [pc EXCEPT ![m] = "enter"]
    /\ UNCHANGED <<requests, inbox, held, messagesSet, early>>

ManagerStep(m) == Receive(m) \/ Share(m) \/ EnterWait(m) \/ Look(m)

ListsNext ==
    \/ Serve
    \/ \E m \in Manager : Request(m) \/ ManagerStep(m) \/ WakeEarly(m)

ListsSpec == ListsInit /\ [][ListsNext]_listVars

\* The server and the threads go on.
FairListsSpec ==
    /\ ListsSpec
    /\ WF_listVars(Serve)
    /\ \A m \in Manager : SF_listVars(Receive(m)) /\ WF_listVars(Share(m) \/ EnterWait(m) \/ Look(m))
                          /\ WF_listVars(Request(m))

-----------------------------------------------------------------------------
(* Properties.                                                             *)

\* For every thread that receives there is one message to come, so that no
\* thread is left in receive (and with it every mutex its caller holds).
OneListEach == Cardinality({m \in Manager : pc[m] = "receive"}) = Len(requests) + Len(inbox)

\* A manager that waits while its answer is not in the shared set is waiting
\* for one that another manager holds or that is still to be received.
AnswerOnItsWay ==
    \A m \in Manager : pc[m] \in {"enter", "wait"} =>
        \/ m \in messagesSet
        \/ \E n \in Manager : m \in held[n]
        \/ \E i \in DOMAIN requests : requests[i] = m
        \/ \E i \in DOMAIN inbox : inbox[i] = m

\* A request for a list ends, or the list lies in the shared set and the
\* manager waits without having been woken for it: nothing else holds it up.
RequestEnds == \A m \in Manager : pc[m] = "receive" ~> pc[m] = "idle" \/ (pc[m] = "wait" /\ m \in messagesSet)
=============================================================================
