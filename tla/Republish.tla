----------------------------- MODULE Republish ------------------------------
(***************************************************************************)
(* Peers that announce files and the tracker that lists them. A peer       *)
(* announces a file when its handler starts or resumes (saveData), and a   *)
(* thread (republishOldData) announces it again when the time has come.    *)
(* Both send a Store request to the server and take the next StoreSuccess, *)
(* whoever asked for it. The thread walks the map without its mutex.       *)
(***************************************************************************)
EXTENDS TrackerStorage, Sequences

CONSTANTS
    NoFile,
    Publisher,      \* the peers that are modelled; the others just announce
    MaxAnnounce     \* bound: calls of saveData by a peer

ASSUME PublisherAssumption ==
    Publisher \subseteq Peer /\ NoFile \notin File \cup Peer /\ MaxAnnounce \in Nat

VARIABLES
    mine,       \* savedData of a peer: the time of the next announcement
    saver,      \* the file of the saveData that is under way
    walker,     \* the thread republishOldData
    sent,       \* Store requests of a peer that the server has not handled
    answers,    \* StoreSuccess messages that no thread has taken
    calls       \* saveData calls so far

peerVars == <<mine, saver, walker, sent, answers, calls>>
vars == <<storageVars, peerVars>>

Init ==
    /\ StorageInit
    /\ mine = [p \in Publisher |-> <<>>]
    /\ saver = [p \in Publisher |-> NoFile]
    /\ walker = [p \in Publisher |-> [pc |-> "walk", current |-> 0, held |-> 0, file |-> NoFile, until |-> 0]]
    /\ sent = [p \in Publisher |-> <<>>]
    /\ answers = [p \in Publisher |-> 0]
    /\ calls = [p \in Publisher |-> 0]

Send(p, f) == sent' = [sent EXCEPT ![p] = Append(@, f)]
TakeAnswer(p) == answers[p] > 0 /\ answers' = [answers EXCEPT ![p] = @ - 1]

-----------------------------------------------------------------------------
(* A peer.                                                                 *)

\* saveData holds the mutex until its announcement is answered.
BeginSave(p, f) ==
    /\ saver[p] = NoFile /\ calls[p] < MaxAnnounce
    /\ calls' = [calls EXCEPT ![p] = @ + 1]
    /\ mine' = [mine EXCEPT ![p] = Put(@, f, now + Ttl)]
    /\ saver' = [saver EXCEPT ![p] = f]
    /\ Send(p, f)
    /\ UNCHANGED <<storageVars, walker, answers>>

EndSave(p) ==
    /\ saver[p] # NoFile /\ TakeAnswer(p)
    /\ saver' = [saver EXCEPT ![p] = NoFile]
    /\ UNCHANGED <<storageVars, mine, walker, sent, calls>>

\* stopRepublish needs the mutex, too.
StopRepublish(p, f) ==
    /\ saver[p] = NoFile /\ f \in DOMAIN mine[p]
    /\ mine' = [mine EXCEPT ![p] = Restrict(@, DOMAIN @ \ {f})]
    /\ UNCHANGED <<storageVars, saver, walker, sent, answers, calls>>

\* The files that the walk finds due.
Due(p) == {f \in DOMAIN mine[p] : mine[p][f] < walker[p].current}

Publish(p) ==
    /\ walker[p].pc = "walk"
    /\ \E f \in Due(p) :
        /\ Send(p, f)
        /\ walker' = [walker EXCEPT ![p].pc = "publish", ![p].file = f]
    /\ UNCHANGED <<storageVars, mine, saver, answers, calls>>

\* Mutant of NextTime: counted from the answer.
NextTimeFromNow(p) == now + Ttl

\* The next announcement is counted from the beginning of the walk.
NextTime(p) == walker[p].current + Ttl

\* The server only ever answers StoreSuccess. An entry that was erased
\* meanwhile is not written (the code writes to the freed entry).
Published(p) ==
    /\ walker[p].pc = "publish" /\ TakeAnswer(p)
    /\ mine' = IF walker[p].file \in DOMAIN mine[p]
               THEN [mine EXCEPT ![p][walker[p].file] = NextTime(p)] ELSE mine
    /\ walker' = [walker EXCEPT ![p].pc = "walk", ![p].file = NoFile]
    /\ UNCHANGED <<storageVars, saver, sent, calls>>

\* Mutant of WalkSleep: the default delay whatever is due.
WalkSleepTen(p) == Ttl

\* The sleep after a walk.
WalkSleep(p) ==
    IF DOMAIN mine[p] = {} THEN Ttl - 1
    ELSE Min({mine[p][f] : f \in DOMAIN mine[p]} \cup {walker[p].current + Ttl})
         - walker[p].current

\* The look at an empty map waits for the mutex.
EndWalk(p) ==
    /\ walker[p].pc = "walk" /\ Due(p) = {} /\ saver[p] = NoFile
    /\ walker' = [walker EXCEPT ![p].pc = "sleep", ![p].until = now + WalkSleep(p),
                                      ![p].held = now - walker[p].current]
    /\ UNCHANGED <<storageVars, mine, saver, sent, answers, calls>>

BeginWalk(p) ==
    /\ walker[p].pc = "sleep" /\ walker[p].until <= now
    /\ walker' = [walker EXCEPT ![p].pc = "walk", ![p].current = now]
    /\ UNCHANGED <<storageVars, mine, saver, sent, answers, calls>>

-----------------------------------------------------------------------------
(* The server handles the requests of a client in their order.             *)

HandleStore(p) ==
    /\ sent[p] # <<>>
    /\ SaveData(Head(sent[p]), p)
    /\ sent' = [sent EXCEPT ![p] = Tail(@)]
    /\ answers' = [answers EXCEPT ![p] = @ + 1]
    /\ UNCHANGED <<mine, saver, walker, calls>>

\* A walk that waits neither for an answer nor for the mutex ends within
\* the second it began; answers may take any time. A file that falls due in
\* this second is not due yet: the thread sleeps zero seconds and walks again,
\* until the second is over.
Working(p) ==
    \/ walker[p].pc = "walk" /\ (saver[p] = NoFile \/ Due(p) # {})
    \/ walker[p].pc = "sleep" /\ walker[p].until <= now /\ walker[p].current < now

Second ==
    /\ Tick
    /\ \A p \in Publisher : ~Working(p)
    /\ UNCHANGED peerVars

Cleaner == (Erase \/ Plan \/ Wake) /\ UNCHANGED peerVars

\* Other peers announce and leave.
Stranger ==
    /\ \E p \in Peer \ Publisher : RemovePeerData(p) \/ \E f \in File : SaveData(f, p)
    /\ UNCHANGED peerVars

WalkerStep(p) == Publish(p) \/ Published(p) \/ EndWalk(p) \/ BeginWalk(p)

Next ==
    \/ \E p \in Publisher : EndSave(p) \/ WalkerStep(p) \/ HandleStore(p)
    \/ \E p \in Publisher, f \in File : BeginSave(p, f) \/ StopRepublish(p, f)
    \/ Cleaner \/ Stranger \/ Second

Spec == Init /\ [][Next]_vars

-----------------------------------------------------------------------------
(* Properties.                                                             *)

InFlight(p, f) == \E i \in DOMAIN sent[p] : sent[p][i] = f

\* Until its next announcement is due, a peer is listed for every file it
\* announces, whichever thread took whose answer.
ListedUntilDue ==
    \A p \in Publisher : \A f \in DOMAIN mine[p] :
        mine[p][f] >= now /\ ~InFlight(p, f) => p \in Registered(f, NoFile)

\* Between two walks that began on time no announcement is overdue by more
\* than the time the last walk was held up.
RepublishedInTime ==
    \A p \in Publisher : walker[p].pc = "sleep" =>
        \A f \in DOMAIN mine[p] : now <= mine[p][f] + 1 + walker[p].held
=============================================================================
