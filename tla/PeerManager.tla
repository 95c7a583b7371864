---------------------------- MODULE PeerManager -----------------------------
(***************************************************************************)
(* The peers that a program uses for each of its files. A thread of the    *)
(* peer manager (updateConnectedPeers) asks who has the file, connects to  *)
(* them and drops those whose connection has ended; the file handler's     *)
(* threads add and remove peers as their messages tell. Connections are    *)
(* those of PeerConnections; PeerLists has how the lists are obtained.     *)
(***************************************************************************)
EXTENDS PeerConnections

CONSTANTS
    MaxPeers,       \* MAX_PEERS
    Lists           \* the lists of peers that may come from the server

Updater(f) == <<"updater", f>>
Worker(f) == <<"worker", f>>

ASSUME ManagerAssumption ==
    /\ MaxPeers \in Nat /\ Lists \subseteq SUBSET Peer /\ IsFiniteSet(File)
    /\ Thread = {Updater(f) : f \in File} \cup {Worker(f) : f \in File}

VARIABLES
    role,       \* _peerStates: absent, known (not amInterested) or interested
    backup,     \* _backUpPeers
    black,      \* _blackList
    gone,       \* _disconnectedPeers
    todo,       \* the peers that the updater has still to look at
    upc,        \* where the updater is
    stateLock,  \* who holds _mutexPeerStates from one step to another
    isSeed      \* _isSeed

managerVars == <<role, backup, black, gone, todo, upc, stateLock, isSeed>>
vars == <<connVars, managerVars>>

Init ==
    /\ ConnInit
    /\ role = [f \in File |-> [p \in Peer |-> "absent"]]
    /\ backup = [f \in File |-> {}]
    /\ black = [f \in File |-> {}]
    /\ gone = [f \in File |-> {}]
    /\ todo = [f \in File |-> {}]
    /\ upc = [f \in File |-> "list"]
    /\ stateLock = [f \in File |-> Nobody]
    /\ isSeed = [f \in File |-> FALSE]

Known(f) == {p \in Peer : role[f][p] # "absent"}
StatesFree(f) == stateLock[f] = Nobody
SetRole(f, p, r) == role' = [role EXCEPT ![f][p] = r]

-----------------------------------------------------------------------------
(* addPeer, by the updater.                                                *)

\* The place is taken, ...
KeepAsBackup(f, p) ==
    /\ StatesFree(f) /\ Cardinality(Known(f)) >= MaxPeers
    /\ backup' = [backup EXCEPT ![f] = @ \cup {p}]
    /\ UNCHANGED <<connVars, role, black, stateLock>>

\* or the peer is known already, ...
AlreadyKnown(f, p) ==
    /\ StatesFree(f) /\ Cardinality(Known(f)) < MaxPeers /\ p \in Known(f)
    /\ UNCHANGED <<connVars, role, backup, black, stateLock>>

\* or it is connected to, with _mutexPeerStates held.
TryPeer(f, p) ==
    /\ StatesFree(f) /\ Cardinality(Known(f)) < MaxPeers /\ p \notin Known(f)
    /\ AddFile(Updater(f), f, p)
    /\ stateLock' = [stateLock EXCEPT ![f] = Updater(f)]
    /\ UNCHANGED <<role, backup, black>>

AddPeer(f, p) == KeepAsBackup(f, p) \/ AlreadyKnown(f, p) \/ TryPeer(f, p)

AddReturns(f) ==
    LET t == Updater(f)
        p == job[t].peer
    IN /\ Return(t)
       /\ \/ job[t].op = "added" /\ SetRole(f, p, "interested") /\ UNCHANGED black
          \/ job[t].op = "refused" /\ black' = [black EXCEPT ![f] = @ \cup {p}] /\ UNCHANGED role
       /\ stateLock' = [stateLock EXCEPT ![f] = Nobody]
       /\ UNCHANGED <<backup, gone, todo, upc, isSeed>>

-----------------------------------------------------------------------------
(* The rounds of the updater, every ten seconds.                           *)

Idle(f) == job[Updater(f)] = NoJob

\* Peers that are a minute on the black list leave it, and a list comes.
BeginRound(f) ==
    /\ upc[f] = "list" /\ ~isSeed[f]
    /\ \E old \in SUBSET black[f], listed \in Lists :
        /\ black' = [black EXCEPT ![f] = @ \ old]
        /\ todo' = [todo EXCEPT ![f] = listed \ (black[f] \ old)]
    /\ upc' = [upc EXCEPT ![f] = "peers"]
    /\ UNCHANGED <<connVars, role, backup, gone, stateLock, isSeed>>

TryListed(f) ==
    /\ upc[f] = "peers" /\ Idle(f)
    /\ \E p \in todo[f] :
        /\ AddPeer(f, p)
        /\ todo' = [todo EXCEPT ![f] = @ \ {p}]
    /\ UNCHANGED <<gone, upc, isSeed>>

EndListed(f) ==
    /\ upc[f] = "peers" /\ Idle(f) /\ todo[f] = {}
    /\ upc' = [upc EXCEPT ![f] = "gone"]
    /\ UNCHANGED <<connVars, role, backup, black, gone, todo, stateLock, isSeed>>

IsConnected(p) == entry[p] = "live"

\* Mutant of DropGone: the peers that are still connected are dropped.
DropConnected(f, p) ==
    /\ MutexFree /\ StatesFree(f)
    /\ IsConnected(p)
    /\ SetRole(f, p, "absent")

\* A peer that was not connected at the end of the last round, and is not now.
DropGone(f, p) ==
    /\ MutexFree /\ StatesFree(f)
    /\ ~IsConnected(p)
    /\ SetRole(f, p, "absent")

\* Its place goes to a backup peer: the first is erased and the next, if
\* there is one, is added.
CheckGone(f) ==
    /\ upc[f] = "gone" /\ Idle(f)
    /\ \E p \in gone[f] :
        /\ gone' = [gone EXCEPT ![f] = @ \ {p}]
        /\ \/ MutexFree /\ IsConnected(p) /\ UNCHANGED <<connVars, role, backup, upc, todo>>
           \/ DropGone(f, p) /\ backup[f] = {} /\ UNCHANGED <<connVars, backup, upc, todo>>
           \/ /\ DropGone(f, p)
              /\ \E first \in backup[f] : backup' = [backup EXCEPT ![f] = @ \ {first}]
              /\ IF Cardinality(backup[f]) = 1
                 THEN fate' = "undefined" /\ UNCHANGED <<upc, todo>>
                 ELSE /\ \E next \in backup'[f] : todo' = [todo EXCEPT ![f] = {next}]
                      /\ upc' = [upc EXCEPT ![f] = "backup"]
                      /\ UNCHANGED fate
              /\ UNCHANGED <<entry, made, files, holder, accepting, job>>
    /\ UNCHANGED <<black, stateLock, isSeed>>

TryBackup(f) ==
    /\ upc[f] = "backup"
    /\ \E p \in todo[f] :
        /\ AddPeer(f, p)
        /\ todo' = [todo EXCEPT ![f] = @ \ {p}]
    /\ upc' = [upc EXCEPT ![f] = "gone"]
    /\ UNCHANGED <<gone, isSeed>>

\* The peers whose connection has ended are looked at again next time.
EndRound(f) ==
    /\ upc[f] = "gone" /\ Idle(f) /\ gone[f] = {} /\ MutexFree
    /\ gone' = [gone EXCEPT ![f] = {p \in Known(f) : ~IsConnected(p)}]
    /\ upc' = [upc EXCEPT ![f] = "list"]
    /\ UNCHANGED <<connVars, role, backup, black, todo, stateLock, isSeed>>

-----------------------------------------------------------------------------
(* The file handler's threads.                                             *)

\* A message comes over a connection: getPeerState adds a peer it does not
\* know, whatever their number.
GetPeerState(f, p) ==
    /\ StatesFree(f) /\ made[p] > 0 /\ role[f][p] = "absent"
    /\ SetRole(f, p, "known")
    /\ UNCHANGED <<connVars, backup, black, gone, todo, upc, stateLock, isSeed>>

\* fileInterested: getPeerState comes first, so that addConnectedPeer finds
\* the peer and at most makes it a backup.
PeerInterested(f, p) ==
    /\ StatesFree(f) /\ made[p] > 0 /\ role[f][p] # "interested" /\ ~isSeed[f]
    /\ SetRole(f, p, "known")
    /\ backup' = IF Cardinality(Known(f) \cup {p}) >= MaxPeers
                 THEN [backup EXCEPT ![f] = @ \cup {p}] ELSE backup
    /\ UNCHANGED <<connVars, black, gone, todo, upc, stateLock, isSeed>>

\* missingFile from a peer that is not interested: removePeer, after
\* getPeerState. A file that is not registered is an exception.
MissingFile(f, p) ==
    /\ StatesFree(f) /\ made[p] > 0 /\ job[Worker(f)] = NoJob
    /\ SetRole(f, p, "absent")
    /\ RemoveFile(Worker(f), f, p) \/ RemoveUnknown(Worker(f), f, p)
    /\ stateLock' = IF job'[Worker(f)].op = "disconnect" THEN [stateLock EXCEPT ![f] = Worker(f)]
                    ELSE stateLock
    /\ UNCHANGED <<backup, black, gone, todo, upc, isSeed>>

\* missingFile from a peer that is interested itself.
LoseInterest(f, p) ==
    /\ StatesFree(f) /\ role[f][p] = "interested"
    /\ SetRole(f, p, "known")
    /\ UNCHANGED <<connVars, backup, black, gone, todo, upc, stateLock, isSeed>>

RemoveReturns(f) ==
    /\ Disconnect(Worker(f))
    /\ stateLock' = [stateLock EXCEPT ![f] = Nobody]
    /\ UNCHANGED <<role, backup, black, gone, todo, upc, isSeed>>

\* Messages are sent to the peers that are known.
SendTo(f, p) ==
    /\ p \in Known(f)
    /\ BeginSend(Worker(f), p)
    /\ UNCHANGED managerVars

FinishedFile(f) ==
    /\ ~isSeed[f]
    /\ isSeed' = [isSeed EXCEPT ![f] = TRUE]
    /\ UNCHANGED <<connVars, role, backup, black, gone, todo, upc, stateLock>>

-----------------------------------------------------------------------------

UpdaterStep(f) ==
    \/ BeginRound(f) \/ TryListed(f) \/ EndListed(f) \/ CheckGone(f) \/ TryBackup(f) \/ EndRound(f)
    \/ AddReturns(f)

WorkerStep(f) ==
    \/ RemoveReturns(f)
    \/ \E p \in Peer : GetPeerState(f, p) \/ PeerInterested(f, p) \/ MissingFile(f, p) \/ LoseInterest(f, p)
                      \/ SendTo(f, p)

CallGoesOn(t) ==
    /\ \/ Connected(t) \/ NotConnected(t) \/ Register(t)
       \/ Send(t) \/ SendFails(t) \/ EraseEnded(t) \/ UseInvalid(t)
    /\ UNCHANGED managerVars

Ended == fate # "runs" /\ UNCHANGED vars

Next ==
    \/ Ended
    \/ /\ fate = "runs"
       /\ \/ \E f \in File : UpdaterStep(f) \/ WorkerStep(f) \/ FinishedFile(f)
          \/ \E t \in Thread : CallGoesOn(t)
          \/ Environment /\ UNCHANGED managerVars

Spec == Init /\ [][Next]_vars

\* Threads go on and attempts to connect end; an updater gets a mutex that
\* is free again and again. Peers and the user may do nothing.
FairSpec ==
    /\ Spec
    /\ WF_vars(fate = "runs" /\ (Accepted \/ NotAccepted) /\ UNCHANGED managerVars)
    /\ \A f \in File : /\ SF_vars(fate = "runs" /\ UpdaterStep(f))
                       /\ WF_vars(fate = "runs" /\ RemoveReturns(f))
    /\ \A t \in Thread : WF_vars(fate = "runs" /\ CallGoesOn(t))

-----------------------------------------------------------------------------
(* Properties.                                                             *)

\* A peer that a file downloads from is registered for it, so that its last
\* file can be removed and its connection ended: as long as the program works
\* on one file. With more, addFileForPeer answers true without registering
\* the file when another one was registered for the peer between the two
\* mutexes, or before an earlier connection ended.
InterestedIsRegistered ==
    Cardinality(File) = 1 =>
        \A f \in File, p \in Peer : role[f][p] = "interested" => f \in FilesOf(p)

\* A peer whose connection has ended is not kept among a file's peers, where
\* it would take the place of another.
DeadPeersLeave ==
    \A f \in File, p \in Peer :
        role[f][p] # "absent" /\ ~IsConnected(p)
        ~> role[f][p] = "absent" \/ IsConnected(p) \/ isSeed[f] \/ fate # "runs"
=============================================================================
