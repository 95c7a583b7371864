-------------------------- MODULE PeerConnections ---------------------------
(***************************************************************************)
(* The connections of one program (PeersConnectionManager): one for each   *)
(* peer, and the files each is used for. The threads of the files add and  *)
(* remove files and send messages; a thread of the manager accepts the     *)
(* requests of peers; connections end when the other side ends them.       *)
(* IceSignaling has the requests between the programs; here an attempt to  *)
(* connect just ends one way or the other.                                 *)
(***************************************************************************)
EXTENDS Naturals, FiniteSets, Functions

CONSTANTS
    Peer, File, Thread,
    Nobody,         \* no thread, no peer, no file
    Acceptor,       \* the thread shareIceData
    MaxConnections, \* MAXIMUM_CONNECTED_USERS
    MaxMade         \* bound: connections that are made

ASSUME ConnectionsAssumption ==
    /\ MaxConnections \in Nat /\ MaxMade \in Nat
    /\ Acceptor \notin Thread \cup {Nobody} /\ Nobody \notin Thread \cup Peer \cup File

VARIABLES
    entry,      \* _peerConnections: no entry, or one that is connected or ended
    made,       \* connections made with a peer, which tells them apart
    files,      \* _registeredPeersFiles
    holder,     \* who holds _mutexPeerConnections from one step to another
    accepting,  \* the peer whose request is accepted
    job,        \* the call that a thread is in
    fate        \* the program runs, met undefined behaviour, or was ended
                \* by an exception that nobody catches

connVars == <<entry, made, files, holder, accepting, job, fate>>

NoJob == [op |-> "none", file |-> Nobody, peer |-> Nobody, number |-> 0]

ConnInit ==
    /\ entry = [p \in Peer |-> "none"]
    /\ made = [p \in Peer |-> 0]
    /\ files = <<>>
    /\ holder = Nobody
    /\ accepting = Nobody
    /\ job = [t \in Thread |-> NoJob]
    /\ fate = "runs"

MutexFree == holder = Nobody

Call(t, op, f, p) == job' = [job EXCEPT ![t] = [op |-> op, file |-> f, peer |-> p, number |-> made[p]]]
Goto(t, op) == job' = [job EXCEPT ![t].op = op]

FilesOf(p) == IF p \in DOMAIN files THEN files[p] ELSE {}
Registered(p, used) == [q \in DOMAIN files \cup {p} |-> IF q = p THEN used ELSE files[q]]

\* The bound MaxMade.
MayMake == SumFunction(made) < MaxMade

NewConnection(p) ==
    /\ entry' = [entry EXCEPT ![p] = "live"]
    /\ made' = [made EXCEPT ![p] = @ + 1]

-----------------------------------------------------------------------------
(* addFileForPeer. Its answer is "added" or "refused", also when it throws *)
(* (the only caller catches that and does the same).                       *)

\* The attempt to connect is made with the mutex held.
BeginConnect(t, f, p) ==
    /\ job[t] = NoJob /\ MutexFree /\ entry[p] = "none"
    /\ holder' = t
    /\ Call(t, "connect", f, p)
    /\ UNCHANGED <<entry, made, files, accepting, fate>>

\* A peer with an entry, connected or not, is given the file.
AddKnown(t, f, p) ==
    /\ job[t] = NoJob /\ MutexFree /\ entry[p] # "none"
    /\ files' = Registered(p, FilesOf(p) \cup {f})
    /\ Call(t, IF f \in FilesOf(p) THEN "refused" ELSE "added", f, p)
    /\ UNCHANGED <<entry, made, holder, accepting, fate>>

AddFile(t, f, p) == BeginConnect(t, f, p) \/ AddKnown(t, f, p)

Connected(t) ==
    /\ job[t].op = "connect" /\ MayMake
    /\ NewConnection(job[t].peer)
    /\ holder' = Nobody
    /\ Goto(t, "register")
    /\ UNCHANGED <<files, accepting, fate>>

\* Mutant of NotConnected: the mutex stays locked.
NotConnectedLocked(t) ==
    /\ job[t].op = "connect"
    /\ Goto(t, "refused")
    /\ UNCHANGED <<entry, made, files, holder, accepting, fate>>

NotConnected(t) ==
    /\ job[t].op = "connect"
    /\ holder' = Nobody
    /\ Goto(t, "refused")
    /\ UNCHANGED <<entry, made, files, accepting, fate>>

\* Mutant of Register: without effect.
RegisterNothing(t) ==
    /\ job[t].op = "register"
    /\ Goto(t, "added")
    /\ UNCHANGED <<entry, made, files, holder, accepting, fate>>

\* insert does nothing when the peer still has files from before.
Register(t) ==
    /\ job[t].op = "register"
    /\ files' = IF job[t].peer \in DOMAIN files THEN files ELSE Registered(job[t].peer, {job[t].file})
    /\ Goto(t, "added")
    /\ UNCHANGED <<entry, made, holder, accepting, fate>>

\* The thread goes on with the answer.
Return(t) ==
    /\ job[t].op \in {"added", "refused"}
    /\ job' = [job EXCEPT ![t] = NoJob]
    /\ UNCHANGED <<entry, made, files, holder, accepting, fate>>

-----------------------------------------------------------------------------
(* removeFileFromPeer                                                      *)

RemoveFile(t, f, p) ==
    /\ job[t] = NoJob /\ f \in FilesOf(p)
    /\ IF files[p] = {f}
       THEN files' = Restrict(files, DOMAIN files \ {p}) /\ Call(t, "disconnect", f, p)
       ELSE files' = [files EXCEPT ![p] = @ \ {f}] /\ UNCHANGED job
    /\ UNCHANGED <<entry, made, holder, accepting, fate>>

\* The exception ends the program: the thread of the responses has no
\* handler for it.
RemoveUnknown(t, f, p) ==
    /\ job[t] = NoJob /\ f \notin FilesOf(p)
    /\ fate' = "exception"
    /\ UNCHANGED <<entry, made, files, holder, accepting, job>>

\* The connection is erased under the mutex of the files, not its own.
Disconnect(t) ==
    /\ job[t].op = "disconnect"
    /\ entry' = [entry EXCEPT ![job[t].peer] = "none"]
    /\ job' = [job EXCEPT ![t] = NoJob]
    /\ UNCHANGED <<made, files, holder, accepting, fate>>

-----------------------------------------------------------------------------
(* sendMessage                                                             *)

\* The entry is found under the mutex, and used without it ...
BeginSend(t, p) ==
    /\ job[t] = NoJob /\ MutexFree
    /\ Call(t, IF entry[p] = "none" THEN "sendunknown" ELSE "send", Nobody, p)
    /\ UNCHANGED <<entry, made, files, holder, accepting, fate>>

\* the one that was found is still there ...
Valid(t) == LET p == job[t].peer IN entry[p] # "none" /\ made[p] = job[t].number

\* ... and connected, ...
Send(t) ==
    /\ job[t].op = "send" /\ Valid(t) /\ entry[job[t].peer] = "live"
    /\ job' = [job EXCEPT ![t] = NoJob]
    /\ UNCHANGED <<entry, made, files, holder, accepting, fate>>

\* ... or has ended and is erased when the mutex is free again.
SendFails(t) ==
    /\ job[t].op = "send" /\ Valid(t) /\ entry[job[t].peer] = "ended"
    /\ Goto(t, "erase")
    /\ UNCHANGED <<entry, made, files, holder, accepting, fate>>

EraseEnded(t) ==
    /\ job[t].op = "erase" /\ Valid(t) /\ MutexFree
    /\ entry' = [entry EXCEPT ![job[t].peer] = "none"]
    /\ job' = [job EXCEPT ![t] = NoJob]
    /\ UNCHANGED <<made, files, holder, accepting, fate>>

\* The mutex of an entry that does not exist is locked.
UseInvalid(t) ==
    /\ \/ job[t].op = "sendunknown"
       \/ job[t].op \in {"send", "erase"} /\ ~Valid(t)
    /\ fate' = "undefined"
    /\ UNCHANGED <<entry, made, files, holder, accepting, job>>

-----------------------------------------------------------------------------
(* shareIceData, and the other side.                                       *)

Entries == {p \in Peer : entry[p] # "none"}

\* Mutant of Acceptable: a peer that is connected is accepted again.
AcceptAll(p) == Cardinality(Entries) <= MaxConnections

Acceptable(p) == entry[p] = "none" /\ Cardinality(Entries) <= MaxConnections

Accept(p) ==
    /\ MutexFree /\ Acceptable(p)
    /\ holder' = Acceptor
    /\ accepting' = p
    /\ UNCHANGED <<entry, made, files, job, fate>>

Accepted ==
    /\ holder = Acceptor /\ MayMake
    /\ NewConnection(accepting)
    /\ holder' = Nobody /\ accepting' = Nobody
    /\ UNCHANGED <<files, job, fate>>

NotAccepted ==
    /\ holder = Acceptor
    /\ holder' = Nobody /\ accepting' = Nobody
    /\ UNCHANGED <<entry, made, files, job, fate>>

ConnectionEnds(p) ==
    /\ entry[p] = "live"
    /\ entry' = [entry EXCEPT ![p] = "ended"]
    /\ UNCHANGED <<made, files, holder, accepting, job, fate>>

-----------------------------------------------------------------------------

\* What a thread does in a call that it has begun.
CallStep(t) ==
    \/ Connected(t) \/ NotConnected(t) \/ Register(t) \/ Disconnect(t)
    \/ Send(t) \/ SendFails(t) \/ EraseEnded(t) \/ UseInvalid(t)

Environment == Accepted \/ NotAccepted \/ \E p \in Peer : Accept(p) \/ ConnectionEnds(p)

ConnNext ==
    /\ fate = "runs"
    /\ \/ \E t \in Thread : CallStep(t) \/ Return(t)
       \/ \E t \in Thread, f \in File, p \in Peer :
            AddFile(t, f, p) \/ RemoveFile(t, f, p) \/ RemoveUnknown(t, f, p)
       \/ \E t \in Thread, p \in Peer : BeginSend(t, p)
       \/ Environment

ConnSpec == ConnInit /\ [][ConnNext]_connVars

\* Attempts to connect end (after a minute), threads go on, and a thread
\* gets a mutex that is free again and again.
FairConnSpec ==
    /\ ConnSpec
    /\ WF_connVars(fate = "runs" /\ (Accepted \/ NotAccepted))
    /\ \A t \in Thread : /\ WF_connVars(fate = "runs" /\ (CallStep(t) \/ Return(t)))
                         /\ SF_connVars(fate = "runs" /\ EraseEnded(t))

-----------------------------------------------------------------------------
(* Properties.                                                             *)

\* Whoever calls whom: a connection that is made never takes the place of
\* one that is in use or not yet erased.
NeverReplaced == [][\A p \in Peer : made'[p] # made[p] => entry[p] = "none"]_connVars

\* Every call ends: no path leaves the mutex locked that others wait for.
CallsEnd == \A t \in Thread : job[t] # NoJob ~> job[t] = NoJob \/ fate # "runs"
=============================================================================
