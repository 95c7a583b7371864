-------------------------- MODULE PeerManager_proofs --------------------------
(***************************************************************************)
(* Theorems about the peers of one program, for every number of threads,   *)
(* peers and files: no connection takes the place of another, a peer that  *)
(* is downloaded from can be removed, no thread is left receiving a list   *)
(* that no one will send, and no answer that is waited for is lost. And    *)
(* about what one connection sends: however its two senders alternate, no  *)
(* message is sent twice or dropped, and one sender keeps the order.       *)
(***************************************************************************)
EXTENDS PeerManager, PeerLists, IceConnection, FiniteSetTheorems, TLAPS

-----------------------------------------------------------------------------
(* The connections.                                                        *)

Job == [op : {"none", "connect", "register", "added", "refused", "disconnect",
              "send", "sendunknown", "erase"},
        file : File \cup {Nobody}, peer : Peer \cup {Nobody}, number : Nat]

ConnTypes ==
    /\ entry \in [Peer -> {"none", "live", "ended"}]
    /\ made \in [Peer -> Nat]
    /\ job \in [Thread -> Job]

\* Who connects holds the mutex, and the peer it connects to has no entry.
ConnectInv ==
    \A t \in Thread : job[t].op = "connect" =>
        holder = t /\ job[t].peer \in Peer /\ entry[job[t].peer] = "none"

\* So does the thread that accepts.
AcceptInv == holder = Acceptor => accepting \in Peer /\ entry[accepting] = "none"

ConnInv == ConnTypes /\ ConnectInv /\ AcceptInv

LEMMA Conn_Init == ConnInit => ConnInv
<1> SUFFICES ASSUME ConnInit PROVE ConnInv
    OBVIOUS
<1>1. NoJob \in Job /\ NoJob.op = "none"
    BY DEF NoJob, Job
<1>2. ConnTypes
    BY <1>1 DEF ConnInit, ConnTypes
<1>3. ConnectInv
    BY <1>1 DEF ConnInit, ConnectInv
<1>4. AcceptInv
    BY ConnectionsAssumption DEF ConnInit, AcceptInv
<1> QED
    BY <1>2, <1>3, <1>4 DEF ConnInv

-----------------------------------------------------------------------------
(* The steps.                                                              *)

\* What a step does to the call of a thread.
LEMMA GotoType ==
    ASSUME ConnTypes, NEW t \in Thread, Goto(t, "register") \/ Goto(t, "added") \/ Goto(t, "refused") \/ Goto(t, "erase")
    PROVE  job' \in [Thread -> Job] /\ job'[t].op # "connect" /\ \A u \in Thread \ {t} : job'[u] = job[u]
<1>1. PICK op \in {"register", "added", "refused", "erase"} : Goto(t, op)
    OBVIOUS
<1>2. [job[t] EXCEPT !.op = op] \in Job /\ [job[t] EXCEPT !.op = op].op = op
    BY DEF ConnTypes, Job
<1>3. job' = [job EXCEPT ![t] = [job[t] EXCEPT !.op = op]]
    BY <1>1 DEF Goto
<1> QED
    BY <1>2, <1>3 DEF ConnTypes

LEMMA CallType ==
    ASSUME ConnTypes, NEW t \in Thread, NEW f \in File \cup {Nobody}, NEW p \in Peer,
           NEW op \in {"connect", "added", "refused", "disconnect", "send", "sendunknown"},
           Call(t, op, f, p)
    PROVE  /\ job' \in [Thread -> Job] /\ job'[t].op = op /\ job'[t].peer = p
           /\ \A u \in Thread \ {t} : job'[u] = job[u]
    BY DEF Call, ConnTypes, Job

LEMMA NoJobType ==
    ASSUME ConnTypes, NEW t \in Thread, job' = [job EXCEPT ![t] = NoJob]
    PROVE  job' \in [Thread -> Job] /\ job'[t].op # "connect" /\ \A u \in Thread \ {t} : job'[u] = job[u]
<1>1. NoJob \in Job /\ NoJob.op = "none"
    BY DEF NoJob, Job
<1> QED
    BY <1>1 DEF ConnTypes

\* A thread whose call is not an attempt to connect disturbs no attempt.
LEMMA QuietStep ==
    ASSUME ConnInv, NEW t \in Thread, job' \in [Thread -> Job], job'[t].op # "connect" \/ job' = job,
           \A u \in Thread \ {t} : job'[u] = job[u], UNCHANGED <<made, holder, accepting>>,
           entry' \in [Peer -> {"none", "live", "ended"}],
           \A p \in Peer : entry[p] = "none" => entry'[p] = "none"
    PROVE  ConnInv'
    BY DEF ConnInv, ConnTypes, ConnectInv, AcceptInv

\* An attempt ends.
LEMMA AttemptEnds ==
    ASSUME ConnInv, NEW t \in Thread, job[t].op = "connect", holder' = Nobody,
           job' \in [Thread -> Job], job'[t].op # "connect",
           \A u \in Thread \ {t} : job'[u] = job[u], UNCHANGED accepting,
           entry' \in [Peer -> {"none", "live", "ended"}], made' \in [Peer -> Nat]
    PROVE  ConnInv'
    BY ConnectionsAssumption DEF ConnInv, ConnTypes, ConnectInv, AcceptInv

LEMMA NewType ==
    ASSUME ConnTypes, NEW p \in Peer, NewConnection(p)
    PROVE  entry' \in [Peer -> {"none", "live", "ended"}] /\ made' \in [Peer -> Nat]
    BY DEF ConnTypes, NewConnection

LEMMA Conn_Step ==
    ASSUME ConnInv, [ConnNext]_connVars
    PROVE  ConnInv'
<1>1. ConnTypes
    BY DEF ConnInv
<1> DEFINE EntryTypes == [Peer -> {"none", "live", "ended"}]
<1>2. entry \in EntryTypes
    BY <1>1 DEF ConnTypes
<1>3. ASSUME NEW t \in Thread, Connected(t) PROVE ConnInv'
    <2>1. job[t].peer \in Peer /\ NewConnection(job[t].peer)
        BY <1>3 DEF Connected, ConnInv, ConnectInv
    <2>2. /\ Goto(t, "register") /\ job[t].op = "connect" /\ holder' = Nobody
          /\ UNCHANGED accepting
        BY <1>3 DEF Connected
    <2> QED
        BY <1>1, <2>1, <2>2, NewType, GotoType, AttemptEnds
<1>4. ASSUME NEW t \in Thread, NotConnected(t) PROVE ConnInv'
    <2>1. /\ Goto(t, "refused") /\ job[t].op = "connect" /\ holder' = Nobody
          /\ UNCHANGED <<accepting, entry, made>>
        BY <1>4 DEF NotConnected
    <2> QED
        BY <1>1, <2>1, GotoType, AttemptEnds DEF ConnTypes
<1>5. ASSUME NEW t \in Thread, Register(t) \/ SendFails(t) PROVE ConnInv'
    <2>1. /\ Goto(t, "added") \/ Goto(t, "erase")
          /\ UNCHANGED <<entry, made, holder, accepting>>
        BY <1>5 DEF Register, SendFails
    <2> QED
        BY <1>1, <1>2, <2>1, GotoType, QuietStep
<1>6. ASSUME NEW t \in Thread, Disconnect(t) \/ EraseEnded(t) PROVE ConnInv'
    <2>1. /\ entry' = [entry EXCEPT ![job[t].peer] = "none"] /\ job' = [job EXCEPT ![t] = NoJob]
          /\ UNCHANGED <<made, holder, accepting>>
        BY <1>6 DEF Disconnect, EraseEnded
    <2>2. entry' \in EntryTypes /\ \A p \in Peer : entry[p] = "none" => entry'[p] = "none"
        BY <1>2, <2>1
    <2> QED
        BY <1>1, <2>1, <2>2, NoJobType, QuietStep
<1>7. ASSUME NEW t \in Thread, Send(t) \/ Return(t) PROVE ConnInv'
    <2>1. job' = [job EXCEPT ![t] = NoJob] /\ UNCHANGED <<entry, made, holder, accepting>>
        BY <1>7 DEF Send, Return
    <2> QED
        BY <1>1, <1>2, <2>1, NoJobType, QuietStep
<1>8. ASSUME UNCHANGED <<entry, made, holder, accepting, job>> PROVE ConnInv'
    BY <1>8 DEF ConnInv, ConnTypes, ConnectInv, AcceptInv
<1>9. ASSUME NEW t \in Thread, NEW f \in File, NEW p \in Peer, BeginConnect(t, f, p) PROVE ConnInv'
    <2>1. /\ holder = Nobody /\ holder' = t /\ entry[p] = "none" /\ Call(t, "connect", f, p)
          /\ UNCHANGED <<entry, made, accepting>>
        BY <1>9 DEF BeginConnect, MutexFree
    <2>2. /\ job' \in [Thread -> Job] /\ job'[t].peer = p
          /\ \A u \in Thread \ {t} : job'[u] = job[u]
        BY <1>1, <2>1, CallType
    <2> QED
        BY <2>1, <2>2, ConnectionsAssumption DEF ConnInv, ConnTypes, ConnectInv, AcceptInv
<1>10. ASSUME NEW t \in Thread, NEW f \in File, NEW p \in Peer, AddKnown(t, f, p) PROVE ConnInv'
    <2>1. /\ Call(t, "added", f, p) \/ Call(t, "refused", f, p)
          /\ UNCHANGED <<entry, made, holder, accepting>>
        BY <1>10 DEF AddKnown
    <2>2. /\ job' \in [Thread -> Job] /\ job'[t].op # "connect"
          /\ \A u \in Thread \ {t} : job'[u] = job[u]
        BY <1>1, <2>1, CallType
    <2> QED
        BY <1>2, <2>1, <2>2, QuietStep
<1>11. ASSUME NEW t \in Thread, NEW f \in File, NEW p \in Peer, RemoveFile(t, f, p) PROVE ConnInv'
    <2>1. UNCHANGED <<entry, made, holder, accepting>>
        BY <1>11 DEF RemoveFile
    <2>2. CASE Call(t, "disconnect", f, p)
        <3>1. /\ job' \in [Thread -> Job] /\ job'[t].op # "connect"
              /\ \A u \in Thread \ {t} : job'[u] = job[u]
            BY <1>1, <2>2, CallType
        <3> QED
            BY <1>2, <2>1, <3>1, QuietStep
    <2>3. CASE UNCHANGED job
        BY <1>8, <2>1, <2>3
    <2> QED
        BY <1>11, <2>2, <2>3 DEF RemoveFile
<1>12. ASSUME NEW t \in Thread, NEW p \in Peer, BeginSend(t, p) PROVE ConnInv'
    <2>1. /\ Call(t, "send", Nobody, p) \/ Call(t, "sendunknown", Nobody, p)
          /\ UNCHANGED <<entry, made, holder, accepting>>
        BY <1>12 DEF BeginSend
    <2>2. /\ job' \in [Thread -> Job] /\ job'[t].op # "connect"
          /\ \A u \in Thread \ {t} : job'[u] = job[u]
        BY <1>1, <2>1, CallType
    <2> QED
        BY <1>2, <2>1, <2>2, QuietStep
<1>13. CASE Accepted
    <2>1. /\ accepting \in Peer /\ NewConnection(accepting) /\ holder = Acceptor
          /\ holder' = Nobody /\ UNCHANGED job
        BY <1>13 DEF Accepted, ConnInv, AcceptInv
    <2> QED
        BY <1>1, <2>1, NewType, ConnectionsAssumption DEF ConnInv, ConnTypes, ConnectInv, AcceptInv
<1>14. CASE NotAccepted
    BY <1>14, ConnectionsAssumption DEF NotAccepted, ConnInv, ConnTypes, ConnectInv, AcceptInv
<1>15. ASSUME NEW p \in Peer, Accept(p) PROVE ConnInv'
    BY <1>15, ConnectionsAssumption
    DEF Accept, MutexFree, Acceptable, ConnInv, ConnTypes, ConnectInv, AcceptInv
<1>16. ASSUME NEW p \in Peer, ConnectionEnds(p) PROVE ConnInv'
    BY <1>16 DEF ConnectionEnds, ConnInv, ConnTypes, ConnectInv, AcceptInv
<1>17. ASSUME NEW t \in Thread, UseInvalid(t) PROVE ConnInv'
    BY <1>8, <1>17 DEF UseInvalid
<1>18. ASSUME NEW t \in Thread, NEW f \in File, NEW p \in Peer, RemoveUnknown(t, f, p) PROVE ConnInv'
    BY <1>8, <1>18 DEF RemoveUnknown
<1>19. CASE UNCHANGED connVars
    BY <1>8, <1>19 DEF connVars
<1> QED
    BY <1>3, <1>4, <1>5, <1>6, <1>7, <1>9, <1>10, <1>11, <1>12, <1>13, <1>14, <1>15, <1>16,
       <1>17, <1>18, <1>19
    DEF ConnNext, CallStep, AddFile, Environment

-----------------------------------------------------------------------------
(* The theorems.                                                           *)

\* What NeverReplaced says of a step; and that addFileForPeer, when it has
\* connected to a peer and answers true, has left files registered for the peer.
NoneReplaced == \A p \in Peer : made'[p] # made[p] => entry[p] = "none"
AddedHas == \A t \in Thread :
          job[t].op = "register" /\ job'[t].op = "added" => job[t].peer \in DOMAIN files'

\* A new connection comes from a thread that connects or from the one that
\* accepts, each of which has seen under the mutex that there is no entry.
LEMMA Replaced_Step ==
    ASSUME ConnInv, [ConnNext]_connVars
    PROVE  NoneReplaced
<1> USE DEF NoneReplaced
<1>1. ASSUME NEW q \in Peer, entry[q] = "none", made' = [made EXCEPT ![q] = @ + 1] PROVE NoneReplaced
    BY <1>1 DEF ConnInv, ConnTypes
<1>2. ASSUME NEW t \in Thread, Connected(t) PROVE NoneReplaced
    BY <1>1, <1>2 DEF Connected, NewConnection, ConnInv, ConnectInv
<1>3. CASE Accepted
    BY <1>1, <1>3 DEF Accepted, NewConnection, ConnInv, AcceptInv
<1>4. ASSUME UNCHANGED made PROVE NoneReplaced
    BY <1>4
<1>5. ASSUME NEW t \in Thread, CallStep(t) \/ Return(t) PROVE UNCHANGED made \/ Connected(t)
    BY <1>5 DEF CallStep, NotConnected, Register, Disconnect, Send, SendFails, EraseEnded,
                UseInvalid, Return
<1>6. ASSUME NEW t \in Thread, NEW f \in File, NEW p \in Peer,
             AddFile(t, f, p) \/ RemoveFile(t, f, p) \/ RemoveUnknown(t, f, p)
      PROVE  UNCHANGED made
    BY <1>6 DEF AddFile, BeginConnect, AddKnown, RemoveFile, RemoveUnknown
<1>7. ASSUME NEW t \in Thread, NEW p \in Peer, BeginSend(t, p) PROVE UNCHANGED made
    BY <1>7 DEF BeginSend
<1>8. CASE Environment
    BY <1>3, <1>4, <1>8 DEF Environment, NotAccepted, Accept, ConnectionEnds
<1>9. CASE UNCHANGED connVars
    BY <1>4, <1>9 DEF connVars
<1> QED
    BY <1>2, <1>4, <1>5, <1>6, <1>7, <1>8, <1>9 DEF ConnNext

\* So no connection takes the place of one that is used or not yet erased.
THEOREM ConnectionsNotReplaced == ConnSpec => NeverReplaced
<1>1. ConnInit => ConnInv
    BY Conn_Init
<1>2. ConnInv /\ [ConnNext]_connVars => ConnInv'
    BY Conn_Step
<1>3. ConnInv /\ [ConnNext]_connVars => [NoneReplaced]_connVars
    BY Replaced_Step
<1> QED
    BY <1>1, <1>2, <1>3, PTL DEF ConnSpec, NeverReplaced, NoneReplaced

\* When addFileForPeer has connected and answers true, the peer has files:
\* only the insert comes between the two.
LEMMA Added_Step ==
    ASSUME ConnInv, [ConnNext]_connVars
    PROVE  AddedHas
<1> SUFFICES ASSUME NEW t \in Thread, job[t].op = "register", job'[t].op = "added"
             PROVE  job[t].peer \in DOMAIN files'
    BY DEF AddedHas
<1>1. ConnTypes
    BY DEF ConnInv
<1>2. Register(t)
    <2>1. ASSUME NEW u \in Thread, \A v \in Thread \ {u} : job'[v] = job[v] PROVE u = t
        BY <2>1
    <2>2. ASSUME NEW u \in Thread, CallStep(u) \/ Return(u) PROVE Register(t)
        <3>1. CASE Register(u)
            <4>1. \A v \in Thread \ {u} : job'[v] = job[v]
                BY <1>1, <3>1, GotoType DEF Register
            <4> QED
                BY <2>1, <3>1, <4>1
        <3>2. CASE Connected(u) \/ NotConnected(u) \/ SendFails(u)
            <4>1. /\ Goto(u, "register") \/ Goto(u, "refused") \/ Goto(u, "erase")
                  /\ job[u].op # "register"
                BY <3>2 DEF Connected, NotConnected, SendFails
            <4>2. \A v \in Thread \ {u} : job'[v] = job[v]
                BY <1>1, <4>1, GotoType
            <4> QED
                BY <2>1, <4>1, <4>2
        <3>3. CASE Disconnect(u) \/ Send(u) \/ EraseEnded(u) \/ Return(u)
            <4>1. job' = [job EXCEPT ![u] = NoJob] /\ job[u].op # "register"
                BY <3>3 DEF Disconnect, Send, EraseEnded, Return
            <4>2. \A v \in Thread \ {u} : job'[v] = job[v]
                BY <1>1, <4>1, NoJobType
            <4> QED
                BY <2>1, <4>1, <4>2
        <3>4. CASE UseInvalid(u)
            BY <3>4 DEF UseInvalid
        <3> QED
            BY <2>2, <3>1, <3>2, <3>3, <3>4 DEF CallStep
    <2>3. ASSUME NEW u \in Thread, NEW f \in File \cup {Nobody}, NEW p \in Peer, job[u] = NoJob,
                 NEW op \in {"connect", "added", "refused", "disconnect", "send", "sendunknown"},
                 Call(u, op, f, p)
          PROVE  FALSE
        <3>1. \A v \in Thread \ {u} : job'[v] = job[v]
            BY <1>1, <2>3, CallType
        <3>2. u = t
            BY <2>1, <3>1
        <3> QED
            BY <2>3, <3>2 DEF NoJob
    <2>4. ASSUME NEW u \in Thread, NEW f \in File, NEW p \in Peer,
                 AddFile(u, f, p) \/ RemoveFile(u, f, p) \/ RemoveUnknown(u, f, p) PROVE FALSE
        <3>1. \/ job[u] = NoJob /\ \E op \in {"connect", "added", "refused", "disconnect"} :
                                       Call(u, op, f, p)
              \/ UNCHANGED job
            BY <2>4 DEF AddFile, BeginConnect, AddKnown, RemoveFile, RemoveUnknown
        <3> QED
            BY <2>3, <3>1
    <2>5. ASSUME NEW u \in Thread, NEW p \in Peer, BeginSend(u, p) PROVE FALSE
        <3>1. job[u] = NoJob /\ \E op \in {"send", "sendunknown"} : Call(u, op, Nobody, p)
            BY <2>5 DEF BeginSend
        <3> QED
            BY <2>3, <3>1
    <2>6. ~UNCHANGED job
        OBVIOUS
    <2>7. ~Environment /\ ~UNCHANGED connVars
        BY <2>6 DEF Environment, Accepted, NotAccepted, Accept, ConnectionEnds, connVars
    <2> QED
        BY <2>2, <2>4, <2>5, <2>7 DEF ConnNext
<1> QED
    BY <1>2 DEF Register, Registered

\* So its answer true means a peer that is registered.
THEOREM AddedHasFiles == ConnSpec => [][AddedHas]_connVars
<1>1. ConnInit => ConnInv
    BY Conn_Init
<1>2. ConnInv /\ [ConnNext]_connVars => ConnInv'
    BY Conn_Step
<1>3. ConnInv /\ [ConnNext]_connVars => [AddedHas]_connVars
    BY Added_Step
<1> QED
    BY <1>1, <1>2, <1>3, PTL DEF ConnSpec

-----------------------------------------------------------------------------
(* The peers of the files.                                                 *)

UpdaterOps == {"none", "connect", "register", "added", "refused"}
WorkerOps == {"none", "disconnect", "send", "sendunknown", "erase"}

RoleTypes ==
    /\ role \in [File -> [Peer -> {"absent", "known", "interested"}]]
    /\ stateLock \in [File -> Thread \cup {Nobody}]
    /\ backup \in [File -> SUBSET Peer] /\ todo \in [File -> SUBSET Peer]

\* A registered peer has a file.
FileTypes ==
    /\ DOMAIN files \subseteq Peer
    /\ \A p \in DOMAIN files : files[p] \subseteq File /\ files[p] # {}

\* An updater adds peers to its own file, with the file's mutex held.
UpdaterInv ==
    \A f \in File :
        /\ job[Updater(f)].op \in UpdaterOps
        /\ job[Updater(f)].op # "none" =>
            stateLock[f] = Updater(f) /\ job[Updater(f)].file = f /\ job[Updater(f)].peer \in Peer

\* A worker ends connections with that mutex held.
WorkerInv ==
    \A f \in File :
        /\ job[Worker(f)].op \in WorkerOps
        /\ job[Worker(f)].op = "disconnect" => stateLock[f] = Worker(f)

\* A file is registered for the peer of an answer true, and for the peers that
\* have become interesting by one.
AnswerInv ==
    \A f \in File : job[Updater(f)].op = "added" => f \in FilesOf(job[Updater(f)].peer)
InterestInv ==
    \A f \in File, p \in Peer : role[f][p] = "interested" => f \in FilesOf(p)

OneFile == \A f, g \in File : f = g

LockInv == RoleTypes /\ FileTypes /\ UpdaterInv /\ WorkerInv
RegInv == OneFile => AnswerInv /\ InterestInv
ManagerInv == ConnInv /\ LockInv /\ RegInv

\* The threads are two for each file, and no two of these are the same.
LEMMA Threads ==
    ASSUME NEW f \in File
    PROVE  /\ Updater(f) \in Thread /\ Worker(f) \in Thread
           /\ \A g \in File : Updater(f) # Worker(g)
           /\ \A g \in File : Updater(f) = Updater(g) \/ Worker(f) = Worker(g) => f = g
           /\ Nobody # Updater(f) /\ Nobody # Worker(f)
    BY ManagerAssumption, ConnectionsAssumption DEF Updater, Worker

LEMMA ThreadKinds ==
    ASSUME NEW t \in Thread
    PROVE  \E f \in File : t = Updater(f) \/ t = Worker(f)
    BY ManagerAssumption

\* At the start all threads are free and nothing is registered.
LEMMA Manager_Init == Init => ManagerInv
<1> SUFFICES ASSUME Init PROVE ManagerInv
    OBVIOUS
<1>1. ConnInv
    BY Conn_Init DEF Init
<1>2. \A t \in Thread : job[t] = NoJob /\ job[t].op = "none"
    BY DEF Init, ConnInit, NoJob
<1>3. DOMAIN files = {}
    BY DEF Init, ConnInit
<1>4. RoleTypes /\ FileTypes
    BY <1>3 DEF Init, RoleTypes, FileTypes
<1>5. UpdaterInv /\ WorkerInv /\ AnswerInv
    BY <1>2, Threads DEF UpdaterInv, WorkerInv, AnswerInv, UpdaterOps, WorkerOps
<1>6. InterestInv
    BY DEF Init, InterestInv
<1> QED
    BY <1>1, <1>4, <1>5, <1>6 DEF ManagerInv, LockInv, RegInv

-----------------------------------------------------------------------------
(* The steps of the connections are among those of the manager.            *)

\* Of the connections, addPeer at most adds the file.
LEMMA AddPeerStep ==
    ASSUME NEW f \in File, NEW p \in Peer, AddPeer(f, p)
    PROVE  UNCHANGED connVars \/ AddFile(Updater(f), f, p)
    BY DEF AddPeer, KeepAsBackup, AlreadyKnown, TryPeer

\* The updater goes on to a backup peer when it has erased the last: the
\* program ends in undefined behaviour, and no connection is touched.
NoBackupLeft ==
    fate' = "undefined" /\ UNCHANGED <<entry, made, files, holder, accepting, job>>

\* Apart from this an updater adds files and takes the answers, ...
LEMMA UpdaterConn ==
    ASSUME RoleTypes, NEW f \in File, UpdaterStep(f)
    PROVE  \/ UNCHANGED connVars \/ NoBackupLeft
           \/ \E p \in Peer : AddFile(Updater(f), f, p)
           \/ Return(Updater(f))
<1>1. CASE TryListed(f)
    BY <1>1, AddPeerStep DEF TryListed, RoleTypes
<1>2. CASE TryBackup(f)
    BY <1>2, AddPeerStep DEF TryBackup, RoleTypes
<1>3. CASE CheckGone(f)
    BY <1>3 DEF CheckGone, NoBackupLeft, connVars
<1>4. CASE BeginRound(f) \/ EndListed(f) \/ EndRound(f)
    BY <1>4 DEF BeginRound, EndListed, EndRound
<1>5. CASE AddReturns(f)
    BY <1>5 DEF AddReturns
<1> QED
    BY <1>1, <1>2, <1>3, <1>4, <1>5 DEF UpdaterStep

\* a worker removes files and sends, ...
LEMMA WorkerConn ==
    ASSUME NEW f \in File, WorkerStep(f)
    PROVE  \/ UNCHANGED connVars
           \/ \E p \in Peer : \/ RemoveFile(Worker(f), f, p) \/ RemoveUnknown(Worker(f), f, p)
                             \/ BeginSend(Worker(f), p)
           \/ Disconnect(Worker(f))
    BY DEF WorkerStep, RemoveReturns, GetPeerState, PeerInterested, MissingFile, LoseInterest, SendTo

\* and every step is one that the connections have by themselves.
LEMMA ManagerConn ==
    ASSUME RoleTypes, [Next]_vars
    PROVE  [ConnNext \/ NoBackupLeft]_connVars
<1>1. CASE UNCHANGED vars \/ Ended
    BY <1>1 DEF Ended, vars
<1>2. ASSUME NEW f \in File, UpdaterStep(f), fate = "runs"
      PROVE  [ConnNext \/ NoBackupLeft]_connVars
    BY <1>2, UpdaterConn, Threads DEF ConnNext
<1>3. ASSUME NEW f \in File, WorkerStep(f), fate = "runs"
      PROVE  [ConnNext \/ NoBackupLeft]_connVars
    BY <1>3, WorkerConn, Threads DEF ConnNext, CallStep
<1>4. ASSUME NEW f \in File, FinishedFile(f) PROVE UNCHANGED connVars
    BY <1>4 DEF FinishedFile
<1>5. ASSUME NEW t \in Thread, CallGoesOn(t), fate = "runs" PROVE ConnNext
    BY <1>5 DEF CallGoesOn, ConnNext, CallStep
<1>6. ASSUME Environment, fate = "runs" PROVE ConnNext
    BY <1>6 DEF ConnNext
<1> QED
    BY <1>1, <1>2, <1>3, <1>4, <1>5, <1>6 DEF Next

\* So the invariant of the connections holds here too.
LEMMA Manager_Conn ==
    ASSUME ConnInv, [ConnNext \/ NoBackupLeft]_connVars
    PROVE  ConnInv'
<1>1. CASE NoBackupLeft
    BY <1>1 DEF NoBackupLeft, ConnInv, ConnTypes, ConnectInv, AcceptInv
<1>2. CASE [ConnNext]_connVars
    BY <1>2, Conn_Step
<1> QED
    BY <1>1, <1>2

-----------------------------------------------------------------------------
(* The locks.                                                              *)

\* What a peer becomes for a file.
LEMMA RoleStep ==
    ASSUME RoleTypes, NEW f \in File, NEW p \in Peer, NEW r \in {"absent", "known", "interested"},
           SetRole(f, p, r)
    PROVE  /\ role' \in [File -> [Peer -> {"absent", "known", "interested"}]]
           /\ role'[f][p] = r
           /\ \A g \in File, q \in Peer : role'[g][q] = r \/ role'[g][q] = role[g][q]
           /\ \A g \in File, q \in Peer : g # f \/ q # p => role'[g][q] = role[g][q]
    BY DEF RoleTypes, SetRole

\* What a registration does to the files of the peers, ...
LEMMA RegisteredFiles ==
    ASSUME FileTypes, NEW p \in Peer, NEW used \in SUBSET File, used # {}, files' = Registered(p, used)
    PROVE  FileTypes' /\ FilesOf(p)' = used /\ \A q \in Peer : q # p => FilesOf(q)' = FilesOf(q)
    BY DEF FileTypes, FilesOf, Registered

\* and what a removal does.
LEMMA RemovedFile ==
    ASSUME FileTypes, NEW t, NEW f \in File, NEW p \in Peer, RemoveFile(t, f, p)
    PROVE  FileTypes' /\ \A q \in Peer : q # p => FilesOf(q)' = FilesOf(q)
<1>1. p \in DOMAIN files /\ f \in files[p]
    BY DEF RemoveFile, FilesOf
<1>2. CASE files[p] = {f}
    <2>1. files' = [q \in DOMAIN files \ {p} |-> files[q]]
        BY <1>2 DEF RemoveFile, Restrict
    <2> QED
        BY <2>1 DEF FileTypes, FilesOf
<1>3. CASE files[p] # {f}
    <2>1. files' = [files EXCEPT ![p] = @ \ {f}]
        BY <1>3 DEF RemoveFile
    <2>2. DOMAIN files' = DOMAIN files /\ files'[p] = files[p] \ {f}
        BY <1>1, <2>1
    <2>3. \A q \in DOMAIN files : q # p => files'[q] = files[q]
        BY <2>1
    <2> QED
        BY <1>1, <1>3, <2>2, <2>3 DEF FileTypes, FilesOf
<1> QED
    BY <1>2, <1>3

\* An updater goes on, with the mutex of its file or taking it.
LEMMA UpdaterMoves ==
    ASSUME LockInv, NEW f \in File, RoleTypes', FileTypes',
           \A t \in Thread \ {Updater(f)} : job'[t] = job[t],
           stateLock[f] \in {Nobody, Updater(f)},
           \A g \in File \ {f} : stateLock'[g] = stateLock[g],
           job'[Updater(f)].op \in UpdaterOps,
           job'[Updater(f)].op # "none" =>
               /\ stateLock'[f] = Updater(f)
               /\ job'[Updater(f)].file = f /\ job'[Updater(f)].peer \in Peer
    PROVE  LockInv'
<1>1. UpdaterInv'
    BY Threads DEF LockInv, UpdaterInv
<1>2. WorkerInv'
    BY Threads DEF LockInv, WorkerInv
<1> QED
    BY <1>1, <1>2 DEF LockInv

\* A worker goes on, without the mutex or with it.
LEMMA WorkerMoves ==
    ASSUME LockInv, NEW f \in File, RoleTypes', FileTypes',
           \A t \in Thread \ {Worker(f)} : job'[t] = job[t],
           stateLock'[f] = stateLock[f] \/ stateLock[f] \in {Nobody, Worker(f)},
           \A g \in File \ {f} : stateLock'[g] = stateLock[g],
           job'[Worker(f)].op \in WorkerOps,
           job'[Worker(f)].op = "disconnect" => stateLock'[f] = Worker(f)
    PROVE  LockInv'
<1>1. UpdaterInv'
    BY Threads DEF LockInv, UpdaterInv
<1>2. WorkerInv'
    BY Threads DEF LockInv, WorkerInv
<1> QED
    BY <1>1, <1>2 DEF LockInv

\* No thread goes on.
LEMMA NoneMoves ==
    ASSUME LockInv, RoleTypes', FileTypes', UNCHANGED <<job, stateLock>>
    PROVE  LockInv'
    BY DEF LockInv, UpdaterInv, WorkerInv

\* What a step does to the call of a thread, and that it leaves the others.
LEMMA GotoIs ==
    ASSUME ConnTypes, NEW t \in Thread, NEW op, Goto(t, op)
    PROVE  /\ job'[t].op = op /\ job'[t].file = job[t].file /\ job'[t].peer = job[t].peer
           /\ \A u \in Thread \ {t} : job'[u] = job[u]
    BY DEF Goto, ConnTypes, Job

LEMMA CallIs ==
    ASSUME ConnTypes, NEW t \in Thread, NEW op, NEW f, NEW p, Call(t, op, f, p)
    PROVE  /\ job'[t].op = op /\ job'[t].file = f /\ job'[t].peer = p
           /\ \A u \in Thread \ {t} : job'[u] = job[u]
    BY DEF Call, ConnTypes

LEMMA NoJobIs ==
    ASSUME ConnTypes, NEW t \in Thread, job' = [job EXCEPT ![t] = NoJob]
    PROVE  job'[t].op = "none" /\ \A u \in Thread \ {t} : job'[u] = job[u]
    BY DEF ConnTypes, NoJob

\* No file becomes interested in a peer or is taken from one, and no updater
\* gets the answer true.
LEMMA NoneAdded ==
    ASSUME LockInv, RegInv,
           \A f \in File, p \in Peer : f \in FilesOf(p) => f \in FilesOf(p)',
           \A f \in File, p \in Peer : role'[f][p] = "interested" => role[f][p] = "interested",
           \A f \in File : job'[Updater(f)].op = "added" => job'[Updater(f)] = job[Updater(f)]
    PROVE  RegInv'
<1> SUFFICES ASSUME OneFile PROVE AnswerInv' /\ InterestInv'
    BY DEF RegInv
<1>1. InterestInv'
    BY DEF RegInv, InterestInv
<1>2. ASSUME NEW f \in File, job'[Updater(f)].op = "added"
          PROVE (f \in FilesOf(job[Updater(f)].peer))'
    <2>1. job[Updater(f)].op = "added" /\ job'[Updater(f)].peer = job[Updater(f)].peer
        BY <1>2
    <2>2. f \in FilesOf(job[Updater(f)].peer) /\ job[Updater(f)].peer \in Peer
        BY <2>1 DEF RegInv, AnswerInv, LockInv, UpdaterInv
    <2>3. PICK p \in Peer : p = job[Updater(f)].peer
        BY <2>2
    <2>4. f \in FilesOf(p)'
        BY <2>2, <2>3
    <2> QED
        BY <2>1, <2>3, <2>4 DEF FilesOf
<1>3. AnswerInv'
    BY <1>2 DEF AnswerInv
<1> QED
    BY <1>1, <1>3

\* Neither calls nor files change, and no file becomes interested in a peer.
LEMMA RolesStep ==
    ASSUME ManagerInv, RoleTypes', UNCHANGED <<job, files, stateLock>>,
           \A f \in File, p \in Peer : role'[f][p] = "interested" => role[f][p] = "interested"
    PROVE  LockInv' /\ RegInv'
<1>1. FileTypes'
    BY DEF ManagerInv, LockInv, FileTypes
<1>2. LockInv'
    BY <1>1, NoneMoves DEF ManagerInv
<1>3. \A p \in Peer : FilesOf(p)' = FilesOf(p)
    BY DEF FilesOf
<1>4. RegInv'
    BY <1>3, NoneAdded DEF ManagerInv
<1> QED
    BY <1>2, <1>4

-----------------------------------------------------------------------------
(* The steps of the updaters.                                              *)

\* The updater's thread asks to add the file for the peer.
LEMMA TryPeer_Step ==
    ASSUME ManagerInv, NEW f \in File, NEW p \in Peer, TryPeer(f, p), RoleTypes'
    PROVE  LockInv' /\ RegInv'
<1> DEFINE t == Updater(f)
<1>1. ConnTypes /\ LockInv /\ RegInv /\ t \in Thread
    BY Threads DEF ManagerInv, ConnInv
<1>2. /\ stateLock[f] = Nobody /\ stateLock' = [stateLock EXCEPT ![f] = t] /\ UNCHANGED role
    BY DEF TryPeer, StatesFree
<1>3. stateLock'[f] = t /\ \A g \in File \ {f} : stateLock'[g] = stateLock[g]
    BY <1>1, <1>2 DEF LockInv, RoleTypes
<1>4. ASSUME BeginConnect(t, f, p) PROVE LockInv' /\ RegInv'
    <2>1. Call(t, "connect", f, p) /\ UNCHANGED files
        BY <1>4 DEF BeginConnect
    <2>2. /\ job'[t].op = "connect" /\ job'[t].file = f /\ job'[t].peer = p
          /\ \A u \in Thread \ {t} : job'[u] = job[u]
        BY <1>1, <2>1, CallIs
    <2>3. FileTypes'
        BY <1>1, <2>1 DEF LockInv, FileTypes
    <2>4. LockInv'
        BY <1>1, <1>2, <1>3, <2>2, <2>3, UpdaterMoves DEF UpdaterOps
    <2>5. \A g \in File : job'[Updater(g)].op = "added" => job'[Updater(g)] = job[Updater(g)]
        BY <2>2, Threads
    <2>6. RegInv'
        BY <1>1, <1>2, <2>1, <2>5, NoneAdded DEF FilesOf
    <2> QED
        BY <2>4, <2>6
<1>5. ASSUME AddKnown(t, f, p) PROVE LockInv' /\ RegInv'
    <2> DEFINE op == IF f \in FilesOf(p) THEN "refused" ELSE "added"
    <2>1. Call(t, op, f, p) /\ files' = Registered(p, FilesOf(p) \cup {f})
        BY <1>5 DEF AddKnown
    <2>2. /\ job'[t].op = op /\ job'[t].file = f /\ job'[t].peer = p
          /\ \A u \in Thread \ {t} : job'[u] = job[u]
        BY <1>1, <2>1, CallIs
    <2>3. FilesOf(p) \in SUBSET File
        BY <1>1 DEF LockInv, FileTypes, FilesOf
    <2>4. FilesOf(p) \cup {f} \in SUBSET File /\ FilesOf(p) \cup {f} # {}
        BY <2>3
    <2>5. /\ FileTypes' /\ FilesOf(p)' = FilesOf(p) \cup {f}
          /\ \A q \in Peer : q # p => FilesOf(q)' = FilesOf(q)
        BY <1>1, <2>1, <2>4, RegisteredFiles DEF LockInv
    <2>6. LockInv'
        BY <1>1, <1>2, <1>3, <2>2, <2>5, UpdaterMoves DEF UpdaterOps
    <2>7. ASSUME OneFile PROVE AnswerInv' /\ InterestInv'
        <3>1. \A g \in File : g = f
            BY <2>7 DEF OneFile
        <3>2. (f \in FilesOf(job[t].peer))'
            BY <2>2, <2>5 DEF FilesOf
        <3>3. AnswerInv'
            BY <3>1, <3>2 DEF AnswerInv
        <3>4. InterestInv'
            BY <1>1, <1>2, <2>5, <2>7 DEF InterestInv, RegInv
        <3> QED
            BY <3>3, <3>4
    <2> QED
        BY <2>6, <2>7 DEF RegInv
<1> QED
    BY <1>4, <1>5 DEF TryPeer, AddFile

\* addPeer, all of it.
LEMMA AddPeer_Step ==
    ASSUME ManagerInv, NEW f \in File, NEW p \in Peer, AddPeer(f, p), RoleTypes'
    PROVE  LockInv' /\ RegInv'
<1>1. ASSUME KeepAsBackup(f, p) \/ AlreadyKnown(f, p) PROVE LockInv' /\ RegInv'
    BY <1>1, RolesStep DEF KeepAsBackup, AlreadyKnown, connVars
<1> QED
    BY <1>1, TryPeer_Step DEF AddPeer

\* With the answer true the file is registered, and is interested then.
LEMMA AddReturns_Step ==
    ASSUME ManagerInv, NEW f \in File, AddReturns(f), RoleTypes'
    PROVE  LockInv' /\ RegInv'
<1> DEFINE t == Updater(f)
           p == job[t].peer
<1>1. ConnTypes /\ LockInv /\ RegInv /\ t \in Thread /\ RoleTypes
    BY Threads DEF ManagerInv, ConnInv, LockInv
<1>2. /\ job[t].op \in {"added", "refused"} /\ job' = [job EXCEPT ![t] = NoJob] /\ UNCHANGED files
      /\ stateLock' = [stateLock EXCEPT ![f] = Nobody]
    BY DEF AddReturns, Return
<1>3. job'[t].op = "none" /\ \A u \in Thread \ {t} : job'[u] = job[u]
    BY <1>1, <1>2, NoJobIs
<1>4. stateLock[f] = t /\ p \in Peer
    BY <1>1, <1>2 DEF LockInv, UpdaterInv
<1>5. \A g \in File \ {f} : stateLock'[g] = stateLock[g]
    BY <1>1, <1>2 DEF RoleTypes
<1>6. FileTypes' /\ \A q \in Peer : FilesOf(q)' = FilesOf(q)
    BY <1>1, <1>2 DEF LockInv, FileTypes, FilesOf
<1>7. LockInv'
    BY <1>1, <1>3, <1>4, <1>5, <1>6, UpdaterMoves DEF UpdaterOps
<1>8. ASSUME NEW g \in File, job'[Updater(g)].op = "added" PROVE job'[Updater(g)] = job[Updater(g)]
    BY <1>3, <1>8, Threads
<1>9. CASE job[t].op = "added" /\ SetRole(f, p, "interested")
    <2> SUFFICES ASSUME OneFile PROVE AnswerInv' /\ InterestInv'
        BY <1>7 DEF RegInv
    <2>1. /\ role'[f][p] = "interested"
          /\ \A g \in File, q \in Peer : g # f \/ q # p => role'[g][q] = role[g][q]
        BY <1>1, <1>4, <1>9, RoleStep
    <2>2. f \in FilesOf(p)
        BY <1>1, <1>9 DEF RegInv, AnswerInv
    <2>3. InterestInv'
        BY <1>1, <1>4, <1>6, <2>1, <2>2 DEF RegInv, InterestInv
    <2>4. AnswerInv'
        BY <1>3, Threads DEF OneFile, AnswerInv
    <2> QED
        BY <2>3, <2>4
<1>10. CASE UNCHANGED role
    <2>1. /\ \A g \in File, q \in Peer : g \in FilesOf(q) => g \in FilesOf(q)'
          /\ \A g \in File, q \in Peer : role'[g][q] = "interested" => role[g][q] = "interested"
        BY <1>6, <1>10
    <2>2. RegInv'
        BY <1>1, <1>8, <2>1, NoneAdded
    <2> QED
        BY <1>7, <2>2
<1> QED
    BY <1>7, <1>9, <1>10 DEF AddReturns

\* The lists of an updater are made of peers.
LEMMA Updater_Types ==
    ASSUME ConnTypes, LockInv, NEW f \in File, UpdaterStep(f)
    PROVE  RoleTypes'
<1>1. /\ RoleTypes /\ Updater(f) \in Thread
      /\ job[Updater(f)].op # "none" => job[Updater(f)].peer \in Peer
    BY Threads DEF LockInv, UpdaterInv
<1>2. ASSUME NEW p \in Peer, AddPeer(f, p), UNCHANGED todo \/ todo' = [todo EXCEPT ![f] = @ \ {p}]
      PROVE  RoleTypes'
    <2>1. CASE KeepAsBackup(f, p)
        BY <1>1, <1>2, <2>1 DEF KeepAsBackup, RoleTypes
    <2>2. CASE AlreadyKnown(f, p)
        BY <1>1, <1>2, <2>2 DEF AlreadyKnown, RoleTypes
    <2>3. CASE TryPeer(f, p)
        BY <1>1, <1>2, <2>3 DEF TryPeer, RoleTypes
    <2> QED
        BY <1>2, <2>1, <2>2, <2>3 DEF AddPeer
<1>3. CASE TryListed(f)
    <2>1. PICK p \in todo[f] : AddPeer(f, p) /\ todo' = [todo EXCEPT ![f] = @ \ {p}]
        BY <1>3 DEF TryListed
    <2>2. p \in Peer
        BY <1>1, <2>1 DEF RoleTypes
    <2> QED
        BY <1>2, <2>1, <2>2
<1>4. CASE TryBackup(f)
    <2>1. PICK p \in todo[f] : AddPeer(f, p) /\ todo' = [todo EXCEPT ![f] = @ \ {p}]
        BY <1>4 DEF TryBackup
    <2>2. p \in Peer
        BY <1>1, <2>1 DEF RoleTypes
    <2> QED
        BY <1>2, <2>1, <2>2
<1>5. CASE BeginRound(f)
    <2>1. PICK old \in SUBSET black[f], listed \in Lists : todo' = [todo EXCEPT ![f] = listed \ (black[f] \ old)]
        BY <1>5 DEF BeginRound
    <2>2. listed \ (black[f] \ old) \in SUBSET Peer
        BY <2>1, ManagerAssumption
    <2> QED
        BY <1>1, <1>5, <2>1, <2>2 DEF BeginRound, RoleTypes
<1>6. CASE EndListed(f) \/ EndRound(f)
    BY <1>1, <1>6 DEF EndListed, EndRound, RoleTypes
<1>7. CASE AddReturns(f)
    <2>1. UNCHANGED <<backup, todo>> /\ stateLock' = [stateLock EXCEPT ![f] = Nobody]
        BY <1>7 DEF AddReturns
    <2>2. role' \in [File -> [Peer -> {"absent", "known", "interested"}]]
        BY <1>1, <1>7, RoleStep DEF AddReturns, Return, RoleTypes
    <2> QED
        BY <1>1, <2>1, <2>2 DEF RoleTypes
<1>8. CASE CheckGone(f)
    <2>1. UNCHANGED stateLock
        BY <1>8 DEF CheckGone
    <2>2. UNCHANGED role \/ role' \in [File -> [Peer -> {"absent", "known", "interested"}]]
        <3>1. UNCHANGED role \/ \E p : role' = [role EXCEPT ![f][p] = "absent"]
            BY <1>8 DEF CheckGone, DropGone, SetRole
        <3>2. ASSUME NEW p, role' = [role EXCEPT ![f][p] = "absent"]
              PROVE  role' \in [File -> [Peer -> {"absent", "known", "interested"}]]
            <4>1. role[f] \in [Peer -> {"absent", "known", "interested"}]
                BY <1>1 DEF RoleTypes
            <4>2. [role[f] EXCEPT ![p] = "absent"] \in [Peer -> {"absent", "known", "interested"}]
                BY <4>1
            <4> QED
                BY <1>1, <3>2, <4>2 DEF RoleTypes
        <3> QED
            BY <3>1, <3>2
    <2>3. /\ UNCHANGED backup \/ \E first \in backup[f] : backup' = [backup EXCEPT ![f] = @ \ {first}]
          /\ UNCHANGED todo \/ \E next \in backup'[f] : todo' = [todo EXCEPT ![f] = {next}]
        BY <1>8 DEF CheckGone
    <2>4. backup' \in [File -> SUBSET Peer]
        BY <1>1, <2>3 DEF RoleTypes
    <2>5. todo' \in [File -> SUBSET Peer]
        BY <1>1, <2>3, <2>4 DEF RoleTypes
    <2> QED
        BY <1>1, <2>1, <2>2, <2>4, <2>5 DEF RoleTypes
<1> QED
    BY <1>3, <1>4, <1>5, <1>6, <1>7, <1>8 DEF UpdaterStep

\* All steps of an updater.
LEMMA Updater_Step ==
    ASSUME ManagerInv, NEW f \in File, UpdaterStep(f)
    PROVE  LockInv' /\ RegInv'
<1>1. RoleTypes' /\ RoleTypes
    BY Updater_Types DEF ManagerInv, ConnInv, LockInv
<1>2. CASE TryListed(f) \/ TryBackup(f)
    <2>1. PICK p \in todo[f] : AddPeer(f, p)
        BY <1>2 DEF TryListed, TryBackup
    <2>2. p \in Peer
        BY <1>1, <2>1 DEF RoleTypes
    <2> QED
        BY <1>1, <2>1, <2>2, AddPeer_Step
<1>3. CASE BeginRound(f) \/ EndListed(f) \/ EndRound(f)
    BY <1>1, <1>3, RolesStep DEF BeginRound, EndListed, EndRound, connVars
<1>4. CASE AddReturns(f)
    BY <1>1, <1>4, AddReturns_Step
<1>5. CASE CheckGone(f)
    <2>1. UNCHANGED <<job, files, stateLock>>
        BY <1>5 DEF CheckGone, connVars
    <2>2. UNCHANGED role \/ \E p : role' = [role EXCEPT ![f][p] = "absent"]
        BY <1>5 DEF CheckGone, DropGone, SetRole
    <2>3. \A g \in File, q \in Peer : role'[g][q] = "interested" => role[g][q] = "interested"
        BY <1>1, <2>2 DEF RoleTypes
    <2> QED
        BY <1>1, <2>1, <2>3, RolesStep
<1> QED
    BY <1>2, <1>3, <1>4, <1>5 DEF UpdaterStep

-----------------------------------------------------------------------------
(* The steps of the workers, and of calls that were begun.                 *)

\* A worker goes on and registers nothing.
LEMMA Worker_Quiet ==
    ASSUME ManagerInv, NEW f \in File, UNCHANGED <<files, role>>, RoleTypes',
           \A t \in Thread \ {Worker(f)} : job'[t] = job[t],
           stateLock'[f] = stateLock[f] \/ stateLock[f] = Worker(f),
           \A g \in File \ {f} : stateLock'[g] = stateLock[g],
           job'[Worker(f)].op \in WorkerOps \ {"disconnect"}
    PROVE  LockInv' /\ RegInv'
<1>1. LockInv /\ RegInv
    BY DEF ManagerInv
<1>2. FileTypes'
    BY <1>1 DEF LockInv, FileTypes
<1>3. LockInv'
    BY <1>1, <1>2, WorkerMoves
<1>4. \A g \in File : job'[Updater(g)] = job[Updater(g)]
    BY Threads
<1>5. \A p \in Peer : FilesOf(p)' = FilesOf(p)
    BY DEF FilesOf
<1>6. RegInv'
    BY <1>1, <1>4, <1>5, NoneAdded
<1> QED
    BY <1>3, <1>6

\* A worker removes its file from a peer, in which it is no longer interested.
LEMMA MissingFile_Step ==
    ASSUME ManagerInv, NEW f \in File, NEW p \in Peer, MissingFile(f, p)
    PROVE  LockInv' /\ RegInv'
<1> DEFINE t == Worker(f)
<1>1. ConnTypes /\ LockInv /\ RegInv /\ t \in Thread /\ RoleTypes /\ FileTypes
    BY Threads DEF ManagerInv, ConnInv, LockInv
<1>2. /\ stateLock[f] = Nobody /\ SetRole(f, p, "absent") /\ UNCHANGED <<backup, todo>>
      /\ stateLock' = IF job'[t].op = "disconnect" THEN [stateLock EXCEPT ![f] = t] ELSE stateLock
    BY DEF MissingFile, StatesFree
<1>3. /\ stateLock' \in [File -> Thread \cup {Nobody}]
      /\ \A g \in File \ {f} : stateLock'[g] = stateLock[g]
      /\ job'[t].op = "disconnect" => stateLock'[f] = t
    BY <1>1, <1>2 DEF RoleTypes
<1>4. /\ RoleTypes' /\ role'[f][p] = "absent"
      /\ \A g \in File, q \in Peer : g # f \/ q # p => role'[g][q] = role[g][q]
    BY <1>1, <1>2, <1>3, RoleStep DEF RoleTypes
<1>5. CASE RemoveFile(t, f, p)
    <2>1. FileTypes' /\ \A q \in Peer : q # p => FilesOf(q)' = FilesOf(q)
        BY <1>1, <1>5, RemovedFile
    <2>2. (job[t] = NoJob /\ Call(t, "disconnect", f, p)) \/ (job[t] = NoJob /\ UNCHANGED job)
        BY <1>5 DEF RemoveFile
    <2>3. job'[t].op \in {"none", "disconnect"} /\ \A u \in Thread \ {t} : job'[u] = job[u]
        <3>1. CASE Call(t, "disconnect", f, p)
            BY <1>1, <3>1, CallIs
        <3>2. CASE job[t] = NoJob /\ UNCHANGED job
            BY <3>2 DEF NoJob
        <3> QED
            BY <2>2, <3>1, <3>2
    <2>4. LockInv'
        BY <1>1, <1>2, <1>3, <1>4, <2>1, <2>3, WorkerMoves DEF WorkerOps
    <2>5. job[Updater(f)].op = "none"
        BY <1>1, <1>2, Threads DEF LockInv, UpdaterInv
    <2>6. ASSUME OneFile PROVE AnswerInv' /\ InterestInv'
        <3>1. \A g \in File : g = f
            BY <2>6 DEF OneFile
        <3>2. job'[Updater(f)].op = "none"
            BY <2>3, <2>5, Threads
        <3>3. AnswerInv'
            BY <3>1, <3>2 DEF AnswerInv
        <3>4. InterestInv'
            BY <1>1, <1>4, <2>1, <2>6, <3>1 DEF RegInv, InterestInv
        <3> QED
            BY <3>3, <3>4
    <2> QED
        BY <2>4, <2>6 DEF RegInv
<1>6. CASE RemoveUnknown(t, f, p)
    <2>1. UNCHANGED <<job, files>> /\ job[t] = NoJob
        BY <1>6 DEF RemoveUnknown
    <2>2. stateLock' = stateLock
        BY <1>2, <2>1 DEF NoJob
    <2>3. \A g \in File, q \in Peer : role'[g][q] = "interested" => role[g][q] = "interested"
        BY <1>4
    <2> QED
        BY <1>4, <2>1, <2>2, <2>3, RolesStep
<1> QED
    BY <1>5, <1>6 DEF MissingFile

\* All steps of a worker.
LEMMA Worker_Step ==
    ASSUME ManagerInv, NEW f \in File, WorkerStep(f)
    PROVE  LockInv' /\ RegInv'
<1> DEFINE t == Worker(f)
<1>1. ConnTypes /\ LockInv /\ t \in Thread /\ RoleTypes
    BY Threads DEF ManagerInv, ConnInv, LockInv
<1>2. ASSUME NEW p \in Peer, GetPeerState(f, p) \/ PeerInterested(f, p) \/ LoseInterest(f, p)
      PROVE  LockInv' /\ RegInv'
    <2>1. SetRole(f, p, "known") /\ UNCHANGED <<job, files, stateLock, todo>>
        BY <1>2 DEF GetPeerState, PeerInterested, LoseInterest, connVars
    <2>2. /\ role' \in [File -> [Peer -> {"absent", "known", "interested"}]]
          /\ \A g \in File, q \in Peer : role'[g][q] = "interested" => role[g][q] = "interested"
        BY <1>1, <2>1, RoleStep
    <2>3. UNCHANGED backup \/ backup' = [backup EXCEPT ![f] = @ \cup {p}]
        BY <1>2 DEF GetPeerState, PeerInterested, LoseInterest
    <2>4. backup' \in [File -> SUBSET Peer]
        BY <1>1, <2>3 DEF RoleTypes
    <2>5. RoleTypes'
        BY <1>1, <2>1, <2>2, <2>4 DEF RoleTypes
    <2> QED
        BY <2>1, <2>2, <2>5, RolesStep
<1>3. CASE RemoveReturns(f)
    <2>1. /\ job[t].op = "disconnect" /\ job' = [job EXCEPT ![t] = NoJob]
          /\ stateLock' = [stateLock EXCEPT ![f] = Nobody] /\ UNCHANGED <<files, role, backup, todo>>
        BY <1>3 DEF RemoveReturns, Disconnect
    <2>2. job'[t].op = "none" /\ \A u \in Thread \ {t} : job'[u] = job[u]
        BY <1>1, <2>1, NoJobIs
    <2>3. stateLock[f] = t /\ \A g \in File \ {f} : stateLock'[g] = stateLock[g]
        BY <1>1, <2>1 DEF LockInv, WorkerInv, RoleTypes
    <2>4. RoleTypes'
        BY <1>1, <2>1 DEF RoleTypes
    <2> QED
        BY <2>1, <2>2, <2>3, <2>4, Worker_Quiet DEF WorkerOps
<1>4. ASSUME NEW p \in Peer, SendTo(f, p) PROVE LockInv' /\ RegInv'
    <2>1. /\ Call(t, "send", Nobody, p) \/ Call(t, "sendunknown", Nobody, p)
          /\ UNCHANGED <<files, role, stateLock, backup, todo>>
        BY <1>4 DEF SendTo, BeginSend, managerVars
    <2>2. job'[t].op \in {"send", "sendunknown"} /\ \A u \in Thread \ {t} : job'[u] = job[u]
        BY <1>1, <2>1, CallIs
    <2>3. RoleTypes'
        BY <1>1, <2>1 DEF RoleTypes
    <2> QED
        BY <2>1, <2>2, <2>3, Worker_Quiet DEF WorkerOps
<1> QED
    BY <1>2, <1>3, <1>4, MissingFile_Step DEF WorkerStep

\* Who connects or registers is an updater, and who sends is a worker.
LEMMA Call_Step ==
    ASSUME ManagerInv, NEW t \in Thread, CallGoesOn(t)
    PROVE  LockInv' /\ RegInv'
<1>1. ConnTypes /\ LockInv /\ RegInv /\ RoleTypes /\ FileTypes
    BY DEF ManagerInv, ConnInv, LockInv
<1>2. UNCHANGED <<role, stateLock, backup, todo>>
    BY DEF CallGoesOn, managerVars
<1>3. RoleTypes'
    BY <1>1, <1>2 DEF RoleTypes
<1>4. CASE job[t].op \in {"connect", "register"}
    <2>1. PICK f \in File : t = Updater(f)
        BY <1>1, <1>4, ThreadKinds DEF LockInv, WorkerInv, WorkerOps
    <2>2. stateLock[f] = t /\ job[t].file = f /\ job[t].peer \in Peer
        BY <1>1, <1>4, <2>1 DEF LockInv, UpdaterInv
    <2>3. ASSUME NEW op \in UpdaterOps, Goto(t, op), FileTypes' PROVE LockInv'
        <3>1. /\ job'[t].op = op /\ job'[t].file = f /\ job'[t].peer \in Peer
              /\ \A u \in Thread \ {t} : job'[u] = job[u]
            BY <1>1, <2>2, <2>3, GotoIs
        <3> QED
            BY <1>1, <1>2, <1>3, <2>1, <2>2, <2>3, <3>1, UpdaterMoves
    <2>4. CASE Connected(t) \/ NotConnected(t)
        <3>1. /\ Goto(t, "register") \/ Goto(t, "refused")
              /\ UNCHANGED files
            BY <2>4 DEF Connected, NotConnected
        <3>2. FileTypes' /\ \A p \in Peer : FilesOf(p)' = FilesOf(p)
            BY <1>1, <3>1 DEF FileTypes, FilesOf
        <3>3. LockInv'
            BY <2>3, <3>1, <3>2 DEF UpdaterOps
        <3>4. job'[t].op # "added" /\ \A u \in Thread \ {t} : job'[u] = job[u]
            BY <1>1, <3>1, GotoIs
        <3>5. \A g \in File : job'[Updater(g)].op = "added" => job'[Updater(g)] = job[Updater(g)]
            BY <3>4, Threads
        <3>6. RegInv'
            BY <1>1, <1>2, <3>2, <3>5, NoneAdded
        <3> QED
            BY <3>3, <3>6
    <2>5. CASE Register(t)
        <3>0. PICK p \in Peer : p = job[t].peer
            BY <2>2
        <3>1. /\ Goto(t, "added")
              /\ files' = IF p \in DOMAIN files THEN files ELSE Registered(p, {f})
            BY <2>2, <2>5, <3>0 DEF Register
        <3>2. /\ FileTypes' /\ \A q \in Peer : FilesOf(q) \subseteq FilesOf(q)'
              /\ FilesOf(p)' # {}
            <4>1. CASE p \in DOMAIN files
                <5>1. UNCHANGED files
                    BY <3>1, <4>1
                <5>2. FileTypes' /\ \A q \in Peer : FilesOf(q)' = FilesOf(q)
                    BY <1>1, <5>1 DEF FileTypes, FilesOf
                <5>3. FilesOf(p) # {}
                    BY <1>1, <4>1 DEF FileTypes, FilesOf
                <5> QED
                    BY <5>2, <5>3
            <4>2. CASE p \notin DOMAIN files
                <5>1. files' = Registered(p, {f}) /\ FilesOf(p) = {}
                    BY <3>1, <4>2 DEF FilesOf
                <5> QED
                    BY <1>1, <5>1, RegisteredFiles
            <4> QED
                BY <4>1, <4>2
        <3>3. LockInv'
            BY <2>3, <3>1, <3>2 DEF UpdaterOps
        <3>4. job'[t].peer = p /\ \A u \in Thread \ {t} : job'[u] = job[u]
            BY <1>1, <3>0, <3>1, GotoIs
        <3>5. ASSUME OneFile PROVE AnswerInv' /\ InterestInv'
            <4>1. \A g \in File : g = f
                BY <3>5 DEF OneFile
            <4>2. FilesOf(p)' \subseteq File
                BY <3>2 DEF FileTypes, FilesOf
            <4>3. f \in FilesOf(p)'
                BY <3>2, <4>1, <4>2
            <4>4. (f \in FilesOf(job[t].peer))'
                BY <3>4, <4>3 DEF FilesOf
            <4>5. AnswerInv'
                BY <2>1, <4>1, <4>4 DEF AnswerInv
            <4>6. InterestInv'
                BY <1>1, <1>2, <3>2, <3>5 DEF RegInv, InterestInv
            <4> QED
                BY <4>5, <4>6
        <3> QED
            BY <3>3, <3>5 DEF RegInv
    <2>6. CASE UseInvalid(t)
        BY <1>4, <2>6 DEF UseInvalid
    <2> QED
        BY <1>4, <2>4, <2>5, <2>6 DEF CallGoesOn, Send, SendFails, EraseEnded
<1>5. CASE job[t].op \in {"send", "sendunknown", "erase"}
    <2>1. PICK f \in File : t = Worker(f)
        BY <1>1, <1>5, ThreadKinds DEF LockInv, UpdaterInv, UpdaterOps
    <2>2. CASE SendFails(t)
        <3>1. Goto(t, "erase") /\ UNCHANGED files
            BY <2>2 DEF SendFails
        <3>2. job'[t].op = "erase" /\ \A u \in Thread \ {t} : job'[u] = job[u]
            BY <1>1, <3>1, GotoIs
        <3> QED
            BY <1>2, <1>3, <2>1, <3>1, <3>2, Worker_Quiet DEF WorkerOps
    <2>3. CASE Send(t) \/ EraseEnded(t)
        <3>1. job' = [job EXCEPT ![t] = NoJob] /\ UNCHANGED files
            BY <2>3 DEF Send, EraseEnded
        <3>2. job'[t].op = "none" /\ \A u \in Thread \ {t} : job'[u] = job[u]
            BY <1>1, <3>1, NoJobIs
        <3> QED
            BY <1>2, <1>3, <2>1, <3>1, <3>2, Worker_Quiet DEF WorkerOps
    <2>4. CASE UseInvalid(t)
        <3>1. UNCHANGED <<job, files>>
            BY <2>4 DEF UseInvalid
        <3> QED
            BY <1>2, <1>3, <3>1, RolesStep
    <2> QED
        BY <1>5, <2>2, <2>3, <2>4 DEF CallGoesOn, Connected, NotConnected, Register
<1> QED
    BY <1>4, <1>5 DEF CallGoesOn, Connected, NotConnected, Register, Send, SendFails, EraseEnded, UseInvalid

\* All steps.
LEMMA Manager_Step ==
    ASSUME ManagerInv, [Next]_vars
    PROVE  ManagerInv'
<1>1. ConnInv'
    BY ManagerConn, Manager_Conn DEF ManagerInv, LockInv
<1>2. LockInv' /\ RegInv'
    <2>1. ASSUME UNCHANGED <<job, files, managerVars>> PROVE LockInv' /\ RegInv'
        <3>1. RoleTypes'
            BY <2>1 DEF ManagerInv, LockInv, RoleTypes, managerVars
        <3> QED
            BY <2>1, <3>1, RolesStep DEF managerVars
    <2>2. CASE UNCHANGED vars \/ Ended
        BY <2>1, <2>2 DEF Ended, vars, connVars
    <2>3. CASE Environment /\ UNCHANGED managerVars
        BY <2>1, <2>3 DEF Environment, Accepted, NotAccepted, Accept, ConnectionEnds
    <2>4. ASSUME NEW f \in File, FinishedFile(f) PROVE LockInv' /\ RegInv'
        <3>1. RoleTypes'
            BY <2>4 DEF FinishedFile, ManagerInv, LockInv, RoleTypes
        <3> QED
            BY <2>4, <3>1, RolesStep DEF FinishedFile, connVars
    <2> QED
        BY <2>2, <2>3, <2>4, Updater_Step, Worker_Step, Call_Step DEF Next
<1> QED
    BY <1>1, <1>2 DEF ManagerInv

\* With one file, a peer that it downloads from is registered for it: the
\* answer true says that it is, and it is removed only together with the
\* interest in the peer, under the file's mutex, which the updater holds until
\* it has taken the answer.
THEOREM InterestedAreRegistered == Spec => []InterestedIsRegistered
<1>1. ASSUME Cardinality(File) = 1 PROVE OneFile
    <2>1. PICK f : File = {f}
        BY <1>1, ManagerAssumption, FS_Singleton
    <2> QED
        BY <2>1 DEF OneFile
<1>2. ManagerInv => InterestedIsRegistered
    BY <1>1 DEF ManagerInv, RegInv, InterestInv, InterestedIsRegistered
<1>3. Init => ManagerInv
    BY Manager_Init
<1>4. ManagerInv /\ [Next]_vars => ManagerInv'
    BY Manager_Step
<1> QED
    BY <1>2, <1>3, <1>4, PTL DEF Spec

\* However many files call it, what the manager does to the connections is what
\* PeerConnections lets its threads do, with the same start, up to the step
\* that ends the program without touching them.
THEOREM ConnectionsImplemented == Spec => ConnInit /\ [][ConnNext \/ NoBackupLeft]_connVars
<1>1. Init => ConnInit
    BY DEF Init
<1>2. ManagerInv /\ [Next]_vars => [ConnNext \/ NoBackupLeft]_connVars
    BY ManagerConn DEF ManagerInv, LockInv
<1>3. Init => ManagerInv
    BY Manager_Init
<1>4. ManagerInv /\ [Next]_vars => ManagerInv'
    BY Manager_Step
<1> QED
    BY <1>1, <1>2, <1>3, <1>4, PTL DEF Spec

\* So with the peer managers of all files at work, no connection takes the
\* place of one that is used or not yet erased.
THEOREM ManagersReplaceNone == Spec => NeverReplaced
<1>1. ASSUME ConnInv, [ConnNext \/ NoBackupLeft]_connVars PROVE NoneReplaced
    BY <1>1, Replaced_Step DEF NoBackupLeft, NoneReplaced
<1>2. ConnInit => ConnInv
    BY Conn_Init
<1>3. ConnInv /\ [ConnNext \/ NoBackupLeft]_connVars => ConnInv'
    BY Manager_Conn
<1>4. ConnInv /\ [ConnNext \/ NoBackupLeft]_connVars => [NoneReplaced]_connVars
    BY <1>1
<1> QED
    BY <1>2, <1>3, <1>4, ConnectionsImplemented, PTL DEF NeverReplaced, NoneReplaced

-----------------------------------------------------------------------------
(* The lists.                                                              *)

ListTypes ==
    /\ pc \in [Manager -> {"idle", "receive", "share", "enter", "wait", "woken"}]
    /\ requests \in Seq(Manager)
    /\ inbox \in Seq(Manager)
    /\ held \in [Manager -> SUBSET Manager]
    /\ messagesSet \in SUBSET Manager

\* The threads that receive.
Receivers == {m \in Manager : pc[m] = "receive"}

InQueue(s, m) == \E i \in DOMAIN s : s[i] = m

\* The answer of a manager lies somewhere, or its request does.
OnItsWay(m) ==
    \/ m \in messagesSet
    \/ \E n \in Manager : m \in held[n]
    \/ InQueue(requests, m)
    \/ InQueue(inbox, m)

\* A manager has an answer on its way from its request to its return, and it
\* holds a foreign one only while it is about to share it.
WayInv ==
    \A m \in Manager :
        /\ pc[m] # "idle" => OnItsWay(m)
        /\ pc[m] # "share" => held[m] = {}

ListsInv == ListTypes /\ OneListEach /\ WayInv

-----------------------------------------------------------------------------
(* Queues.                                                                 *)

LEMMA AppendQueue ==
    ASSUME NEW s \in Seq(Manager), NEW m \in Manager
    PROVE  /\ Append(s, m) \in Seq(Manager) /\ Len(Append(s, m)) = Len(s) + 1
           /\ \A n : InQueue(s, n) => InQueue(Append(s, m), n)
           /\ InQueue(Append(s, m), m)
<1>1. /\ Append(s, m) \in Seq(Manager) /\ Len(Append(s, m)) = Len(s) + 1
      /\ Append(s, m)[Len(s) + 1] = m /\ Len(s) + 1 \in DOMAIN Append(s, m)
    OBVIOUS
<1>2. \A i \in DOMAIN s : i \in DOMAIN Append(s, m) /\ Append(s, m)[i] = s[i]
    OBVIOUS
<1> QED
    BY <1>1, <1>2 DEF InQueue

LEMMA TailQueue ==
    ASSUME NEW s \in Seq(Manager), s # <<>>
    PROVE  /\ Head(s) \in Manager /\ Tail(s) \in Seq(Manager) /\ Len(s) = Len(Tail(s)) + 1
           /\ \A n : InQueue(s, n) => n = Head(s) \/ InQueue(Tail(s), n)
<1>1. Head(s) \in Manager /\ Tail(s) \in Seq(Manager) /\ Head(s) = s[1] /\ Len(s) = Len(Tail(s)) + 1
    OBVIOUS
<1>2. \A i \in DOMAIN s : i # 1 => i - 1 \in DOMAIN Tail(s) /\ Tail(s)[i - 1] = s[i]
    OBVIOUS
<1> QED
    BY <1>1, <1>2 DEF InQueue

-----------------------------------------------------------------------------
(* The count of the receivers.                                             *)

LEMMA ReceiversFinite == IsFiniteSet(Receivers) /\ Cardinality(Receivers) \in Nat
<1>1. IsFiniteSet(Manager) /\ Receivers \subseteq Manager
    BY BoundsAssumption DEF Receivers
<1> QED
    BY <1>1, FS_Subset, FS_CardinalityType

LEMMA OneMore ==
    ASSUME NEW m \in Manager, m \notin Receivers, Receivers' = Receivers \cup {m}
    PROVE  Cardinality(Receivers)' = Cardinality(Receivers) + 1
    BY ReceiversFinite, FS_AddElement

LEMMA OneLess ==
    ASSUME NEW m \in Receivers, Receivers' = Receivers \ {m}
    PROVE  Cardinality(Receivers)' = Cardinality(Receivers) - 1
    BY ReceiversFinite, FS_RemoveElement

-----------------------------------------------------------------------------
(* The steps.                                                              *)

LEMMA Lists_Init == ListsInit => ListsInv
<1> SUFFICES ASSUME ListsInit PROVE ListsInv
    OBVIOUS
<1>1. ListTypes /\ WayInv
    BY DEF ListsInit, ListTypes, WayInv
<1>2. Receivers = {} /\ Len(requests) + Len(inbox) = 0
    BY DEF ListsInit, Receivers
<1>3. OneListEach
    BY <1>2, FS_EmptySet DEF OneListEach, Receivers
<1> QED
    BY <1>1, <1>3 DEF ListsInv

LEMMA ListTypes_Step ==
    ASSUME ListTypes, [ListsNext]_listVars
    PROVE  ListTypes'
<1> USE DEF ListTypes
<1>1. CASE Serve
    BY <1>1, AppendQueue, TailQueue DEF Serve
<1>2. ASSUME NEW m \in Manager, Request(m) PROVE ListTypes'
    BY <1>2, AppendQueue DEF Request
<1>3. ASSUME NEW m \in Manager, Receive(m) PROVE ListTypes'
    <2>1. inbox' \in Seq(Manager) /\ Head(inbox) \in Manager
        BY <1>3, TailQueue DEF Receive
    <2>2. CASE ReturnList(m) /\ UNCHANGED held
        BY <1>3, <2>1, <2>2 DEF Receive, ReturnList
    <2>3. CASE KeepForeign(m)
        BY <1>3, <2>1, <2>3 DEF Receive, KeepForeign
    <2> QED
        BY <1>3, <2>2, <2>3 DEF Receive
<1>4. ASSUME NEW m \in Manager, Share(m) PROVE ListTypes'
    BY <1>4 DEF Share
<1>5. ASSUME NEW m \in Manager, EnterWait(m) \/ WakeEarly(m) \/ Look(m) PROVE ListTypes'
    BY <1>5 DEF EnterWait, WakeEarly, Look, ReturnList
<1>6. CASE UNCHANGED listVars
    BY <1>6 DEF listVars
<1> QED
    BY <1>1, <1>2, <1>3, <1>4, <1>5, <1>6 DEF ListsNext, ManagerStep

LEMMA Count_Step ==
    ASSUME ListTypes, OneListEach, [ListsNext]_listVars
    PROVE  OneListEach'
<1>1. /\ Len(requests) \in Nat /\ Len(inbox) \in Nat /\ Cardinality(Receivers) \in Nat
      /\ Cardinality(Receivers) = Len(requests) + Len(inbox)
    BY ReceiversFinite DEF ListTypes, OneListEach, Receivers
<1>2. SUFFICES Cardinality(Receivers)' = Len(requests') + Len(inbox')
    BY DEF OneListEach, Receivers
<1>3. CASE Serve
    <2>1. /\ Len(inbox') = Len(inbox) + 1 /\ Len(requests) = Len(requests') + 1
          /\ Len(requests') \in Nat
        BY <1>3, AppendQueue, TailQueue DEF Serve, ListTypes
    <2>2. Receivers' = Receivers
        BY <1>3 DEF Serve, Receivers
    <2> QED
        BY <1>1, <2>1, <2>2
<1>4. ASSUME NEW m \in Manager, Request(m) PROVE Cardinality(Receivers)' = Len(requests') + Len(inbox')
    <2>1. Len(requests') = Len(requests) + 1 /\ inbox' = inbox
        BY <1>4, AppendQueue DEF Request, ListTypes
    <2>2. m \notin Receivers /\ Receivers' = Receivers \cup {m}
        BY <1>4 DEF Request, Receivers, ListTypes
    <2>3. Cardinality(Receivers)' = Cardinality(Receivers) + 1
        BY <2>2, OneMore
    <2> QED
        BY <1>1, <2>1, <2>3
<1>5. ASSUME NEW m \in Manager, Receive(m) PROVE Cardinality(Receivers)' = Len(requests') + Len(inbox')
    <2>1. Len(inbox) = Len(inbox') + 1 /\ requests' = requests /\ Len(inbox') \in Nat
        BY <1>5, TailQueue DEF Receive, ListTypes
    <2>2. m \in Receivers /\ Receivers' = Receivers \ {m}
        BY <1>5 DEF Receive, ReturnList, KeepForeign, Receivers, ListTypes
    <2>3. Cardinality(Receivers)' = Cardinality(Receivers) - 1
        BY <2>2, OneLess
    <2> QED
        BY <1>1, <2>1, <2>3
<1>6. ASSUME Receivers' = Receivers, UNCHANGED <<requests, inbox>>
      PROVE  Cardinality(Receivers)' = Len(requests') + Len(inbox')
    BY <1>1, <1>6
<1>7. ASSUME NEW m \in Manager, Share(m) \/ EnterWait(m) \/ WakeEarly(m) \/ Look(m)
      PROVE  Receivers' = Receivers /\ UNCHANGED <<requests, inbox>>
    BY <1>7 DEF Share, EnterWait, WakeEarly, Look, ReturnList, Waiting, Receivers, ListTypes
<1>8. CASE UNCHANGED listVars
    BY <1>6, <1>8 DEF listVars, Receivers
<1> QED
    BY <1>3, <1>4, <1>5, <1>6, <1>7, <1>8 DEF ListsNext, ManagerStep

\* The answer of a manager is only taken by a manager that holds or returns it.
LEMMA Way_Step ==
    ASSUME ListTypes, WayInv, [ListsNext]_listVars
    PROVE  WayInv'
<1> DEFINE Kept(n) == OnItsWay(n) => OnItsWay(n)'
<1>1. CASE Serve
    <2>1. /\ Head(requests) \in Manager /\ requests' = Tail(requests) /\ requests # <<>>
          /\ inbox' = Append(inbox, Head(requests)) /\ UNCHANGED <<pc, held, messagesSet>>
        BY <1>1, TailQueue DEF Serve, ListTypes
    <2>2. \A n : InQueue(requests, n) => n = Head(requests) \/ InQueue(requests', n)
        BY <2>1, TailQueue DEF ListTypes
    <2>3. /\ \A n : InQueue(inbox, n) => InQueue(inbox', n)
          /\ InQueue(inbox', Head(requests))
        BY <2>1, AppendQueue DEF ListTypes
    <2>4. ASSUME NEW n \in Manager PROVE Kept(n)
        BY <2>1, <2>2, <2>3 DEF OnItsWay
    <2> QED
        BY <2>1, <2>4 DEF WayInv
<1>2. ASSUME NEW m \in Manager, Request(m) PROVE WayInv'
    <2>1. /\ requests' = Append(requests, m) /\ UNCHANGED <<inbox, held, messagesSet>>
          /\ pc[m] = "idle" /\ pc' = [pc EXCEPT ![m] = "receive"]
        BY <1>2 DEF Request
    <2>2. /\ \A n : InQueue(requests, n) => InQueue(requests', n)
          /\ InQueue(requests', m)
        BY <2>1, AppendQueue DEF ListTypes
    <2>3. ASSUME NEW n \in Manager PROVE Kept(n)
        BY <2>1, <2>2 DEF OnItsWay
    <2>4. OnItsWay(m)'
        BY <2>2 DEF OnItsWay
    <2> QED
        BY <2>1, <2>3, <2>4 DEF WayInv, ListTypes
<1>3. ASSUME NEW m \in Manager, Receive(m) PROVE WayInv'
    <2>1. /\ pc[m] = "receive" /\ inbox # <<>> /\ inbox' = Tail(inbox) /\ Head(inbox) \in Manager
          /\ UNCHANGED <<requests, messagesSet>>
        BY <1>3, TailQueue DEF Receive, ListTypes
    <2>2. \A n : InQueue(inbox, n) => n = Head(inbox) \/ InQueue(inbox', n)
        BY <2>1, TailQueue DEF ListTypes
    <2>3. held[m] = {}
        BY <2>1 DEF WayInv
    <2>4. CASE Head(inbox) = m /\ ReturnList(m) /\ UNCHANGED held
        <3>1. ASSUME NEW n \in Manager, n # m PROVE Kept(n)
            BY <2>1, <2>2, <2>4, <3>1 DEF OnItsWay
        <3> QED
            BY <2>3, <2>4, <3>1 DEF ReturnList, WayInv, ListTypes
    <2>5. CASE KeepForeign(m)
        <3>1. /\ held' = [held EXCEPT ![m] = {Head(inbox)}] /\ pc' = [pc EXCEPT ![m] = "share"]
              /\ Head(inbox) \in held'[m]
            BY <2>5 DEF KeepForeign, ListTypes
        <3>2. \A n, q \in Manager : n \in held[q] => n \in held'[q]
            BY <2>3, <3>1 DEF ListTypes
        <3>3. ASSUME NEW n \in Manager PROVE Kept(n)
            BY <2>1, <2>2, <3>1, <3>2 DEF OnItsWay
        <3> QED
            BY <2>1, <3>1, <3>3 DEF WayInv, ListTypes
    <2> QED
        BY <1>3, <2>4, <2>5 DEF Receive
<1>4. ASSUME NEW m \in Manager, Share(m) PROVE WayInv'
    <2>1. /\ pc[m] = "share" /\ messagesSet' = messagesSet \cup held[m]
          /\ held' = [held EXCEPT ![m] = {}] /\ UNCHANGED <<requests, inbox>>
        BY <1>4 DEF Share
    <2>2. ASSUME NEW n \in Manager PROVE Kept(n)
        BY <2>1 DEF OnItsWay, ListTypes
    <2>3. \A n \in Manager : /\ pc'[n] # "idle" => pc[n] # "idle"
                             /\ pc'[n] # "share" => n = m \/ pc[n] # "share"
        BY <1>4, <2>1 DEF Share, Waiting, ListTypes
    <2> QED
        BY <2>1, <2>2, <2>3 DEF WayInv, ListTypes
<1>5. ASSUME NEW m \in Manager, EnterWait(m) \/ WakeEarly(m) \/ Look(m) PROVE WayInv'
    <2>1. UNCHANGED <<requests, inbox, held, messagesSet>>
        BY <1>5 DEF EnterWait, WakeEarly, Look
    <2>2. ASSUME NEW n \in Manager PROVE Kept(n)
        BY <2>1 DEF OnItsWay
    <2>3. \A n \in Manager : /\ pc'[n] # "idle" => pc[n] # "idle"
                             /\ pc'[n] # "share" => pc[n] # "share"
        BY <1>5 DEF EnterWait, WakeEarly, Look, ReturnList, Waiting, ListTypes
    <2> QED
        BY <2>1, <2>2, <2>3 DEF WayInv
<1>6. CASE UNCHANGED listVars
    BY <1>6 DEF listVars, WayInv, OnItsWay
<1> QED
    BY <1>1, <1>2, <1>3, <1>4, <1>5, <1>6 DEF ListsNext, ManagerStep

LEMMA ListsInvariant == ListsSpec => []ListsInv
<1>1. ListsInit => ListsInv
    BY Lists_Init
<1>2. ListsInv /\ [ListsNext]_listVars => ListsInv'
    BY ListTypes_Step, Count_Step, Way_Step DEF ListsInv
<1> QED
    BY <1>1, <1>2, PTL DEF ListsSpec

-----------------------------------------------------------------------------
(* The theorems.                                                           *)

\* There is a list to come for every thread that receives one, whichever of
\* them the socket gives it to: none is left in receive with its mutexes held.
THEOREM NoneLeftReceiving == ListsSpec => []OneListEach
<1>1. ListsInv => OneListEach
    BY DEF ListsInv
<1> QED
    BY <1>1, ListsInvariant, PTL

\* The answer that a manager waits for is shared, held by a manager that is
\* about to share it, or still to be received: it is not lost.
THEOREM AnswerNotLost == ListsSpec => []AnswerOnItsWay
<1>1. ListsInv => AnswerOnItsWay
    BY DEF ListsInv, WayInv, OnItsWay, InQueue, AnswerOnItsWay
<1> QED
    BY <1>1, ListsInvariant, PTL

-----------------------------------------------------------------------------
(* What one connection sends (IceConnection): the invariant.               *)

SendTypes ==
    /\ sender \in [Sender -> {"none", "check", "wait", "take", "send", "ended"}]
    /\ hand \in [Sender -> Nat]
    /\ given \in Nat
    /\ queue \in Seq(Nat)
    /\ wire \in Seq(Nat)

\* The queue has messages in the order in which they were given.
QueueInv ==
    /\ \A i \in DOMAIN queue : 1 <= queue[i] /\ queue[i] <= given
    /\ \A i, j \in DOMAIN queue : i < j => queue[i] < queue[j]

\* A sender holds a message while it sends it, one that left the queue.
HandInv ==
    \A s \in Sender :
        /\ sender[s] = "send" <=> hand[s] # 0
        /\ hand[s] <= given
        /\ \A i \in DOMAIN queue : hand[s] < queue[i]
        /\ \A r \in Sender : r # s /\ hand[s] # 0 => hand[r] # hand[s]

\* What is on the wire is neither in the queue nor with a sender.
WireInv ==
    \A i \in DOMAIN wire : wire[i] # 0 =>
        /\ wire[i] <= given
        /\ \A j \in DOMAIN queue : wire[i] < queue[j]
        /\ \A s \in Sender : hand[s] # wire[i]
        /\ \A j \in DOMAIN wire : j # i => wire[j] # wire[i]

Queued(n) == \E i \in DOMAIN queue : queue[i] = n
Held(n) == \E s \in Sender : hand[s] = n
Sent(n) == \E i \in DOMAIN wire : wire[i] = n

\* As long as there is an agent no message is dropped.
NoneDropped == agent = "used" => \A n \in 1..given : Queued(n) \/ Held(n) \/ Sent(n)

\* A sender that is alone holds a later message than those on the wire.
OrderInv ==
    sender[2] = "none" =>
        \A i \in DOMAIN wire : wire[i] # 0 =>
            /\ hand[1] # 0 => wire[i] < hand[1]
            /\ \A j \in DOMAIN wire : i < j /\ wire[j] # 0 => wire[i] < wire[j]

SentInv == QueueInv /\ HandInv /\ WireInv
SendInv == SendTypes /\ SentInv /\ NoneDropped /\ OrderInv

LEMMA Ice_Init == IceInit => SendInv
    BY DEF IceInit, Sender, SendInv, SendTypes, SentInv, QueueInv, HandInv, WireInv, NoneDropped, OrderInv

-----------------------------------------------------------------------------
(* Queues.                                                                 *)

LEMMA Appended ==
    ASSUME NEW q \in Seq(Nat), NEW n \in Nat
    PROVE  /\ Append(q, n) \in Seq(Nat) /\ Len(q) \in Nat /\ DOMAIN q = 1..Len(q)
           /\ DOMAIN Append(q, n) = 1..(Len(q) + 1)
           /\ \A i \in DOMAIN q : Append(q, n)[i] = q[i]
           /\ Append(q, n)[Len(q) + 1] = n
    OBVIOUS

LEMMA Removed ==
    ASSUME NEW q \in Seq(Nat), q # <<>>
    PROVE  /\ Tail(q) \in Seq(Nat) /\ Len(q) \in Nat \ {0} /\ DOMAIN q = 1..Len(q)
           /\ Head(q) = q[1] /\ q[1] \in Nat
           /\ DOMAIN Tail(q) = 1..(Len(q) - 1)
           /\ \A i \in DOMAIN Tail(q) : Tail(q)[i] = q[i + 1]
    OBVIOUS

-----------------------------------------------------------------------------
(* The steps.                                                              *)

\* A step that moves no message: no sender begins or ends to send.
MovesNone ==
    /\ UNCHANGED <<hand, queue, given, wire>>
    /\ sender' \in [Sender -> {"none", "check", "wait", "take", "send", "ended"}]
    /\ \A s \in Sender : sender'[s] = "send" <=> sender[s] = "send"
    /\ sender'[2] = "none" => sender[2] = "none"
    /\ agent' = "used" => agent = "used"

LEMMA SentSame ==
    ASSUME SendInv, MovesNone
    PROVE  SendInv'
<1> USE DEF SendInv, SentInv, MovesNone
<1>1. SendTypes'
    BY DEF SendTypes
<1>2. QueueInv'
    BY DEF QueueInv
<1>3. HandInv'
    BY DEF HandInv
<1>4. WireInv'
    BY DEF WireInv
<1>5. \A n : (Queued(n)' <=> Queued(n)) /\ (Held(n)' <=> Held(n)) /\ (Sent(n)' <=> Sent(n))
    BY DEF Queued, Held, Sent
<1>6. NoneDropped'
    BY <1>5 DEF NoneDropped
<1>7. OrderInv'
    BY DEF OrderInv
<1> QED
    BY <1>1, <1>2, <1>3, <1>4, <1>6, <1>7

\* Notified changes no sender but one that waits.
LEMMA NotifiedSender ==
    ASSUME SendTypes, Notified
    PROVE  /\ sender' \in [Sender -> {"none", "check", "wait", "take", "send", "ended"}]
           /\ \A s \in Sender : sender'[s] = "send" <=> sender[s] = "send"
           /\ sender'[2] = "none" => sender[2] = "none"
<1>1. CASE sender' = sender
    BY <1>1 DEF SendTypes
<1>2. CASE \E s \in Sender : sender[s] = "wait" /\ sender' = [sender EXCEPT ![s] = "check"]
    BY <1>2 DEF SendTypes, Sender
<1> QED
    BY <1>1, <1>2 DEF Notified, Woken

LEMMA Step_SendMessage ==
    ASSUME SendInv, SendMessage
    PROVE  SendInv'
<1> USE DEF SendInv, SentInv, SendTypes
<1>1. /\ given' = given + 1 /\ queue' = Append(queue, given + 1) /\ Notified
      /\ UNCHANGED <<hand, wire, agent>>
    BY DEF SendMessage, ending
<1>2. /\ queue' \in Seq(Nat) /\ Len(queue) \in Nat /\ DOMAIN queue = 1..Len(queue)
      /\ DOMAIN queue' = 1..(Len(queue) + 1)
      /\ \A i \in DOMAIN queue : queue'[i] = queue[i]
      /\ queue'[Len(queue) + 1] = given + 1
    BY <1>1, Appended
<1>3. SendTypes'
    BY <1>1, <1>2, NotifiedSender
<1>4. QueueInv'
    BY <1>1, <1>2 DEF QueueInv
<1>5. HandInv'
    BY <1>1, <1>2, NotifiedSender DEF HandInv
<1>6. WireInv'
    BY <1>1, <1>2 DEF WireInv
<1>7. NoneDropped'
    <2>1. \A n : (Queued(n) => Queued(n)') /\ (Held(n) <=> Held(n)') /\ (Sent(n) <=> Sent(n)')
        BY <1>1, <1>2 DEF Queued, Held, Sent
    <2>2. ASSUME NEW n, n = given + 1 PROVE Queued(n)'
        <3>1. Len(queue) + 1 \in DOMAIN queue' /\ queue'[Len(queue) + 1] = n
            BY <1>2, <2>2
        <3> QED
            BY <3>1 DEF Queued
    <2>3. \A n \in 1..given' : n \in 1..given \/ n = given + 1
        BY <1>1
    <2> QED
        BY <1>1, <2>1, <2>2, <2>3 DEF NoneDropped
<1>8. OrderInv'
    BY <1>1, NotifiedSender DEF OrderInv
<1> QED
    BY <1>3, <1>4, <1>5, <1>6, <1>7, <1>8

LEMMA Step_Take ==
    ASSUME SendInv, NEW s \in Sender, Take(s)
    PROVE  SendInv'
<1> USE DEF SendInv, SentInv, SendTypes
<1>1. CASE queue = <<>>
    <2>1. sender[s] = "take" /\ sender' = [sender EXCEPT ![s] = "check"] /\ UNCHANGED <<hand, queue>>
        BY <1>1 DEF Take
    <2>2. UNCHANGED <<given, wire, agent>>
        BY DEF Take, ending
    <2>3. MovesNone
        BY <2>1, <2>2 DEF MovesNone, Sender
    <2> QED
        BY <2>3, SentSame
<1>2. CASE queue # <<>>
    <2>1. /\ sender[s] = "take" /\ hand' = [hand EXCEPT ![s] = Head(queue)] /\ queue' = Tail(queue)
          /\ sender' = [sender EXCEPT ![s] = "send"] /\ UNCHANGED <<given, wire, agent>>
        BY <1>2 DEF Take, PopFront, ending
    <2>2. /\ queue' \in Seq(Nat) /\ Len(queue) \in Nat \ {0} /\ DOMAIN queue = 1..Len(queue)
          /\ hand'[s] = queue[1] /\ queue[1] \in Nat /\ 1 \in DOMAIN queue
          /\ DOMAIN queue' = 1..(Len(queue) - 1)
          /\ \A i \in DOMAIN queue' : i + 1 \in DOMAIN queue /\ queue'[i] = queue[i + 1]
        BY <1>2, <2>1, Removed
    <2>3. /\ \A r \in Sender : r # s => hand'[r] = hand[r] /\ sender'[r] = sender[r]
          /\ sender'[s] = "send" /\ UNCHANGED <<given, wire, agent>>
        BY <2>1
    <2>4. SendTypes'
        BY <2>1, <2>2
    <2>5. QueueInv'
        <3>1. \A i \in DOMAIN queue' : 1 <= queue'[i] /\ queue'[i] <= given'
            BY <2>2, <2>3 DEF QueueInv
        <3>2. \A i, j \in DOMAIN queue' : i < j => i + 1 < j + 1
            BY <2>2
        <3>3. \A i, j \in DOMAIN queue' : i < j => queue'[i] < queue'[j]
            BY <2>2, <3>2 DEF QueueInv
        <3> QED
            BY <3>1, <3>3 DEF QueueInv
    <2>6. /\ 1 <= queue[1] /\ queue[1] <= given /\ \A r \in Sender : hand[r] < queue[1]
          /\ \A i \in DOMAIN queue' : queue[1] < queue'[i]
        <3>1. 1 <= queue[1] /\ queue[1] <= given
            BY <2>2 DEF QueueInv
        <3>2. \A r \in Sender : hand[r] < queue[1]
            BY <2>2 DEF HandInv
        <3>3. ASSUME NEW i \in DOMAIN queue' PROVE queue[1] < queue'[i]
            <4>1. i + 1 \in DOMAIN queue /\ 1 < i + 1 /\ 1 \in DOMAIN queue
                BY <2>2
            <4>2. queue[1] < queue[i + 1]
                BY <4>1 DEF QueueInv
            <4> QED
                BY <2>2, <4>2
        <3> QED
            BY <3>1, <3>2, <3>3
    <2>7. HandInv'
        <3>1. ASSUME NEW r \in Sender, r # s
              PROVE  /\ sender'[r] = "send" <=> hand'[r] # 0
                     /\ hand'[r] <= given'
                     /\ \A i \in DOMAIN queue' : hand'[r] < queue'[i]
                     /\ \A q \in Sender : q # r /\ hand'[r] # 0 => hand'[q] # hand'[r]
            <4>1. \A i \in DOMAIN queue' : hand[r] < queue'[i]
                BY <2>2 DEF HandInv
            <4>2. hand[r] # queue[1]
                BY <2>2, <2>6
            <4> QED
                BY <2>2, <2>3, <3>1, <4>1, <4>2 DEF HandInv
        <3>2. /\ sender'[s] = "send" <=> hand'[s] # 0
              /\ hand'[s] <= given'
              /\ \A i \in DOMAIN queue' : hand'[s] < queue'[i]
              /\ \A q \in Sender : q # s /\ hand'[s] # 0 => hand'[q] # hand'[s]
            BY <2>2, <2>3, <2>6
        <3> QED
            BY <3>1, <3>2 DEF HandInv
    <2>8. WireInv'
        <3>1. ASSUME NEW i \in DOMAIN wire, wire[i] # 0
              PROVE  /\ wire[i] <= given
                     /\ \A j \in DOMAIN queue' : wire[i] < queue'[j]
                     /\ \A r \in Sender : hand'[r] # wire[i]
                     /\ \A j \in DOMAIN wire : j # i => wire[j] # wire[i]
            <4>1. wire[i] < queue[1] /\ \A r \in Sender : hand[r] # wire[i]
                BY <2>2, <3>1 DEF WireInv
            <4>2. wire[i] \in Nat
                BY <3>1
            <4>3. \A r \in Sender : hand'[r] # wire[i]
                BY <2>2, <2>3, <4>1, <4>2
            <4> QED
                BY <2>2, <3>1, <4>3 DEF WireInv
        <3> QED
            BY <2>3, <3>1 DEF WireInv
    <2>9. NoneDropped'
        <3>1. hand[s] = 0
            BY <2>1 DEF HandInv
        <3>2. ASSUME NEW n \in Nat \ {0}, Queued(n) PROVE Queued(n)' \/ Held(n)'
            <4>1. PICK i \in DOMAIN queue : queue[i] = n
                BY <3>2 DEF Queued
            <4>2. CASE i = 1
                BY <2>2, <4>1, <4>2 DEF Held
            <4>3. CASE i # 1
                <5>1. i - 1 \in DOMAIN queue' /\ (i - 1) + 1 = i
                    BY <2>2, <4>1, <4>3
                <5>2. queue'[i - 1] = n
                    BY <2>2, <4>1, <5>1
                <5> QED
                    BY <5>1, <5>2 DEF Queued
            <4> QED
                BY <4>2, <4>3
        <3>3. ASSUME NEW n \in Nat \ {0}, Held(n) PROVE Held(n)'
            BY <2>3, <3>1, <3>3 DEF Held
        <3>4. \A n : Sent(n) <=> Sent(n)'
            BY <2>1 DEF Sent
        <3> QED
            BY <2>1, <3>2, <3>3, <3>4 DEF NoneDropped
    <2>10. OrderInv'
        BY <2>1, <2>2, <2>3 DEF OrderInv, WireInv, Sender
    <2> QED
        BY <2>4, <2>5, <2>7, <2>8, <2>9, <2>10
<1> QED
    BY <1>1, <1>2

LEMMA Step_SendTaken ==
    ASSUME SendInv, NEW s \in Sender, SendTaken(s)
    PROVE  SendInv'
<1> USE DEF SendInv, SentInv, SendTypes
<1>1. /\ sender[s] = "send" /\ hand' = [hand EXCEPT ![s] = 0]
      /\ sender' = [sender EXCEPT ![s] = "take"] /\ UNCHANGED <<queue, given, agent>>
    BY DEF SendTaken
<1>2. \A r \in Sender : r # s => hand'[r] = hand[r] /\ sender'[r] = sender[r]
    BY <1>1
<1>3. hand[s] # 0 /\ hand[s] \in Nat /\ hand[s] <= given
    BY <1>1 DEF HandInv
<1>4. wire = wire' \/ (agent = "used" /\ wire' = Append(wire, hand[s]))
    BY DEF SendTaken
<1>5. QueueInv'
    BY <1>1 DEF QueueInv
<1>6. HandInv'
    BY <1>1, <1>2 DEF HandInv, QueueInv
<1>7. CASE wire' = wire /\ agent # "used"
    BY <1>1, <1>2, <1>5, <1>6, <1>7 DEF WireInv, NoneDropped, OrderInv, Sender
<1>8. CASE wire' = Append(wire, hand[s])
    <2>1. /\ wire' \in Seq(Nat) /\ Len(wire) \in Nat /\ DOMAIN wire = 1..Len(wire)
          /\ DOMAIN wire' = 1..(Len(wire) + 1)
          /\ \A i \in DOMAIN wire : wire'[i] = wire[i]
          /\ wire'[Len(wire) + 1] = hand[s]
        BY <1>8, Appended
    <2>2. SendTypes'
        BY <1>1, <2>1
    <2>3. WireInv'
        <3>1. /\ \A j \in DOMAIN queue : hand[s] < queue[j]
              /\ \A r \in Sender : hand'[r] # hand[s]
              /\ \A j \in DOMAIN wire : wire[j] # hand[s]
            BY <1>1, <1>2, <1>3 DEF HandInv, WireInv
        <3>2. ASSUME NEW i \in DOMAIN wire, wire[i] # 0
              PROVE  /\ wire[i] <= given
                     /\ \A j \in DOMAIN queue : wire[i] < queue[j]
                     /\ \A r \in Sender : hand'[r] # wire[i]
                     /\ \A j \in DOMAIN wire : j # i => wire[j] # wire[i]
            BY <1>1, <1>2, <3>2 DEF WireInv
        <3>3. ASSUME NEW i \in DOMAIN wire', wire'[i] # 0
              PROVE  /\ wire'[i] <= given
                     /\ \A j \in DOMAIN queue : wire'[i] < queue[j]
                     /\ \A r \in Sender : hand'[r] # wire'[i]
                     /\ \A j \in DOMAIN wire' : j # i => wire'[j] # wire'[i]
            <4>1. \A j \in DOMAIN wire' : j \in DOMAIN wire \/ j = Len(wire) + 1
                BY <2>1
            <4>2. CASE i \in DOMAIN wire
                <5>1. wire'[i] = wire[i] /\ wire[i] # 0
                    BY <2>1, <3>3, <4>2
                <5>2. ASSUME NEW j \in DOMAIN wire', j # i PROVE wire'[j] # wire[i]
                    <6>1. CASE j \in DOMAIN wire
                        BY <2>1, <3>2, <4>2, <5>1, <5>2, <6>1
                    <6>2. CASE j = Len(wire) + 1
                        BY <2>1, <3>1, <4>2, <6>2
                    <6> QED
                        BY <4>1, <6>1, <6>2
                <5> QED
                    BY <3>2, <4>2, <5>1, <5>2
            <4>3. CASE i = Len(wire) + 1
                <5>1. wire'[i] = hand[s]
                    BY <2>1, <4>3
                <5>2. ASSUME NEW j \in DOMAIN wire', j # i PROVE wire'[j] # hand[s]
                    <6>1. j \in DOMAIN wire
                        BY <4>1, <4>3, <5>2
                    <6> QED
                        BY <2>1, <3>1, <6>1
                <5> QED
                    BY <1>3, <3>1, <5>1, <5>2
            <4> QED
                BY <4>1, <4>2, <4>3
        <3> QED
            BY <1>1, <3>3 DEF WireInv
    <2>4. NoneDropped'
        <3>1. \A n : Queued(n) <=> Queued(n)'
            BY <1>1 DEF Queued
        <3>2. ASSUME NEW n \in Nat \ {0}, Held(n) PROVE Held(n)' \/ Sent(n)'
            <4>1. PICK r \in Sender : hand[r] = n
                BY <3>2 DEF Held
            <4>2. CASE r = s
                <5>1. Len(wire) + 1 \in DOMAIN wire' /\ wire'[Len(wire) + 1] = n
                    BY <2>1, <4>1, <4>2
                <5> QED
                    BY <5>1 DEF Sent
            <4>3. CASE r # s
                BY <1>2, <4>1, <4>3 DEF Held
            <4> QED
                BY <4>2, <4>3
        <3>3. \A n : Sent(n) => Sent(n)'
            BY <2>1 DEF Sent
        <3> QED
            BY <1>1, <3>1, <3>2, <3>3 DEF NoneDropped
    <2>5. OrderInv'
        <3>1. CASE s = 1
            <4>1. SUFFICES ASSUME sender'[2] = "none", NEW i \in DOMAIN wire', wire'[i] # 0
                           PROVE  /\ hand'[1] # 0 => wire'[i] < hand'[1]
                                  /\ \A j \in DOMAIN wire' : i < j /\ wire'[j] # 0 => wire'[i] < wire'[j]
                BY DEF OrderInv
            <4>2. sender[2] = "none" /\ hand'[1] = 0
                BY <1>1, <1>2, <3>1, <4>1 DEF Sender
            <4>3. CASE i \in DOMAIN wire
                <5>1. /\ wire[i] < hand[1]
                      /\ \A j \in DOMAIN wire : i < j /\ wire[j] # 0 => wire[i] < wire[j]
                    BY <1>3, <2>1, <3>1, <4>1, <4>2, <4>3 DEF OrderInv
                <5>2. ASSUME NEW j \in DOMAIN wire', i < j, wire'[j] # 0 PROVE wire[i] < wire'[j]
                    <6>1. CASE j \in DOMAIN wire
                        BY <2>1, <5>1, <5>2, <6>1
                    <6>2. CASE j = Len(wire) + 1
                        BY <2>1, <3>1, <5>1, <6>2
                    <6> QED
                        BY <2>1, <6>1, <6>2
                <5>3. wire'[i] = wire[i]
                    BY <2>1, <4>3
                <5> QED
                    BY <4>2, <5>2, <5>3
            <4>4. CASE i = Len(wire) + 1
                BY <2>1, <4>2, <4>4
            <4> QED
                BY <2>1, <4>3, <4>4
        <3>2. CASE s = 2
            BY <1>1, <3>2 DEF OrderInv, Sender
        <3> QED
            BY <3>1, <3>2 DEF Sender
    <2> QED
        BY <1>5, <1>6, <2>2, <2>3, <2>4, <2>5
<1> QED
    BY <1>4, <1>7, <1>8 DEF SendTaken

\* The goodbye is no message.
LEMMA Step_SayGoodbye ==
    ASSUME SendInv, NEW c \in Caller, SayGoodbye(c)
    PROVE  SendInv'
<1> USE DEF SendInv, SentInv, SendTypes
<1>1. UNCHANGED <<sender, hand, queue, given, agent>>
    BY DEF SayGoodbye
<1>2. CASE wire' = wire
    <2>1. MovesNone
        BY <1>1, <1>2 DEF MovesNone
    <2> QED
        BY <2>1, SentSame
<1>3. CASE wire' = Append(wire, 0)
    <2>1. /\ wire' \in Seq(Nat) /\ Len(wire) \in Nat /\ DOMAIN wire = 1..Len(wire)
          /\ DOMAIN wire' = 1..(Len(wire) + 1)
          /\ \A i \in DOMAIN wire : wire'[i] = wire[i]
          /\ wire'[Len(wire) + 1] = 0
        BY <1>3, Appended
    <2>2. \A i \in DOMAIN wire' : wire'[i] # 0 => i \in DOMAIN wire /\ wire'[i] = wire[i]
        BY <2>1
    <2>3. SendTypes' /\ QueueInv' /\ HandInv'
        BY <1>1, <2>1 DEF QueueInv, HandInv
    <2>4. WireInv'
        BY <1>1, <2>1, <2>2 DEF WireInv
    <2>5. NoneDropped'
        <3>1. \A n : (Queued(n) <=> Queued(n)') /\ (Held(n) <=> Held(n)') /\ (Sent(n) => Sent(n)')
            BY <1>1, <2>1 DEF Queued, Held, Sent
        <3> QED
            BY <1>1, <3>1 DEF NoneDropped
    <2>6. OrderInv'
        BY <1>1, <2>2 DEF OrderInv
    <2> QED
        BY <2>3, <2>4, <2>5, <2>6
<1> QED
    BY <1>2, <1>3 DEF SayGoodbye

LEMMA Ice_Step ==
    ASSUME SendInv, [IceNext]_iceVars
    PROVE  SendInv'
<1>1. SendTypes
    BY DEF SendInv
<1>2. ASSUME UNCHANGED sending, agent' = "used" => agent = "used" PROVE SendInv'
    <2>1. MovesNone
        BY <1>1, <1>2 DEF sending, MovesNone, SendTypes
    <2> QED
        BY <2>1, SentSame
<1>3. CASE Gathering
    BY <1>2, <1>3 DEF Gathering, StartGathering, RunGathering, GatheringDone, ending
<1>4. CASE StartConnecting \/ Watch \/ Fail \/ Poll
    BY <1>2, <1>4 DEF StartConnecting, Watch, Fail, Poll, ending
<1>5. CASE Negotiate
    <2>1. UNCHANGED <<hand, queue, given, wire, agent>>
        BY <1>5 DEF Negotiate, ending
    <2>2. CASE UNCHANGED sender
        BY <1>2, <2>1, <2>2 DEF sending
    <2>3. CASE StartSender
        <3>1. PICK s \in Sender : sender[s] = "none" /\ sender' = [sender EXCEPT ![s] = "check"]
            BY <2>3 DEF StartSender
        <3>2. MovesNone
            BY <1>1, <2>1, <3>1 DEF MovesNone, SendTypes, Sender
        <3> QED
            BY <3>2, SentSame
    <2> QED
        BY <1>5, <2>2, <2>3 DEF Negotiate
<1>6. CASE Receiving
    BY <1>2, <1>6 DEF Receiving, Arrive, CountReceived, ReceiveMessage, ending
<1>7. CASE SendMessage
    BY <1>7, Step_SendMessage
<1>8. CASE Destroy
    BY <1>2, <1>8 DEF Destroy, ending
<1>9. ASSUME NEW s \in Sender, CheckSender(s) PROVE SendInv'
    <2>1. PICK b \in {"ended", "wait", "take"} : sender' = [sender EXCEPT ![s] = b]
        BY <1>9 DEF CheckSender
    <2>2. sender[s] = "check" /\ UNCHANGED <<hand, queue, given, wire, agent>>
        BY <1>9 DEF CheckSender, ending
    <2>3. MovesNone
        BY <1>1, <2>1, <2>2 DEF MovesNone, SendTypes, Sender
    <2> QED
        BY <2>3, SentSame
<1>10. ASSUME NEW s \in Sender, Take(s) \/ SendTaken(s) PROVE SendInv'
    BY <1>10, Step_Take, Step_SendTaken
<1>11. ASSUME NEW c \in Caller, BeginDisconnect(c) \/ CloseAgent(c) \/ FreeAgent(c) PROVE SendInv'
    BY <1>2, <1>11 DEF BeginDisconnect, CloseAgent, FreeAgent
<1>12. ASSUME NEW c \in Caller, SayGoodbye(c) PROVE SendInv'
    BY <1>12, Step_SayGoodbye
<1>13. CASE UNCHANGED iceVars
    BY <1>2, <1>13 DEF iceVars, ending
<1> QED
    BY <1>3, <1>4, <1>5, <1>6, <1>7, <1>8, <1>9, <1>10, <1>11, <1>12, <1>13
    DEF IceNext, Connecting, SenderStep, Disconnecting

LEMMA SendInvariant == IceSpec => []SendInv
<1>1. IceInit => SendInv
    BY Ice_Init
<1>2. SendInv /\ [IceNext]_iceVars => SendInv'
    BY Ice_Step
<1> QED
    BY <1>1, <1>2, PTL DEF IceSpec

-----------------------------------------------------------------------------
(* The theorems.                                                           *)

\* Two senders take messages from one queue and send them without the mutex,
\* and disconnect may come at any time: a message is in one place at most, and
\* in one as long as the agent is used.
THEOREM NeitherTwiceNorDropped == IceSpec => []SentOnce
<1>1. ASSUME SendInv PROVE SentOnce
    <2>1. SendTypes /\ QueueInv /\ HandInv /\ WireInv /\ NoneDropped
        BY <1>1 DEF SendInv, SentInv
    <2>2. SUFFICES ASSUME NEW n \in 1..given
                   PROVE  /\ \A a, b \in Places(n) : a = b
                          /\ agent = "used" => Places(n) # {}
        BY DEF SentOnce
    <2>3. n # 0 /\ DOMAIN queue \subseteq Nat /\ DOMAIN wire \subseteq Nat
        BY <2>1 DEF SendTypes
    <2>4. \A i, j \in DOMAIN queue : queue[i] = n /\ queue[j] = n => i = j
        <3>1. SUFFICES ASSUME NEW i \in DOMAIN queue, NEW j \in DOMAIN queue, queue[i] = n, queue[j] = n
                       PROVE  i = j
            OBVIOUS
        <3>2. ~ (i < j) /\ ~ (j < i)
            BY <2>1, <3>1 DEF QueueInv
        <3> QED
            BY <2>3, <3>2
    <2>5. \A s, r \in Sender : hand[s] = n /\ hand[r] = n => s = r
        BY <2>1, <2>3 DEF HandInv
    <2>6. \A i, j \in DOMAIN wire : wire[i] = n /\ wire[j] = n => i = j
        BY <2>1, <2>3 DEF WireInv
    <2>7. \A i \in DOMAIN queue, s \in Sender : queue[i] = n => hand[s] # n
        BY <2>1 DEF HandInv, SendTypes
    <2>8. \A i \in DOMAIN queue, j \in DOMAIN wire : queue[i] = n => wire[j] # n
        BY <2>1, <2>3 DEF WireInv
    <2>9. \A s \in Sender, j \in DOMAIN wire : wire[j] = n => hand[s] # n
        BY <2>1, <2>3 DEF WireInv
    <2>10. \A a \in Places(n) :
              \/ \E i \in DOMAIN queue : queue[i] = n /\ a = <<"queue", i>>
              \/ \E s \in Sender : hand[s] = n /\ a = <<"hand", s>>
              \/ \E i \in DOMAIN wire : wire[i] = n /\ a = <<"wire", i>>
        BY DEF Places
    <2>11. \A a, b \in Places(n) : a = b
        BY <2>4, <2>5, <2>6, <2>7, <2>8, <2>9, <2>10
    <2>12. Queued(n) \/ Held(n) \/ Sent(n) => Places(n) # {}
        BY DEF Places, Queued, Held, Sent
    <2> QED
        BY <2>1, <2>11, <2>12 DEF NoneDropped
<1> QED
    BY <1>1, SendInvariant, PTL

\* One sender sends in the order of the queue. (Two do not: each may be
\* delayed between taking a message and sending it.)
THEOREM OrderKept == IceSpec => []InOrder
<1>1. SendInv => InOrder
    BY DEF SendInv, OrderInv, InOrder
<1> QED
    BY <1>1, SendInvariant, PTL
=============================================================================
