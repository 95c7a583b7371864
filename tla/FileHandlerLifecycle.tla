------------------------ MODULE FileHandlerLifecycle ------------------------
(***************************************************************************)
(* The threads and queues of one TorrentFileHandler while the user adds,   *)
(* stops and resumes its file through the torrent manager: the thread that *)
(* handles requests, the one that                                          *)
(* downloads, the one that sends. Each start makes new threads; stop only  *)
(* clears the flag. What the download thread does in a round is the        *)
(* business of Download; the thread of the responses loops like that of    *)
(* the requests and is in Download, too.                                   *)
(***************************************************************************)
EXTENDS Naturals, Sequences, SequencesExt, FiniteSets

CONSTANTS
    MaxRequests,    \* bound: requests that peers send
    MaxRounds,      \* bound: rounds of the download that send a message
    MaxStarts,      \* bound: how often the user starts the file
    Kinds,          \* the kinds of requests that peers send
    PeersLeave      \* may the connection to a peer end

ASSUME LifecycleAssumption ==
    /\ MaxRequests \in Nat /\ MaxRounds \in Nat /\ MaxStarts \in Nat \ {0}
    /\ Kinds \subseteq {"keepAlive", "dataRequest", "choke", "cancelDataRequest"}
    /\ PeersLeave \in BOOLEAN

Inst == 1..MaxStarts
Own == 0        \* a request of the download thread

VARIABLES
    known,      \* the torrent manager has a handler for the file
    running,    \* _running
    isSeed,     \* _isSeed
    mode,       \* the mode of _fileIO
    published,  \* the file is republished to the tracker
    asked,      \* the kinds of the requests received; requests are numbered
    inbox,      \* _receivedRequests
    requester,  \* the threads handleRequests, one for each start
    work,       \* the request that each of them handles, or 0
    downloader, \* the threads downloadFile
    rounds,     \* rounds that sent a message
    outbox,     \* _messagesToSend, by the request answered
    sender,     \* the threads sendMessages
    hand,       \* the message that each of them sends
    held,       \* does it hold the mutex when it looks at the queue again
    wire,       \* messages given to the connections manager
    failed,     \* messages it could not send
    fate        \* has an exception ended the program

flags == <<known, running, isSeed, mode, published>>
requesting == <<asked, inbox, requester, work>>
downloading == <<downloader, rounds>>
sending == <<sender, hand, held, wire, failed>>
vars == <<flags, requesting, downloading, outbox, sending, fate>>

Init ==
    /\ known = FALSE
    /\ running = FALSE /\ isSeed \in BOOLEAN /\ mode = "Default" /\ published = FALSE
    /\ asked = <<>> /\ inbox = <<>>
    /\ requester = [i \in Inst |-> "none"]
    /\ work = [i \in Inst |-> 0]
    /\ downloader = requester /\ rounds = 0
    /\ outbox = <<>>
    /\ sender = requester /\ hand = [i \in Inst |-> Own] /\ held = [i \in Inst |-> TRUE]
    /\ wire = <<>> /\ failed = {}
    /\ fate = "runs"

\* notify_one: one of the threads that wait looks at its predicate again.
Notified ==
    LET blocked == {i \in Inst : sender[i] = "blocked"}
    IN  IF blocked = {} THEN {sender} ELSE {[sender EXCEPT ![i] = "wait"] : i \in blocked}

-----------------------------------------------------------------------------
(* The user, by the torrent manager.                                       *)

StartThreads ==
    \E i \in Inst :
        /\ requester[i] = "none" /\ \A j \in 1..(i - 1) : requester[j] # "none"
        /\ requester' = [requester EXCEPT ![i] = "test"]
        /\ downloader' = [downloader EXCEPT ![i] = "test"]
        /\ sender' = [sender EXCEPT ![i] = "test"]

\* The constructor of the handler.
Construct(autoStart) ==
    /\ running' = autoStart /\ published' = autoStart
    /\ mode' = IF isSeed THEN "Seed" ELSE "Hybrid"
    /\ IF autoStart THEN StartThreads ELSE UNCHANGED <<requester, downloader, sender>>

\* A handler that runs is only published again.
Resume ==
    /\ running' = TRUE /\ published' = TRUE
    /\ mode' = IF isSeed THEN "Seed" ELSE "Hybrid"
    /\ IF running THEN UNCHANGED <<requester, downloader, sender>> ELSE StartThreads

AddNewFileHandler(autoStart) ==
    /\ known' = TRUE
    /\ IF known THEN Resume ELSE Construct(autoStart)
    /\ UNCHANGED <<isSeed, asked, inbox, work, rounds, outbox, hand, held, wire, failed, fate>>

Stop ==
    /\ known
    /\ running' = FALSE /\ mode' = "Default" /\ published' = FALSE
    /\ UNCHANGED <<known, isSeed, requesting, downloading, outbox, sending, fate>>

-----------------------------------------------------------------------------
(* Requests: queued whether the handler runs or not, and handled.          *)

AddMessage(kind) ==
    /\ known /\ Len(asked) < MaxRequests
    /\ asked' = Append(asked, kind)
    /\ inbox' = Append(inbox, Len(asked) + 1)
    /\ UNCHANGED <<flags, requester, work, downloading, outbox, sending, fate>>

\* Mutant of TestRequests: the flag is not tested.
TestNothing(i) ==
    /\ requester[i] = "test"
    /\ requester' = [requester EXCEPT ![i] = "drain"]
    /\ UNCHANGED <<flags, asked, inbox, work, downloading, outbox, sending, fate>>

TestRequests(i) ==
    /\ requester[i] = "test"
    /\ requester' = [requester EXCEPT ![i] = IF running THEN "drain" ELSE "ended"]
    /\ UNCHANGED <<flags, asked, inbox, work, downloading, outbox, sending, fate>>

TakeRequest(i) ==
    /\ requester[i] = "drain"
    /\ IF inbox = <<>>
       THEN requester' = [requester EXCEPT ![i] = "test"] /\ UNCHANGED <<inbox, work>>
       ELSE /\ requester' = [requester EXCEPT ![i] = "handle"]
            /\ work' = [work EXCEPT ![i] = Head(inbox)]
            /\ inbox' = Tail(inbox)
    /\ UNCHANGED <<flags, asked, downloading, outbox, sending, fate>>

Answered == {"keepAlive", "dataRequest"}

\* Mutant of HandleRequest: nobody is notified of the answer.
HandleUnnotified(i) ==
    /\ requester[i] = "handle"
    /\ requester' = [requester EXCEPT ![i] = "drain"]
    /\ work' = [work EXCEPT ![i] = 0]
    /\ outbox' = IF asked[work[i]] \in Answered THEN Append(outbox, work[i]) ELSE outbox
    /\ UNCHANGED <<flags, asked, inbox, downloading, sending, fate>>

\* The answer is queued. A cancel compares the bytes of the queued pointers
\* with the file, which are not equal, so that nothing leaves the queue.
HandleRequest(i) ==
    /\ requester[i] = "handle"
    /\ requester' = [requester EXCEPT ![i] = "drain"]
    /\ work' = [work EXCEPT ![i] = 0]
    /\ IF asked[work[i]] \in Answered
       THEN outbox' = Append(outbox, work[i]) /\ sender' \in Notified
       ELSE UNCHANGED <<outbox, sender>>
    /\ UNCHANGED <<flags, asked, inbox, downloading, hand, held, wire, failed, fate>>

-----------------------------------------------------------------------------
(* The download: a round each second, while the flag is set.               *)

\* The loop ends when the file is complete and its hash is right, or when
\* the flag is not set; what follows it is done in both cases.
TestDownload(i) ==
    /\ downloader[i] = "test"
    /\ \/ /\ running
          /\ downloader' = [downloader EXCEPT ![i] = "choose"]
          /\ UNCHANGED <<isSeed, mode>>
       \/ /\ downloader' = [downloader EXCEPT ![i] = "ended"]
          /\ isSeed' = TRUE /\ mode' = "Seed"
    /\ UNCHANGED <<known, running, published, requesting, rounds, outbox, sending, fate>>

Choose(i) ==
    /\ downloader[i] = "choose"
    /\ downloader' = [downloader EXCEPT ![i] = "sleep"]
    /\ \/ /\ rounds < MaxRounds
          /\ rounds' = rounds + 1
          /\ outbox' = Append(outbox, Own) /\ sender' \in Notified
       \/ UNCHANGED <<rounds, outbox, sender>>
    /\ UNCHANGED <<flags, requesting, hand, held, wire, failed, fate>>

Sleep(i) ==
    /\ downloader[i] = "sleep"
    /\ downloader' = [downloader EXCEPT ![i] = "test"]
    /\ UNCHANGED <<flags, requesting, rounds, outbox, sending, fate>>

-----------------------------------------------------------------------------
(* Sending.                                                                *)

TestSender(i) ==
    /\ sender[i] = "test"
    /\ sender' = [sender EXCEPT ![i] = IF running THEN "wait" ELSE "ended"]
    /\ held' = [held EXCEPT ![i] = TRUE]
    /\ UNCHANGED <<flags, requesting, downloading, outbox, hand, wire, failed, fate>>

\* The predicate is looked at when the wait begins and when it is notified.
Wait(i) ==
    /\ sender[i] = "wait"
    /\ sender' = [sender EXCEPT ![i] = IF outbox # <<>> \/ ~running THEN "drain" ELSE "blocked"]
    /\ UNCHANGED <<flags, requesting, downloading, outbox, hand, held, wire, failed, fate>>

EndDrain(i) ==
    /\ sender[i] = "drain" /\ outbox = <<>>
    /\ sender' = [sender EXCEPT ![i] = "test"]
    /\ UNCHANGED <<flags, requesting, downloading, outbox, hand, held, wire, failed, fate>>

\* Mutant of TakeMessage: it is not erased.
TakeMessageOnly(i) ==
    /\ sender[i] = "drain" /\ outbox # <<>>
    /\ hand' = [hand EXCEPT ![i] = Head(outbox)]
    /\ sender' = [sender EXCEPT ![i] = "send"]
    /\ fate' = IF held[i] THEN fate ELSE "terminated"
    /\ UNCHANGED <<flags, requesting, downloading, outbox, held, wire, failed>>

\* The first message is taken and the mutex unlocked, which throws when it
\* is not held.
TakeMessage(i) ==
    /\ sender[i] = "drain" /\ outbox # <<>>
    /\ hand' = [hand EXCEPT ![i] = Head(outbox)]
    /\ outbox' = Tail(outbox)
    /\ sender' = [sender EXCEPT ![i] = "send"]
    /\ fate' = IF held[i] THEN fate ELSE "terminated"
    /\ UNCHANGED <<flags, requesting, downloading, held, wire, failed>>

\* The answer to keepAlive names no peer.
Addressed(n) == ~(n # Own /\ asked[n] = "keepAlive")

Send(i) ==
    /\ sender[i] = "send" /\ Addressed(hand[i])
    /\ wire' = Append(wire, hand[i])
    /\ sender' = [sender EXCEPT ![i] = "drain"]
    /\ UNCHANGED <<flags, requesting, downloading, outbox, hand, held, failed, fate>>

\* sendMessage throws before the mutex is locked again.
SendFails(i) ==
    /\ sender[i] = "send" /\ (PeersLeave \/ ~Addressed(hand[i]))
    /\ failed' = failed \cup {hand[i]}
    /\ held' = [held EXCEPT ![i] = FALSE]
    /\ sender' = [sender EXCEPT ![i] = "drain"]
    /\ UNCHANGED <<flags, requesting, downloading, outbox, hand, wire, fate>>

-----------------------------------------------------------------------------

RequesterStep(i) == TestRequests(i) \/ TakeRequest(i) \/ HandleRequest(i)
DownloaderStep(i) == TestDownload(i) \/ Choose(i) \/ Sleep(i)
SenderStep(i) == TestSender(i) \/ Wait(i) \/ EndDrain(i) \/ TakeMessage(i) \/ Send(i) \/ SendFails(i)

Next ==
    /\ fate = "runs"
    /\ \/ Stop
       \/ \E autoStart \in BOOLEAN : AddNewFileHandler(autoStart)
       \/ \E kind \in Kinds : AddMessage(kind)
       \/ \E i \in Inst : RequesterStep(i) \/ DownloaderStep(i) \/ SenderStep(i)

Spec == Init /\ [][Next]_vars

\* The operating system runs every thread.
FairSpec ==
    /\ Spec
    /\ \A i \in Inst :
          /\ WF_vars(fate = "runs" /\ RequesterStep(i))
          /\ WF_vars(fate = "runs" /\ DownloaderStep(i))
          /\ WF_vars(fate = "runs" /\ SenderStep(i))

-----------------------------------------------------------------------------
(* Properties.                                                             *)

Requests == 1..MaxRequests

Places(n) == {<<"inbox", i>> : i \in {i \in DOMAIN inbox : inbox[i] = n}}
             \cup {<<"work", i>> : i \in {i \in Inst : work[i] = n}}
             \cup {<<"outbox", i>> : i \in {i \in DOMAIN outbox : outbox[i] = n}}
             \cup {<<"hand", i>> : i \in {i \in Inst : sender[i] = "send" /\ hand[i] = n}}
             \cup {<<"wire", i>> : i \in {i \in DOMAIN wire : wire[i] = n}}
             \cup {<<"failed", i>> : i \in failed \cap {n}}

\* Through every stop and resume, with the threads of several starts at work
\* at once, a request of data is neither answered twice nor lost.
AnsweredOnce ==
    \A n \in DOMAIN asked :
        /\ \A a, b \in Places(n) : a = b
        /\ asked[n] = "dataRequest" => Places(n) # {}

\* A request of data is answered as long as the user does not stop the file
\* and no failure to send ends the program: no interleaving of the queues,
\* the notifications and the threads of several starts leaves one behind.
EveryRequestAnswered ==
    \A n \in Requests :
        (n \in DOMAIN asked /\ asked[n] = "dataRequest")
        ~> (n \in ToSet(wire) \cup failed \/ ~running \/ fate # "runs")

\* When the file is stopped, and not resumed before they look, its threads
\* end, but for a sender with nothing to send, whom stop does not notify.
StoppedThreadsEnd ==
    ~running ~> \/ running \/ fate # "runs"
                \/ \A i \in Inst : /\ {requester[i], downloader[i]} \subseteq {"none", "ended"}
                                   /\ \/ sender[i] \in {"none", "ended"}
                                      \/ sender[i] = "blocked" /\ outbox = <<>>
=============================================================================
