--------------------------- MODULE TrackerStorage ---------------------------
(***************************************************************************)
(* The tracker of the server: TrackerDataStorage keeps which peer has      *)
(* which file, keyed by the second in which the announcement expires, and  *)
(* a thread of its own removes what has expired. The client threads call   *)
(* it through TrackerMessageHandling, and once more when a client leaves.  *)
(* Time is counted in seconds; the thread's sleeps end on time.            *)
(***************************************************************************)
EXTENDS Naturals, FiniteSetsExt, Functions

CONSTANTS
    File, Peer,
    Ttl,        \* TEN_MINUTES, in seconds
    Collisions, \* may two announcements arrive in one second
    MaxTime     \* bound: seconds that pass

ASSUME TtlAssumption == Ttl \in Nat \ {0} /\ Collisions \in BOOLEAN /\ MaxTime \in Nat

VARIABLES
    now,        \* time(nullptr)
    savedData,  \* the record that expires in a second: <<file, peer>>
    cleaner     \* the thread removeOldData: where it is, and when it wakes

storageVars == <<now, savedData, cleaner>>

StorageInit ==
    /\ now = 0
    /\ savedData = <<>>
    /\ cleaner = [pc |-> "erase", until |-> 0]

\* A map after an entry is written.
Put(m, k, v) == [x \in {k} \cup DOMAIN m |-> IF x = k THEN v ELSE m[x]]

\* saveData. A record of the same second is replaced.
SaveData(f, p) ==
    /\ Collisions \/ now + Ttl \notin DOMAIN savedData
    /\ savedData' = Put(savedData, now + Ttl, <<f, p>>)
    /\ UNCHANGED <<now, cleaner>>

\* getRegisteredData: the peers that have a file, without the one that asks.
Registered(f, me) == {savedData[t][2] : t \in {t \in DOMAIN savedData : savedData[t][1] = f}} \ {me}

\* removePeerData, when the thread of the client ends.
RemovePeerData(p) ==
    /\ savedData' = RestrictValues(savedData, LAMBDA r : r[2] # p)
    /\ UNCHANGED <<now, cleaner>>

\* What has not expired.
Live == {t \in DOMAIN savedData : t >= now}

\* removeOldData takes the mutex, erases and releases it ...
Erase ==
    /\ cleaner.pc = "erase"
    /\ savedData' = Restrict(savedData, Live)
    /\ cleaner' = [cleaner EXCEPT !.pc = "plan"]
    /\ UNCHANGED now

\* Mutant of Sleep: the default delay whatever there is.
SleepTen == Ttl

\* How long it then sleeps: to the next expiration, one second at least.
Sleep ==
    IF DOMAIN savedData = {} THEN Ttl - 1
    ELSE LET closest == Min(DOMAIN savedData \cup {now + Ttl})
         IN IF closest > now THEN closest - now ELSE 1

\* ... takes it again to look when to wake, and sleeps.
Plan ==
    /\ cleaner.pc = "plan"
    /\ cleaner' = [pc |-> "sleep", until |-> now + Sleep]
    /\ UNCHANGED <<now, savedData>>

Wake ==
    /\ cleaner.pc = "sleep" /\ cleaner.until <= now
    /\ cleaner' = [cleaner EXCEPT !.pc = "erase"]
    /\ UNCHANGED <<now, savedData>>

\* A second passes. The thread does its work within the second it wakes.
Tick ==
    /\ cleaner.pc = "sleep" /\ now < cleaner.until
    /\ now < MaxTime
    /\ now' = now + 1
    /\ UNCHANGED <<savedData, cleaner>>

StorageNext ==
    \/ \E f \in File, p \in Peer : SaveData(f, p)
    \/ \E p \in Peer : RemovePeerData(p)
    \/ Erase \/ Plan \/ Wake \/ Tick

StorageSpec == StorageInit /\ [][StorageNext]_storageVars

-----------------------------------------------------------------------------
(* Properties.                                                             *)

Records == {[file |-> savedData[t][1], peer |-> savedData[t][2], until |-> t] : t \in DOMAIN savedData}

Promise == INSTANCE TrackerPromise WITH clock <- now, listed <- Records

\* As long as no two announcements arrive in the same second, the storage
\* keeps the promise of the tracker.
KeepsPromise == Promise!PromiseSpec
=============================================================================
