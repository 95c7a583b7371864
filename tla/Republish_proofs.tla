-------------------------- MODULE Republish_proofs --------------------------
(***************************************************************************)
(* Theorems about the tracker and the client that announces its files: the *)
(* storage keeps the abstract promise, and what is announced is listed     *)
(* and announced again in time, for every set of files and peers, as long  *)
(* as no two announcements arrive in one second.                           *)
(***************************************************************************)
EXTENDS Republish, WellFoundedInduction, TLAPS

-----------------------------------------------------------------------------
(* Maps and minima.                                                        *)

\* A set of natural numbers has a least one.
LEMMA MinNat ==
    ASSUME NEW S, S \subseteq Nat, S # {}
    PROVE  Min(S) \in S /\ \A x \in S : Min(S) <= x
<1>1. \E x \in S : \A y \in S : ~ (<<y, x>> \in OpToRel(<, Nat))
    BY NatLessThanWellFounded, WFMin
<1>2. PICK x \in S : \A y \in S : ~ (<<y, x>> \in OpToRel(<, Nat))
    BY <1>1
<1>3. ASSUME NEW y \in S PROVE x <= y
    <2>1. x \in Nat /\ y \in Nat
        OBVIOUS
    <2>2. <<y, x>> \notin OpToRel(<, Nat)
        BY <1>2
    <2>3. ~ (y < x)
        BY <2>1, <2>2 DEF OpToRel
    <2> QED
        BY <2>1, <2>3
<1> QED
    BY <1>3 DEF Min

\* A map with one more entry.
LEMMA PutValues ==
    ASSUME NEW m, NEW k, NEW v
    PROVE  /\ DOMAIN Put(m, k, v) = {k} \cup DOMAIN m
           /\ Put(m, k, v)[k] = v
           /\ \A x \in DOMAIN m \ {k} : Put(m, k, v)[x] = m[x]
    BY DEF Put

-----------------------------------------------------------------------------
(* The storage.                                                            *)

StorageTypes ==
    /\ now \in Nat
    /\ DOMAIN savedData \subseteq Nat
    /\ cleaner \in [pc : {"erase", "plan", "sleep"}, until : Nat]

\* The thread does not sleep past the second after an expiration.
SleepInv ==
    /\ cleaner.pc = "plan" => \A t \in DOMAIN savedData : now <= t
    /\ cleaner.pc = "sleep" => /\ cleaner.until <= now + Ttl
                               /\ \A t \in DOMAIN savedData : cleaner.until <= t + 1

StorageInv == StorageTypes /\ SleepInv

LEMMA Storage_Init == StorageInit => StorageInv
    BY DEF StorageInit, StorageInv, StorageTypes, SleepInv

LEMMA Storage_SaveData ==
    ASSUME StorageInv, NEW f, NEW p, SaveData(f, p)
    PROVE  StorageInv'
<1>1. now + Ttl \in Nat
    BY TtlAssumption DEF StorageInv, StorageTypes
<1>2. DOMAIN savedData' = {now + Ttl} \cup DOMAIN savedData
    BY PutValues DEF SaveData
<1>3. UNCHANGED <<now, cleaner>>
    BY DEF SaveData
<1> QED
    BY <1>1, <1>2, <1>3, TtlAssumption DEF StorageInv, StorageTypes, SleepInv

LEMMA Storage_Remove ==
    ASSUME StorageInv, NEW S, S \subseteq DOMAIN savedData,
           savedData' = Restrict(savedData, S), UNCHANGED <<now, cleaner>>
    PROVE  StorageInv'
    BY DEF Restrict, StorageInv, StorageTypes, SleepInv

LEMMA SleepBounds ==
    ASSUME StorageInv, cleaner.pc = "plan"
    PROVE  /\ Sleep \in Nat /\ Sleep <= Ttl
           /\ \A t \in DOMAIN savedData : now + Sleep <= t + 1
<1> USE TtlAssumption DEF StorageInv, StorageTypes, SleepInv
<1>1. CASE DOMAIN savedData = {}
    BY <1>1 DEF Sleep
<1>2. CASE DOMAIN savedData # {}
    <2> DEFINE T == DOMAIN savedData \cup {now + Ttl}
    <2>1. Min(T) \in T /\ \A x \in T : Min(T) <= x
        BY MinNat
    <2> HIDE DEF T
    <2>2. Sleep = IF Min(T) > now THEN Min(T) - now ELSE 1
        BY <1>2 DEF Sleep, T
    <2>3. now + Ttl \in T /\ DOMAIN savedData \subseteq T /\ T \subseteq Nat
        BY DEF T
    <2>4. \A t \in T : now <= t
        BY DEF T
    <2>5. Min(T) \in Nat /\ now <= Min(T) /\ Min(T) <= now + Ttl
        BY <2>1, <2>3, <2>4
    <2>6. \A t \in DOMAIN savedData : t \in Nat /\ Min(T) <= t
        BY <2>1, <2>3
    <2> QED
        BY <2>2, <2>5, <2>6
<1> QED
    BY <1>1, <1>2

LEMMA Storage_Step ==
    ASSUME StorageInv, [StorageNext]_storageVars
    PROVE  StorageInv'
<1>1. ASSUME NEW f \in File, NEW p \in Peer, SaveData(f, p) PROVE StorageInv'
    BY <1>1, Storage_SaveData
<1>2. ASSUME NEW p \in Peer, RemovePeerData(p) PROVE StorageInv'
    <2> DEFINE S == {t \in DOMAIN savedData : savedData[t][2] # p}
    <2>1. savedData' = Restrict(savedData, S) /\ UNCHANGED <<now, cleaner>>
        BY <1>2 DEF RemovePeerData, RestrictValues
    <2> QED
        BY <2>1, Storage_Remove
<1>3. CASE Erase
    <2>1. savedData' = Restrict(savedData, Live) /\ UNCHANGED now
          /\ cleaner' = [cleaner EXCEPT !.pc = "plan"]
        BY <1>3 DEF Erase
    <2>2. DOMAIN savedData' = Live
        BY <2>1 DEF Restrict
    <2> QED
        BY <2>1, <2>2 DEF Live, StorageInv, StorageTypes, SleepInv
<1>4. CASE Plan
    BY <1>4, SleepBounds, TtlAssumption DEF Plan, StorageInv, StorageTypes, SleepInv
<1>5. CASE Wake
    BY <1>5 DEF Wake, StorageInv, StorageTypes, SleepInv
<1>6. CASE Tick
    BY <1>6, TtlAssumption DEF Tick, StorageInv, StorageTypes, SleepInv
<1>7. CASE UNCHANGED storageVars
    BY <1>7 DEF storageVars, StorageInv, StorageTypes, SleepInv
<1> QED
    BY <1>1, <1>2, <1>3, <1>4, <1>5, <1>6, <1>7 DEF StorageNext

-----------------------------------------------------------------------------
(* The refinement.                                                         *)

LEMMA Promise_Init == StorageInit => Promise!PromiseInit
    BY DEF StorageInit, Records, Promise!PromiseInit

\* A record is an announcement that is remembered.
LEMMA Promise_Step ==
    ASSUME Collisions = FALSE, StorageInv, [StorageNext]_storageVars
    PROVE  [Promise!PromiseNext]_(Promise!promiseVars)
<1> USE DEF Promise!promiseVars, Promise!PromiseNext
<1>1. ASSUME NEW f \in File, NEW p \in Peer, SaveData(f, p) PROVE Promise!Announced(f, p)
    <2>1. now + Ttl \notin DOMAIN savedData /\ UNCHANGED now
        BY <1>1 DEF SaveData
    <2>2. savedData' = Put(savedData, now + Ttl, <<f, p>>)
        BY <1>1 DEF SaveData
    <2>3. /\ DOMAIN savedData' = {now + Ttl} \cup DOMAIN savedData
          /\ savedData'[now + Ttl] = <<f, p>>
          /\ \A t \in DOMAIN savedData \ {now + Ttl} : savedData'[t] = savedData[t]
        <3> DEFINE put == Put(savedData, now + Ttl, <<f, p>>)
        <3>1. /\ DOMAIN put = {now + Ttl} \cup DOMAIN savedData
              /\ put[now + Ttl] = <<f, p>>
              /\ \A t \in DOMAIN savedData \ {now + Ttl} : put[t] = savedData[t]
            BY DEF Put
        <3>2. savedData' = put
            BY <2>2
        <3> HIDE DEF put
        <3> QED
            BY <3>1, <3>2
    <2>4. Records' = Records \cup {[file |-> f, peer |-> p, until |-> now + Ttl]}
        BY <2>1, <2>3 DEF Records
    <2> QED
        BY <2>1, <2>4 DEF Promise!Announced
<1>2. ASSUME NEW p \in Peer, RemovePeerData(p) PROVE Promise!Departed(p)
    <2> DEFINE S == {t \in DOMAIN savedData : savedData[t][2] # p}
    <2>1. savedData' = Restrict(savedData, S) /\ UNCHANGED now
        BY <1>2 DEF RemovePeerData, RestrictValues
    <2>2. DOMAIN savedData' = S /\ \A t \in S : savedData'[t] = savedData[t]
        BY <2>1 DEF Restrict
    <2>3. Records' = {a \in Records : a.peer # p}
        BY <2>2 DEF Records
    <2> QED
        BY <2>1, <2>3 DEF Promise!Departed
<1>3. CASE Erase
    <2>1. savedData' = Restrict(savedData, Live) /\ UNCHANGED now
        BY <1>3 DEF Erase
    <2>2. DOMAIN savedData' = Live /\ \A t \in Live : savedData'[t] = savedData[t]
        BY <2>1 DEF Restrict
    <2>3. Records' = {a \in Records : a.until >= now}
        BY <2>2 DEF Records, Live
    <2> QED
        BY <2>1, <2>3 DEF Promise!Forgotten
<1>4. CASE Plan \/ Wake
    BY <1>4 DEF Plan, Wake, Records
<1>5. CASE Tick
    <2>1. now' = now + 1 /\ UNCHANGED savedData /\ cleaner.pc = "sleep" /\ now < cleaner.until
        BY <1>5 DEF Tick
    <2>2. \A t \in DOMAIN savedData : now <= t
        BY <2>1 DEF StorageInv, StorageTypes, SleepInv
    <2>3. \A a \in Records : now <= a.until
        BY <2>2 DEF Records
    <2>4. UNCHANGED Records
        BY <2>1 DEF Records
    <2> QED
        BY <2>1, <2>3, <2>4 DEF Promise!Second
<1>6. CASE UNCHANGED storageVars
    BY <1>6 DEF storageVars, Records
<1> QED
    BY <1>1, <1>2, <1>3, <1>4, <1>5, <1>6 DEF StorageNext

-----------------------------------------------------------------------------
(* The client.                                                             *)

\* The times of the next announcements.
Times == UNION {[D -> Nat] : D \in SUBSET File}

Walker == [pc : {"walk", "publish", "sleep"}, current : Nat, held : Nat,
           file : File \cup {NoFile}, until : Nat]

ClientTypes ==
    /\ mine \in [Publisher -> Times]
    /\ saver \in [Publisher -> File \cup {NoFile}]
    /\ walker \in [Publisher -> Walker]
    /\ sent \in [Publisher -> Seq(File)]
    /\ answers \in [Publisher -> Nat]

\* No time lies ahead of what the server will remember.
TimesInv(p) ==
    /\ walker[p].current <= now
    /\ walker[p].pc = "publish" => walker[p].file \in File
    /\ \A f \in DOMAIN mine[p] : mine[p][f] <= now + Ttl

ClientTimes == \A p \in Publisher : TimesInv(p)

\* Until this time the peer is listed, or will be when its request is handled.
Covered(p, f, until) ==
    now <= until => \/ InFlight(p, f)
                    \/ \E t \in DOMAIN savedData : savedData[t] = <<f, p>> /\ until <= t

\* What is covered is covered until the next announcement, and until the time
\* the walk is about to write.
ListedInv(p) ==
    /\ \A f \in DOMAIN mine[p] : Covered(p, f, mine[p][f])
    /\ walker[p].pc = "publish" => Covered(p, walker[p].file, walker[p].current + Ttl)

\* The thread wakes in time for every announcement.
RoundInv(p) ==
    walker[p].pc = "sleep" =>
        /\ walker[p].until <= now + Ttl
        /\ \A f \in DOMAIN mine[p] :
              /\ walker[p].current <= mine[p][f]
              /\ walker[p].until <= mine[p][f] + walker[p].held
              /\ now <= mine[p][f] + 1 + walker[p].held

LEMMA PutTimes ==
    ASSUME NEW m \in Times, NEW f \in File, NEW n \in Nat
    PROVE  Put(m, f, n) \in Times
<1>1. PICK D \in SUBSET File : m \in [D -> Nat]
    BY DEF Times
<1>2. Put(m, f, n) \in [{f} \cup D -> Nat]
    BY <1>1 DEF Put
<1> QED
    BY <1>2 DEF Times

LEMMA RestrictTimes ==
    ASSUME NEW m \in Times, NEW S \in SUBSET DOMAIN m
    PROVE  Restrict(m, S) \in Times
<1>1. PICK D \in SUBSET File : m \in [D -> Nat]
    BY DEF Times
<1>2. Restrict(m, S) \in [S -> Nat] /\ S \in SUBSET File
    BY <1>1 DEF Restrict
<1> QED
    BY <1>2 DEF Times

LEMMA TimesValues ==
    ASSUME NEW m \in Times
    PROVE  DOMAIN m \subseteq File /\ \A f \in DOMAIN m : m[f] \in Nat
    BY DEF Times

\* The sleep ends before the next announcement is due.
LEMMA WalkSleepBounds ==
    ASSUME ClientTypes, NEW p \in Publisher, Due(p) = {}
    PROVE  /\ WalkSleep(p) \in Nat /\ WalkSleep(p) <= Ttl
           /\ \A f \in DOMAIN mine[p] : WalkSleep(p) <= mine[p][f] - walker[p].current
<1>1. walker[p].current \in Nat /\ mine[p] \in Times
    BY DEF ClientTypes, Walker
<1>2. \A f \in DOMAIN mine[p] : mine[p][f] \in Nat /\ walker[p].current <= mine[p][f]
    BY <1>1, TimesValues DEF Due
<1>3. CASE DOMAIN mine[p] = {}
    BY <1>3, TtlAssumption DEF WalkSleep
<1>4. CASE DOMAIN mine[p] # {}
    <2> DEFINE T == {mine[p][f] : f \in DOMAIN mine[p]} \cup {walker[p].current + Ttl}
    <2>1. T \subseteq Nat /\ T # {} /\ \A t \in T : walker[p].current <= t
        BY <1>1, <1>2, TtlAssumption
    <2>2. walker[p].current + Ttl \in T /\ \A f \in DOMAIN mine[p] : mine[p][f] \in T
        OBVIOUS
    <2> HIDE DEF T
    <2>3. Min(T) \in T /\ \A t \in T : Min(T) <= t
        BY <2>1, MinNat
    <2>4. WalkSleep(p) = Min(T) - walker[p].current
        BY <1>4 DEF WalkSleep, T
    <2>5. /\ Min(T) \in Nat /\ walker[p].current <= Min(T)
          /\ Min(T) <= walker[p].current + Ttl
          /\ \A f \in DOMAIN mine[p] : Min(T) <= mine[p][f]
        BY <2>1, <2>2, <2>3
    <2> QED
        BY <1>1, <1>2, <2>4, <2>5, TtlAssumption
<1> QED
    BY <1>3, <1>4

-----------------------------------------------------------------------------
(* Requests under way.                                                     *)

LEMMA AppendSent ==
    ASSUME NEW s \in Seq(File), NEW f \in File
    PROVE  /\ Append(s, f) \in Seq(File)
           /\ \A g : (\E i \in DOMAIN s : s[i] = g) => \E i \in DOMAIN Append(s, f) : Append(s, f)[i] = g
           /\ \E i \in DOMAIN Append(s, f) : Append(s, f)[i] = f
<1>1. Append(s, f) \in Seq(File) /\ Append(s, f)[Len(s) + 1] = f /\ Len(s) + 1 \in DOMAIN Append(s, f)
    OBVIOUS
<1>2. \A i \in DOMAIN s : i \in DOMAIN Append(s, f) /\ Append(s, f)[i] = s[i]
    OBVIOUS
<1> QED
    BY <1>1, <1>2

LEMMA TailSent ==
    ASSUME NEW s \in Seq(File), s # <<>>
    PROVE  /\ Head(s) \in File /\ Tail(s) \in Seq(File)
           /\ \A g : (\E i \in DOMAIN s : s[i] = g) =>
                        g = Head(s) \/ \E i \in DOMAIN Tail(s) : Tail(s)[i] = g
<1>1. Head(s) \in File /\ Tail(s) \in Seq(File) /\ Head(s) = s[1]
    OBVIOUS
<1>2. \A i \in DOMAIN s : i # 1 => i - 1 \in DOMAIN Tail(s) /\ Tail(s)[i - 1] = s[i]
    OBVIOUS
<1> QED
    BY <1>1, <1>2

-----------------------------------------------------------------------------
(* A step of a peer, its request at the server and a stranger are steps of *)
(* the storage or leave it alone.                                          *)

LEMMA StorageSteps ==
    ASSUME ClientTypes, [Next]_vars
    PROVE  [StorageNext]_storageVars
<1> USE PublisherAssumption
<1>1. ASSUME NEW p \in Publisher, EndSave(p) \/ WalkerStep(p) PROVE UNCHANGED storageVars
    BY <1>1 DEF EndSave, WalkerStep, Publish, Published, EndWalk, BeginWalk
<1>2. ASSUME NEW p \in Publisher, HandleStore(p) PROVE StorageNext
    <2>1. Head(sent[p]) \in File /\ p \in Peer
        BY <1>2, TailSent DEF ClientTypes, HandleStore
    <2> QED
        BY <1>2, <2>1 DEF HandleStore, StorageNext
<1>3. ASSUME NEW p \in Publisher, NEW f \in File, BeginSave(p, f) \/ StopRepublish(p, f)
      PROVE  UNCHANGED storageVars
    BY <1>3 DEF BeginSave, StopRepublish
<1>4. CASE Cleaner \/ Stranger \/ Second
    BY <1>4 DEF Cleaner, Stranger, Second, StorageNext
<1>5. CASE UNCHANGED vars
    BY <1>5 DEF vars
<1> QED
    BY <1>1, <1>2, <1>3, <1>4, <1>5 DEF Next

\* A step of the thread leaves it in its type.
LEMMA WalkerSet ==
    ASSUME ClientTypes, NEW p \in Publisher, NEW w \in Walker, walker' = [walker EXCEPT ![p] = w]
    PROVE  walker' \in [Publisher -> Walker]
    BY DEF ClientTypes

LEMMA WalkerSteps ==
    ASSUME ClientTypes, NEW p \in Publisher, NEW f \in File \cup {NoFile}, NEW n \in Nat, NEW m \in Nat
    PROVE  /\ [walker[p] EXCEPT !.pc = "publish", !.file = f] \in Walker
           /\ [walker[p] EXCEPT !.pc = "walk", !.file = NoFile] \in Walker
           /\ [walker[p] EXCEPT !.pc = "sleep", !.until = n, !.held = m] \in Walker
           /\ [walker[p] EXCEPT !.pc = "walk", !.current = n] \in Walker
<1>1. walker[p] \in Walker
    BY DEF ClientTypes
<1> QED
    BY <1>1 DEF Walker

LEMMA Types_Init == Init => ClientTypes
<1> SUFFICES ASSUME Init PROVE ClientTypes
    OBVIOUS
<1>1. <<>> \in Times
    <2>1. <<>> \in [{} -> Nat]
        OBVIOUS
    <2> QED
        BY <2>1 DEF Times
<1> QED
    BY <1>1 DEF Init, ClientTypes, Walker

LEMMA Types_Step ==
    ASSUME StorageTypes, ClientTypes, ClientTimes, [Next]_vars
    PROVE  ClientTypes'
<1> USE TtlAssumption DEF ClientTypes, StorageTypes
<1>1. ASSUME NEW p \in Publisher, EndSave(p) PROVE ClientTypes'
    BY <1>1 DEF EndSave, TakeAnswer
<1>2. ASSUME NEW p \in Publisher, Publish(p) PROVE ClientTypes'
    <2>1. PICK f \in Due(p) : /\ Send(p, f)
                              /\ walker' = [walker EXCEPT ![p].pc = "publish", ![p].file = f]
        BY <1>2 DEF Publish
    <2>2. f \in File
        BY TimesValues DEF Due
    <2>3. sent' \in [Publisher -> Seq(File)]
        BY <2>1, <2>2, AppendSent DEF Send
    <2>4. UNCHANGED <<mine, saver, answers>>
        BY <1>2 DEF Publish
    <2>5. walker' = [walker EXCEPT ![p] = [walker[p] EXCEPT !.pc = "publish", !.file = f]]
        BY <2>1
    <2>6. walker' \in [Publisher -> Walker]
        BY <2>2, <2>5, WalkerSet, WalkerSteps
    <2> QED
        BY <2>3, <2>4, <2>6
<1>3. ASSUME NEW p \in Publisher, Published(p) PROVE ClientTypes'
    <2>1. NextTime(p) \in Nat
        BY DEF NextTime, Walker
    <2>2. mine' \in [Publisher -> Times]
        <3>1. CASE walker[p].file \in DOMAIN mine[p]
            <4>1. PICK D \in SUBSET File : mine[p] \in [D -> Nat]
                BY DEF Times
            <4>2. [mine[p] EXCEPT ![walker[p].file] = NextTime(p)] \in [D -> Nat]
                BY <2>1, <4>1
            <4>3. [mine[p] EXCEPT ![walker[p].file] = NextTime(p)] \in Times
                BY <4>2 DEF Times
            <4>4. mine' = [mine EXCEPT ![p] = [mine[p] EXCEPT ![walker[p].file] = NextTime(p)]]
                BY <1>3, <3>1 DEF Published
            <4> QED
                BY <4>3, <4>4
        <3>2. CASE walker[p].file \notin DOMAIN mine[p]
            BY <1>3, <3>2 DEF Published
        <3> QED
            BY <3>1, <3>2
    <2>3. walker' = [walker EXCEPT ![p] = [walker[p] EXCEPT !.pc = "walk", !.file = NoFile]]
        BY <1>3 DEF Published
    <2>4. walker' \in [Publisher -> Walker]
        BY <2>3, WalkerSet, WalkerSteps
    <2>5. answers' \in [Publisher -> Nat] /\ UNCHANGED <<saver, sent>>
        BY <1>3 DEF Published, TakeAnswer
    <2> QED
        BY <2>2, <2>4, <2>5
<1>4. ASSUME NEW p \in Publisher, EndWalk(p) PROVE ClientTypes'
    <2>1. WalkSleep(p) \in Nat
        BY <1>4, WalkSleepBounds DEF EndWalk
    <2>2. now + WalkSleep(p) \in Nat /\ now - walker[p].current \in Nat
        BY <2>1 DEF ClientTimes, TimesInv, Walker
    <2>3. walker' = [walker EXCEPT ![p] = [walker[p] EXCEPT !.pc = "sleep", !.until = now + WalkSleep(p),
                                                            !.held = now - walker[p].current]]
        BY <1>4 DEF EndWalk
    <2>4. walker' \in [Publisher -> Walker]
        BY <2>2, <2>3, WalkerSet, WalkerSteps
    <2>5. UNCHANGED <<mine, saver, sent, answers>>
        BY <1>4 DEF EndWalk
    <2> QED
        BY <2>4, <2>5
<1>5. ASSUME NEW p \in Publisher, BeginWalk(p) PROVE ClientTypes'
    <2>1. walker' = [walker EXCEPT ![p] = [walker[p] EXCEPT !.pc = "walk", !.current = now]]
        BY <1>5 DEF BeginWalk
    <2>2. walker' \in [Publisher -> Walker]
        BY <2>1, WalkerSet, WalkerSteps
    <2> QED
        BY <1>5, <2>2 DEF BeginWalk
<1>6. ASSUME NEW p \in Publisher, HandleStore(p) PROVE ClientTypes'
    <2>1. Tail(sent[p]) \in Seq(File)
        BY <1>6, TailSent DEF HandleStore
    <2> QED
        BY <1>6, <2>1 DEF HandleStore
<1>7. ASSUME NEW p \in Publisher, NEW f \in File, BeginSave(p, f) PROVE ClientTypes'
    <2>1. Put(mine[p], f, now + Ttl) \in Times
        BY PutTimes
    <2>2. Append(sent[p], f) \in Seq(File)
        BY AppendSent
    <2> QED
        BY <1>7, <2>1, <2>2 DEF BeginSave, Send
<1>8. ASSUME NEW p \in Publisher, NEW f \in File, StopRepublish(p, f) PROVE ClientTypes'
    <2>1. Restrict(mine[p], DOMAIN mine[p] \ {f}) \in Times
        BY RestrictTimes
    <2> QED
        BY <1>8, <2>1 DEF StopRepublish
<1>9. CASE Cleaner \/ Stranger \/ Second \/ UNCHANGED vars
    BY <1>9 DEF Cleaner, Stranger, Second, vars, peerVars
<1> QED
    BY <1>1, <1>2, <1>3, <1>4, <1>5, <1>6, <1>7, <1>8, <1>9 DEF Next, WalkerStep

-----------------------------------------------------------------------------
(* What a step does to the records.                                        *)

\* No record of a peer that has not expired gets lost, and time does not go back.
RecordsKept ==
    /\ now <= now'
    /\ \A p \in Publisher : \A t \in DOMAIN savedData :
          savedData[t][2] = p /\ now' <= t =>
              t \in DOMAIN savedData' /\ savedData'[t] = savedData[t]

LEMMA SaveKeeps ==
    ASSUME Collisions = FALSE, NEW f, NEW p, SaveData(f, p)
    PROVE  /\ now' = now
           /\ now + Ttl \in DOMAIN savedData' /\ savedData'[now + Ttl] = <<f, p>>
           /\ \A t \in DOMAIN savedData : t \in DOMAIN savedData' /\ savedData'[t] = savedData[t]
    BY DEF SaveData, Put

LEMMA RecordsStep ==
    ASSUME Collisions = FALSE, StorageTypes, ClientTypes, [Next]_vars
    PROVE  RecordsKept
<1> USE DEF RecordsKept, StorageTypes
<1>1. ASSUME UNCHANGED <<now, savedData>> PROVE RecordsKept
    BY <1>1
<1>2. ASSUME NEW f, NEW p, SaveData(f, p) PROVE RecordsKept
    <2>1. /\ now' = now
          /\ \A t \in DOMAIN savedData : t \in DOMAIN savedData' /\ savedData'[t] = savedData[t]
        BY <1>2, SaveKeeps
    <2>2. now <= now'
        BY <2>1
    <2> QED
        BY <2>1, <2>2, Zenon
<1>3. ASSUME NEW p \in Peer \ Publisher, RemovePeerData(p) PROVE RecordsKept
    <2> DEFINE S == {t \in DOMAIN savedData : savedData[t][2] # p}
    <2>1. savedData' = Restrict(savedData, S) /\ UNCHANGED now
        BY <1>3 DEF RemovePeerData, RestrictValues
    <2>2. DOMAIN savedData' = S /\ \A t \in S : savedData'[t] = savedData[t]
        BY <2>1 DEF Restrict
    <2>3. now <= now' /\ \A q \in Publisher : q # p
        BY <2>1
    <2>4. ASSUME NEW q \in Publisher, NEW t \in DOMAIN savedData, savedData[t][2] = q
          PROVE  t \in DOMAIN savedData' /\ savedData'[t] = savedData[t]
        <3>1. t \in S
            BY <2>3, <2>4
        <3> QED
            BY <2>2, <3>1, Zenon
    <2> QED
        BY <2>3, <2>4, Zenon
<1>4. CASE Cleaner
    <2>1. CASE Erase
        <3>1. savedData' = Restrict(savedData, Live) /\ UNCHANGED now
            BY <2>1 DEF Erase
        <3>2. DOMAIN savedData' = Live /\ \A t \in Live : savedData'[t] = savedData[t]
            BY <3>1 DEF Restrict
        <3> QED
            BY <3>1, <3>2 DEF Live
    <2> QED
        BY <1>1, <1>4, <2>1 DEF Cleaner, Plan, Wake
<1>5. CASE Second
    BY <1>5 DEF Second, Tick
<1>6. ASSUME NEW p \in Publisher, EndSave(p) \/ WalkerStep(p) PROVE RecordsKept
    BY <1>1, <1>6 DEF EndSave, WalkerStep, Publish, Published, EndWalk, BeginWalk, storageVars
<1>7. ASSUME NEW p \in Publisher, HandleStore(p) PROVE RecordsKept
    BY <1>2, <1>7 DEF HandleStore
<1>8. ASSUME NEW p \in Publisher, NEW f \in File, BeginSave(p, f) \/ StopRepublish(p, f)
      PROVE  RecordsKept
    BY <1>1, <1>8 DEF BeginSave, StopRepublish, storageVars
<1>9. CASE UNCHANGED vars
    BY <1>1, <1>9 DEF vars, storageVars
<1> QED
    BY <1>2, <1>3, <1>4, <1>5, <1>6, <1>7, <1>8, <1>9 DEF Next, Stranger

-----------------------------------------------------------------------------
(* What a step does to a peer.                                             *)

\* A request under way stays under way or is remembered.
LEMMA SentStep ==
    ASSUME Collisions = FALSE, ClientTypes, [Next]_vars,
           NEW p \in Publisher, NEW f, InFlight(p, f)
    PROVE  \/ InFlight(p, f)'
           \/ now + Ttl \in DOMAIN savedData' /\ savedData'[now + Ttl] = <<f, p>>
<1> DEFINE Goal == \/ InFlight(p, f)'
                   \/ now + Ttl \in DOMAIN savedData' /\ savedData'[now + Ttl] = <<f, p>>
<1>1. sent \in [Publisher -> Seq(File)]
    BY DEF ClientTypes
<1>2. ASSUME sent'[p] = sent[p] PROVE Goal
    BY <1>2 DEF InFlight
<1>3. ASSUME NEW q \in Publisher, NEW g \in File, Send(q, g) PROVE Goal
    <2>1. CASE q = p
        <3>1. sent'[p] = Append(sent[p], g)
            BY <1>1, <1>3, <2>1 DEF Send
        <3>2. \E i \in DOMAIN sent[p] : sent[p][i] = f
            BY DEF InFlight
        <3>3. \E i \in DOMAIN Append(sent[p], g) : Append(sent[p], g)[i] = f
            <4> DEFINE s == sent[p]
            <4>1. s \in Seq(File) /\ \E i \in DOMAIN s : s[i] = f
                BY <1>1, <3>2
            <4> HIDE DEF s
            <4>2. \E i \in DOMAIN Append(s, g) : Append(s, g)[i] = f
                BY <4>1, AppendSent
            <4> QED
                BY <4>2 DEF s
        <3> QED
            BY <3>1, <3>3 DEF InFlight
    <2>2. CASE q # p
        BY <1>1, <1>2, <1>3, <2>2 DEF Send
    <2> QED
        BY <2>1, <2>2
<1>4. ASSUME NEW q \in Publisher, HandleStore(q) PROVE Goal
    <2>1. CASE q = p
        <3>1. sent[p] # <<>> /\ sent'[p] = Tail(sent[p]) /\ SaveData(Head(sent[p]), p)
            BY <1>1, <1>4, <2>1 DEF HandleStore
        <3>2. f = Head(sent[p]) \/ \E i \in DOMAIN Tail(sent[p]) : Tail(sent[p])[i] = f
            BY <1>1, <3>1, TailSent DEF InFlight
        <3> QED
            BY <3>1, <3>2, SaveKeeps DEF InFlight
    <2>2. CASE q # p
        BY <1>1, <1>2, <1>4, <2>2 DEF HandleStore
    <2> QED
        BY <2>1, <2>2
<1>5. ASSUME NEW q \in Publisher, Publish(q) PROVE Goal
    <2>1. PICK g \in Due(q) : Send(q, g)
        BY <1>5 DEF Publish
    <2>2. g \in File
        BY TimesValues DEF Due, ClientTypes
    <2> QED
        BY <1>3, <2>1, <2>2
<1>6. ASSUME NEW q \in Publisher, EndSave(q) \/ Published(q) \/ EndWalk(q) \/ BeginWalk(q) PROVE Goal
    BY <1>2, <1>6 DEF EndSave, Published, EndWalk, BeginWalk
<1>7. ASSUME NEW q \in Publisher, NEW g \in File, BeginSave(q, g) \/ StopRepublish(q, g) PROVE Goal
    BY <1>2, <1>3, <1>7 DEF BeginSave, StopRepublish
<1>8. CASE Cleaner \/ Stranger \/ Second \/ UNCHANGED vars
    BY <1>2, <1>8 DEF Cleaner, Stranger, Second, vars, peerVars
<1> QED
    BY <1>4, <1>5, <1>6, <1>7, <1>8 DEF Next, WalkerStep

\* A next announcement is only moved when one is sent or answered.
LEMMA MineStep ==
    ASSUME ClientTypes, [Next]_vars, NEW p \in Publisher, NEW f \in DOMAIN mine'[p]
    PROVE  \/ f \in DOMAIN mine[p] /\ mine'[p][f] = mine[p][f]
           \/ mine'[p][f] = now + Ttl /\ InFlight(p, f)'
           \/ /\ walker[p].pc = "publish" /\ f = walker[p].file
              /\ mine'[p][f] = walker[p].current + Ttl
<1> DEFINE Goal == \/ f \in DOMAIN mine[p] /\ mine'[p][f] = mine[p][f]
                   \/ mine'[p][f] = now + Ttl /\ InFlight(p, f)'
                   \/ /\ walker[p].pc = "publish" /\ f = walker[p].file
                      /\ mine'[p][f] = walker[p].current + Ttl
<1>1. mine \in [Publisher -> Times] /\ sent \in [Publisher -> Seq(File)]
    BY DEF ClientTypes
<1>2. ASSUME mine'[p] = mine[p] PROVE Goal
    BY <1>2
<1>3. ASSUME NEW q \in Publisher, NEW g \in File, BeginSave(q, g) PROVE Goal
    <2>1. CASE q = p
        <3>1. mine'[p] = Put(mine[p], g, now + Ttl) /\ sent'[p] = Append(sent[p], g)
            BY <1>1, <1>3, <2>1 DEF BeginSave, Send
        <3>2. CASE f = g
            <4>1. mine'[p][f] = now + Ttl
                BY <3>1, <3>2 DEF Put
            <4>2. sent[p] \in Seq(File)
                BY <1>1
            <4>3. \E i \in DOMAIN sent'[p] : sent'[p][i] = f
                BY <3>1, <3>2, <4>2, AppendSent
            <4> QED
                BY <4>1, <4>3 DEF InFlight
        <3>3. CASE f # g
            BY <3>1, <3>3 DEF Put
        <3> QED
            BY <3>2, <3>3
    <2>2. CASE q # p
        BY <1>1, <1>2, <1>3, <2>2 DEF BeginSave
    <2> QED
        BY <2>1, <2>2
<1>4. ASSUME NEW q \in Publisher, NEW g \in File, StopRepublish(q, g) PROVE Goal
    <2>1. CASE q = p
        <3>1. mine'[p] = Restrict(mine[p], DOMAIN mine[p] \ {g})
            BY <1>1, <1>4, <2>1 DEF StopRepublish
        <3> QED
            BY <3>1 DEF Restrict
    <2>2. CASE q # p
        BY <1>1, <1>2, <1>4, <2>2 DEF StopRepublish
    <2> QED
        BY <2>1, <2>2
<1>5. ASSUME NEW q \in Publisher, Published(q) PROVE Goal
    <2>1. CASE q = p /\ walker[p].file \in DOMAIN mine[p]
        <3>1. mine'[p] = [mine[p] EXCEPT ![walker[p].file] = NextTime(p)] /\ walker[p].pc = "publish"
            BY <1>1, <1>5, <2>1 DEF Published
        <3>2. CASE f = walker[p].file
            BY <2>1, <3>1, <3>2 DEF NextTime
        <3>3. CASE f # walker[p].file
            BY <3>1, <3>3
        <3> QED
            BY <3>2, <3>3
    <2>2. CASE ~(q = p /\ walker[p].file \in DOMAIN mine[p])
        BY <1>1, <1>2, <1>5, <2>2 DEF Published
    <2> QED
        BY <2>1, <2>2
<1>6. ASSUME NEW q \in Publisher, EndSave(q) \/ Publish(q) \/ EndWalk(q) \/ BeginWalk(q) \/ HandleStore(q)
      PROVE  Goal
    BY <1>2, <1>6 DEF EndSave, Publish, EndWalk, BeginWalk, HandleStore
<1>7. CASE Cleaner \/ Stranger \/ Second \/ UNCHANGED vars
    BY <1>2, <1>7 DEF Cleaner, Stranger, Second, vars, peerVars
<1> QED
    BY <1>3, <1>4, <1>5, <1>6, <1>7 DEF Next, WalkerStep

\* The thread of a peer moves alone; time moves only if it is not at work.
WalkerStays(p) == walker'[p] = walker[p] /\ (now' = now \/ (now' = now + 1 /\ ~Working(p)))

WalkerPublishes(p) ==
    /\ now' = now /\ mine' = mine
    /\ \E f \in File : /\ InFlight(p, f)'
                       /\ walker'[p] = [walker[p] EXCEPT !.pc = "publish", !.file = f]

WalkerWalks(p) ==
    /\ now' = now
    /\ \/ walker'[p] = [walker[p] EXCEPT !.pc = "walk", !.file = NoFile]
       \/ walker'[p] = [walker[p] EXCEPT !.pc = "walk", !.current = now]

WalkerSleeps(p) ==
    /\ now' = now /\ mine' = mine /\ Due(p) = {}
    /\ walker'[p] = [walker[p] EXCEPT !.pc = "sleep", !.until = now + WalkSleep(p),
                                      !.held = now - walker[p].current]

LEMMA WalkerMoves ==
    ASSUME StorageTypes, ClientTypes, [Next]_vars, NEW p \in Publisher
    PROVE  WalkerStays(p) \/ WalkerPublishes(p) \/ WalkerWalks(p) \/ WalkerSleeps(p)
<1> DEFINE Goal == WalkerStays(p) \/ WalkerPublishes(p) \/ WalkerWalks(p) \/ WalkerSleeps(p)
<1>1. walker \in [Publisher -> Walker] /\ sent \in [Publisher -> Seq(File)]
    BY DEF ClientTypes
<1>2. ASSUME walker'[p] = walker[p], now' = now PROVE Goal
    <2>1. WalkerStays(p)
        BY <1>2 DEF WalkerStays
    <2> QED
        BY <2>1
<1>3. ASSUME NEW q \in Publisher, Publish(q) PROVE Goal
    <2>1. PICK f \in Due(q) : /\ Send(q, f)
                              /\ walker' = [walker EXCEPT ![q].pc = "publish", ![q].file = f]
        BY <1>3 DEF Publish
    <2>2. f \in File /\ now' = now /\ mine' = mine
        BY <1>3, TimesValues DEF Due, ClientTypes, Publish, storageVars
    <2>3. CASE q = p
        <3>1. walker'[p] = [walker[p] EXCEPT !.pc = "publish", !.file = f]
            BY <1>1, <2>1, <2>3
        <3>2. sent'[p] = Append(sent[p], f)
            BY <1>1, <2>1, <2>3 DEF Send
        <3>3. InFlight(p, f)'
            BY <1>1, <2>2, <3>2, AppendSent DEF InFlight
        <3> QED
            BY <2>2, <3>1, <3>3 DEF WalkerPublishes
    <2>4. CASE q # p
        BY <1>1, <1>2, <2>1, <2>2, <2>4
    <2> QED
        BY <2>3, <2>4
<1>4. ASSUME NEW q \in Publisher, Published(q) \/ BeginWalk(q) PROVE Goal
    <2>1. now' = now
        BY <1>4 DEF Published, BeginWalk, storageVars
    <2>2. CASE q = p
        BY <1>1, <1>4, <2>1, <2>2 DEF Published, BeginWalk, WalkerWalks
    <2>3. CASE q # p
        BY <1>1, <1>2, <1>4, <2>1, <2>3 DEF Published, BeginWalk
    <2> QED
        BY <2>2, <2>3
<1>5. ASSUME NEW q \in Publisher, EndWalk(q) PROVE Goal
    <2>1. now' = now
        BY <1>5 DEF EndWalk, storageVars
    <2>2. CASE q = p
        BY <1>1, <1>5, <2>1, <2>2 DEF EndWalk, WalkerSleeps
    <2>3. CASE q # p
        BY <1>1, <1>2, <1>5, <2>1, <2>3 DEF EndWalk
    <2> QED
        BY <2>2, <2>3
<1>6. ASSUME NEW q \in Publisher, EndSave(q) PROVE Goal
    BY <1>2, <1>6 DEF EndSave, storageVars
<1>7. ASSUME NEW q \in Publisher, HandleStore(q) PROVE Goal
    BY <1>2, <1>7 DEF HandleStore, SaveData
<1>8. ASSUME NEW q \in Publisher, NEW g \in File, BeginSave(q, g) \/ StopRepublish(q, g) PROVE Goal
    BY <1>2, <1>8 DEF BeginSave, StopRepublish, storageVars
<1>9. CASE Cleaner \/ Stranger \/ UNCHANGED vars
    BY <1>2, <1>9 DEF Cleaner, Erase, Plan, Wake, Stranger, RemovePeerData, SaveData, vars, peerVars, storageVars
<1>10. CASE Second
    BY <1>10 DEF Second, Tick, WalkerStays, peerVars
<1> QED
    BY <1>3, <1>4, <1>5, <1>6, <1>7, <1>8, <1>9, <1>10 DEF Next, WalkerStep

-----------------------------------------------------------------------------
(* The invariant.                                                          *)

IInv == /\ StorageInv /\ ClientTypes /\ ClientTimes
        /\ \A p \in Publisher : ListedInv(p) /\ RoundInv(p)

LEMMA IInv_Init == Init => IInv
    BY Storage_Init, Types_Init, TtlAssumption
    DEF Init, IInv, ClientTimes, TimesInv, ListedInv, RoundInv, StorageInit

LEMMA TimeMoves ==
    ASSUME StorageTypes, ClientTypes, [Next]_vars, NEW p \in Publisher
    PROVE  now' \in Nat /\ now <= now' /\ now' <= now + 1
<1>1. now' = now \/ now' = now + 1
    <2>1. WalkerStays(p) \/ WalkerPublishes(p) \/ WalkerWalks(p) \/ WalkerSleeps(p)
        BY WalkerMoves
    <2>2. (WalkerPublishes(p) \/ WalkerWalks(p) \/ WalkerSleeps(p)) => now' = now
        BY DEF WalkerPublishes, WalkerWalks, WalkerSleeps
    <2>3. WalkerStays(p) => now' = now \/ now' = now + 1
        BY DEF WalkerStays
    <2> QED
        BY <2>1, <2>2, <2>3
<1> QED
    BY <1>1 DEF StorageTypes

LEMMA TimesInv_Step ==
    ASSUME IInv, [Next]_vars, NEW p \in Publisher
    PROVE  TimesInv(p)'
<1>1. StorageTypes /\ ClientTypes /\ TimesInv(p)
    BY DEF IInv, StorageInv, ClientTimes
<1>2. /\ now \in Nat /\ now' \in Nat /\ now <= now' /\ Ttl \in Nat
      /\ walker[p] \in Walker /\ mine[p] \in Times
    BY <1>1, TimeMoves, TtlAssumption DEF StorageTypes, ClientTypes
<1>3. walker'[p].current <= now' /\ (walker'[p].pc = "publish" => walker'[p].file \in File)
    <2>1. CASE WalkerStays(p)
        BY <1>1, <1>2, <2>1 DEF WalkerStays, TimesInv, Walker
    <2>2. CASE WalkerPublishes(p)
        BY <1>1, <1>2, <2>2 DEF WalkerPublishes, TimesInv, Walker
    <2>3. CASE WalkerWalks(p)
        BY <1>1, <1>2, <2>3 DEF WalkerWalks, TimesInv, Walker
    <2>4. CASE WalkerSleeps(p)
        BY <1>1, <1>2, <2>4 DEF WalkerSleeps, TimesInv, Walker
    <2> QED
        BY <1>1, <2>1, <2>2, <2>3, <2>4, WalkerMoves
<1>4. ASSUME NEW f \in DOMAIN mine'[p] PROVE mine'[p][f] <= now' + Ttl
    <2>1. CASE f \in DOMAIN mine[p] /\ mine'[p][f] = mine[p][f]
        BY <1>1, <1>2, <2>1, TimesValues DEF TimesInv
    <2>2. CASE mine'[p][f] = now + Ttl
        BY <1>2, <2>2
    <2>3. CASE mine'[p][f] = walker[p].current + Ttl
        BY <1>1, <1>2, <2>3 DEF TimesInv, Walker
    <2> QED
        BY <1>1, <2>1, <2>2, <2>3, MineStep
<1> QED
    BY <1>3, <1>4 DEF TimesInv

LEMMA CoveredStep ==
    ASSUME Collisions = FALSE, IInv, [Next]_vars, NEW p \in Publisher, NEW f,
           NEW until \in Nat, until <= now + Ttl, Covered(p, f, until)
    PROVE  Covered(p, f, until)'
<1>1. StorageTypes /\ ClientTypes
    BY DEF IInv, StorageInv
<1>2. now \in Nat /\ now' \in Nat /\ now <= now' /\ DOMAIN savedData \subseteq Nat /\ Ttl \in Nat
    BY <1>1, TimeMoves, TtlAssumption DEF StorageTypes
<1>3. SUFFICES ASSUME now' <= until
               PROVE  \/ InFlight(p, f)'
                      \/ \E t \in DOMAIN savedData' : savedData'[t] = <<f, p>> /\ until <= t
    BY DEF Covered
<1>4. CASE InFlight(p, f)
    BY <1>1, <1>4, SentStep
<1>5. CASE \E t \in DOMAIN savedData : savedData[t] = <<f, p>> /\ until <= t
    <2>1. PICK t \in DOMAIN savedData : savedData[t] = <<f, p>> /\ until <= t
        BY <1>5
    <2>2. savedData[t][2] = p /\ now' <= t
        BY <1>2, <1>3, <2>1
    <2>3. t \in DOMAIN savedData' /\ savedData'[t] = savedData[t]
        BY <1>1, <2>2, RecordsStep DEF RecordsKept
    <2> QED
        BY <2>1, <2>3
<1> QED
    BY <1>2, <1>3, <1>4, <1>5 DEF Covered

LEMMA ListedInv_Step ==
    ASSUME Collisions = FALSE, IInv, [Next]_vars, NEW p \in Publisher
    PROVE  ListedInv(p)'
<1>1. StorageTypes /\ ClientTypes /\ TimesInv(p) /\ ListedInv(p)
    BY DEF IInv, StorageInv, ClientTimes
<1>2. /\ now \in Nat /\ Ttl \in Nat
      /\ walker[p] \in Walker /\ mine[p] \in Times /\ walker[p].current \in Nat
    BY <1>1, TtlAssumption DEF StorageTypes, ClientTypes, Walker
<1>3. ASSUME walker[p].pc = "publish", NEW f, NEW u, f = walker[p].file, u = walker[p].current + Ttl
      PROVE  Covered(p, f, u)'
    <2>1. Covered(p, f, u)
        BY <1>1, <1>3 DEF ListedInv
    <2>2. u \in Nat /\ u <= now + Ttl
        BY <1>1, <1>2, <1>3 DEF TimesInv
    <2> QED
        BY <2>1, <2>2, CoveredStep
<1>4. ASSUME NEW f \in DOMAIN mine[p], NEW u, u = mine[p][f] PROVE Covered(p, f, u)'
    <2>1. Covered(p, f, u)
        BY <1>1, <1>4 DEF ListedInv
    <2>2. u \in Nat /\ u <= now + Ttl
        BY <1>1, <1>2, <1>4, TimesValues DEF TimesInv
    <2> QED
        BY <2>1, <2>2, CoveredStep
<1>5. ASSUME NEW f \in DOMAIN mine'[p], NEW u, u = mine'[p][f] PROVE Covered(p, f, u)'
    <2>1. CASE f \in DOMAIN mine[p] /\ mine'[p][f] = mine[p][f]
        BY <1>4, <1>5, <2>1
    <2>2. CASE InFlight(p, f)'
        BY <2>2 DEF Covered
    <2>3. CASE walker[p].pc = "publish" /\ f = walker[p].file /\ mine'[p][f] = walker[p].current + Ttl
        BY <1>3, <1>5, <2>3
    <2> QED
        BY <1>1, <2>1, <2>2, <2>3, MineStep
<1>6. ASSUME walker'[p].pc = "publish", NEW f, NEW u, f = walker'[p].file, u = walker'[p].current + Ttl
      PROVE  Covered(p, f, u)'
    <2>1. CASE WalkerStays(p)
        BY <1>3, <1>6, <2>1 DEF WalkerStays
    <2>2. CASE WalkerPublishes(p)
        <3>1. InFlight(p, f)'
            BY <1>2, <1>6, <2>2 DEF WalkerPublishes, Walker
        <3> QED
            BY <3>1 DEF Covered
    <2>3. CASE WalkerWalks(p) \/ WalkerSleeps(p)
        BY <1>2, <1>6, <2>3 DEF WalkerWalks, WalkerSleeps, Walker
    <2> QED
        BY <1>1, <2>1, <2>2, <2>3, WalkerMoves
<1>7. \A f \in DOMAIN mine'[p] : Covered(p, f, mine[p][f])'
    BY <1>5
<1>8. walker'[p].pc = "publish" => Covered(p, walker[p].file, walker[p].current + Ttl)'
    BY <1>6
<1> QED
    BY <1>7, <1>8 DEF ListedInv

LEMMA RoundInv_Step ==
    ASSUME IInv, [Next]_vars, NEW p \in Publisher
    PROVE  RoundInv(p)'
<1>1. StorageTypes /\ ClientTypes /\ TimesInv(p) /\ RoundInv(p)
    BY DEF IInv, StorageInv, ClientTimes
<1>2. /\ now \in Nat /\ Ttl \in Nat /\ now' \in Nat /\ now <= now' /\ now' <= now + 1
      /\ walker[p] \in Walker /\ mine[p] \in Times
      /\ walker[p].current \in Nat /\ walker[p].until \in Nat /\ walker[p].held \in Nat
      /\ walker[p].current <= now
    BY <1>1, TimeMoves, TtlAssumption DEF StorageTypes, ClientTypes, Walker, TimesInv
<1>3. SUFFICES ASSUME walker'[p].pc = "sleep"
               PROVE  /\ walker'[p].until <= now' + Ttl
                      /\ \A f \in DOMAIN mine'[p] :
                            /\ walker'[p].current <= mine'[p][f]
                            /\ walker'[p].until <= mine'[p][f] + walker'[p].held
                            /\ now' <= mine'[p][f] + 1 + walker'[p].held
    BY DEF RoundInv
<1>4. CASE WalkerStays(p)
    <2>1. walker[p].pc = "sleep" /\ walker'[p] = walker[p]
        BY <1>3, <1>4 DEF WalkerStays
    <2>2. walker[p].until <= now' + Ttl
        BY <1>1, <1>2, <2>1 DEF RoundInv
    <2>3. ASSUME NEW f \in DOMAIN mine'[p]
          PROVE  /\ walker[p].current <= mine'[p][f]
                 /\ walker[p].until <= mine'[p][f] + walker[p].held
                 /\ now' <= mine'[p][f] + 1 + walker[p].held
        <3>1. CASE f \in DOMAIN mine[p] /\ mine'[p][f] = mine[p][f]
            <4>1. /\ mine[p][f] \in Nat /\ walker[p].current <= mine[p][f]
                  /\ walker[p].until <= mine[p][f] + walker[p].held
                  /\ now <= mine[p][f] + 1 + walker[p].held
                BY <1>1, <1>2, <2>1, <3>1, TimesValues DEF RoundInv
            <4>2. now' = now \/ walker[p].until > now \/ walker[p].current >= now
                BY <1>4, <2>1, <1>2 DEF WalkerStays, Working
            <4> QED
                BY <1>2, <3>1, <4>1, <4>2
        <3>2. CASE mine'[p][f] = now + Ttl
            <4>1. walker[p].until <= now + Ttl
                BY <1>1, <2>1 DEF RoundInv
            <4> QED
                BY <1>2, <3>2, <4>1
        <3> QED
            BY <1>1, <2>1, <3>1, <3>2, MineStep
    <2> QED
        BY <2>1, <2>2, <2>3
<1>5. CASE WalkerSleeps(p)
    <2>1. /\ now' = now /\ mine' = mine
          /\ walker'[p].until = now + WalkSleep(p) /\ walker'[p].held = now - walker[p].current
          /\ walker'[p].current = walker[p].current
        BY <1>2, <1>5 DEF WalkerSleeps, Walker
    <2>2. /\ WalkSleep(p) \in Nat /\ WalkSleep(p) <= Ttl
          /\ \A f \in DOMAIN mine[p] : WalkSleep(p) <= mine[p][f] - walker[p].current
        BY <1>1, <1>5, WalkSleepBounds DEF WalkerSleeps
    <2>3. ASSUME NEW f \in DOMAIN mine[p]
          PROVE  /\ walker[p].current <= mine[p][f]
                 /\ now + WalkSleep(p) <= mine[p][f] + (now - walker[p].current)
                 /\ now <= mine[p][f] + 1 + (now - walker[p].current)
        <3>1. mine[p][f] \in Nat
            BY <1>2, TimesValues
        <3>2. WalkSleep(p) <= mine[p][f] - walker[p].current
            BY <2>2
        <3> QED
            BY <1>2, <2>2, <3>1, <3>2
    <2> QED
        BY <1>2, <2>1, <2>2, <2>3
<1>6. CASE WalkerPublishes(p) \/ WalkerWalks(p)
    BY <1>2, <1>3, <1>6 DEF WalkerPublishes, WalkerWalks, Walker
<1> QED
    BY <1>1, <1>4, <1>5, <1>6, WalkerMoves

LEMMA IInv_Step ==
    ASSUME Collisions = FALSE, IInv, [Next]_vars
    PROVE  IInv'
<1>1. StorageInv' /\ ClientTypes'
    BY StorageSteps, Storage_Step, Types_Step DEF IInv, StorageInv
<1>2. ClientTimes'
    BY TimesInv_Step DEF ClientTimes
<1>3. \A p \in Publisher : ListedInv(p)' /\ RoundInv(p)'
    BY ListedInv_Step, RoundInv_Step
<1> QED
    BY <1>1, <1>2, <1>3 DEF IInv

LEMMA Invariant ==
    ASSUME Collisions = FALSE
    PROVE  Spec => []IInv
<1>1. Init => IInv
    BY IInv_Init
<1>2. IInv /\ [Next]_vars => IInv'
    BY IInv_Step
<1> QED
    BY <1>1, <1>2, PTL DEF Spec

-----------------------------------------------------------------------------
(* The theorems.                                                           *)

\* The storage of the server, used by client threads and by the thread that
\* removes what has expired, keeps the promise of the tracker: an announcement
\* is remembered until its time or until its peer leaves, and no longer than a
\* second beyond it. It does so as long as no two announcements share a second.
THEOREM PromiseKept ==
    ASSUME Collisions = FALSE
    PROVE  Spec => KeepsPromise
<1>1. Init => Promise!PromiseInit
    BY Promise_Init DEF Init
<1>2. IInv /\ [Next]_vars => [Promise!PromiseNext]_(Promise!promiseVars)
    BY StorageSteps, Promise_Step DEF IInv
<1>3. Spec => []IInv
    BY Invariant
<1> QED
    BY <1>1, <1>2, <1>3, PTL DEF Spec, KeepsPromise, Promise!PromiseSpec

\* Until its next announcement is due, a peer is listed for every file it
\* announces, though saveData and republishOldData take each other's answers
\* (no two announcements sharing a second).
THEOREM ListedTheorem ==
    ASSUME Collisions = FALSE
    PROVE  Spec => []ListedUntilDue
<1>1. IInv => ListedUntilDue
    <2> SUFFICES ASSUME IInv, NEW p \in Publisher, NEW f \in DOMAIN mine[p],
                        mine[p][f] >= now, ~InFlight(p, f)
                 PROVE  p \in Registered(f, NoFile)
        BY DEF ListedUntilDue
    <2>1. now \in Nat /\ mine[p] \in Times /\ Covered(p, f, mine[p][f])
        BY DEF IInv, StorageInv, StorageTypes, ClientTypes, ListedInv
    <2>2. now <= mine[p][f]
        BY <2>1, TimesValues
    <2>3. PICK t \in DOMAIN savedData : savedData[t] = <<f, p>>
        BY <2>1, <2>2 DEF Covered
    <2>4. savedData[t][1] = f /\ savedData[t][2] = p
        BY <2>3
    <2>5. p # NoFile
        BY PublisherAssumption
    <2> QED
        BY <2>4, <2>5 DEF Registered
<1>2. Spec => []IInv
    BY Invariant
<1> QED
    BY <1>1, <1>2, PTL

\* The thread republishOldData sleeps no longer than to the next announcement:
\* none is overdue by more than the time the walk before it was held up.
THEOREM RepublishedTheorem ==
    ASSUME Collisions = FALSE
    PROVE  Spec => []RepublishedInTime
<1>1. IInv => RepublishedInTime
    BY DEF IInv, RoundInv, RepublishedInTime
<1>2. Spec => []IInv
    BY Invariant
<1> QED
    BY <1>1, <1>2, PTL
=============================================================================
