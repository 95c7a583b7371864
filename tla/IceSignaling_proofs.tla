------------------------- MODULE IceSignaling_proofs -------------------------
(***************************************************************************)
(* Theorems about how peers come to be connected, for every set of peers,  *)
(* however many of them ask, leave or forget a connection, and whichever   *)
(* requests age: a call has one request or answer under way, a pending     *)
(* request is in the asked peer's hands, and a peer connects with the data *)
(* of the peer it asked for. And every message on its way is read as it was *)
(* written.                                                                *)
(***************************************************************************)
EXTENDS SignalingMessages, Layout_proofs, FunctionTheorems, FiniteSetTheorems

\* One client thread at a time is inside the handler of GetUserICEInfo, as the
\* server reads the identifier and counts it on in two steps; and identifiers
\* are not used up, as it does not look whether one is still in use.
OneHandler == MaxInHandler = 1
EnoughIds == MaxRequests \in Nat /\ MaxRequests <= IdSpace

UpCode == {"GetUserICEInfo"} \cup Reply
DownCode == {"AuthorizeICEConnection"} \cup Answer

AddType == [pc : {"idle", "wait", "connect"},
            peer : Peer \cup {Nobody}, ice : Peer \cup {Nobody}]
ShareType == [pc : {"receive", "lock", "connect"}, peer : Peer \cup {Nobody}, id : Id]

SignalTypes ==
    /\ here \subseteq Peer
    /\ add \in [Peer -> AddType]
    /\ share \in [Peer -> ShareType]
    /\ uplink \in [Peer -> Seq(MsgsOf(UpCode, Id))]
    /\ queue \in [Peer -> Seq(MsgsOf(DownCode, Id))]
    /\ inbox \in [Peer -> Seq(MsgsOf(DownCode, Id))]
    /\ DOMAIN waits \subseteq Id /\ \A k \in DOMAIN waits : waits[k] \in Peer \X Peer
    /\ waitIds \in Id
    /\ handler \in [Peer -> [peer : Peer \cup {Nobody}, id : Id]]
    /\ \A p \in Peer : handler[p] # NotHandling => handler[p].peer \in Peer
    /\ asked \in Nat /\ asked <= MaxRequests

\* The thread in the handler is alone there, with the identifier it read.
AloneInv ==
    \A p \in Peer : handler[p] # NotHandling =>
        /\ handler[p].id = waitIds
        /\ \A q \in Peer : handler[q] # NotHandling => q = p

\* A peer that left may still have a request with the server, but one at most.
TraceInv ==
    \A p \in Peer : /\ Traces(p) <= 1
                    /\ p \in here => Traces(p) = IF add[p].pc = "wait" THEN 1 ELSE 0
                    /\ p \notin here => add[p].pc = "idle"

\* The peers whose request has not been recorded.
Asking == {p \in Peer : Count(uplink[p], Asks) > 0 \/ handler[p] # NotHandling}

\* n requests have been recorded, under the identifiers below n. Two threads
\* in the handler may both have read the next one.
Recorded(n) ==
    /\ waitIds = n \/ (n = IdSpace /\ waitIds = 0)
    /\ Cardinality(Asking) + n <= asked
    /\ \A k \in DOMAIN waits : k < n
    /\ \A p \in Peer : handler[p] # NotHandling => handler[p].id <= n
    /\ \A q \in Peer, k \in Id : Steps(k, q) > 0 => k < n

IdsInv == \E n \in 0..IdSpace : Recorded(n)

\* Who has a pending request in hands is the peer it was asked of.
AskedInv == \A q \in Peer, k \in DOMAIN waits : Steps(k, q) > 0 => waits[k][2] = q

\* Replies name their sender, and all there is of a request names the peer
\* that is asked for.
SignedInv == \A p \in Peer : \A m \in Range(uplink[p]) : m.code \in Reply => m.peer = p
AskedOf(p) == {m \in Range(uplink[p]) : m.code = "GetUserICEInfo"}
Told(p) == {m \in Range(queue[p]) \cup Range(inbox[p]) : m.code = "UserAuthorizedICEData"}
Named(p, q) ==
    /\ \A m \in AskedOf(p) \cup Told(p) : m.peer = q
    /\ handler[p] # NotHandling => handler[p].peer = q
    /\ \A k \in Pending(p) : waits[k][2] = q
NamedInv == \A p \in here : add[p].pc = "wait" => Named(p, add[p].peer)

\* However many threads are in the handler ...
TracesInv == SignalTypes /\ TraceInv /\ IdsInv

\* ... and with one thread at a time there.
IInv == /\ TracesInv /\ AloneInv /\ RequestOnItsWay /\ AskedInv
        /\ SignedInv /\ NamedInv /\ AnswersToAsker

-----------------------------------------------------------------------------
(* Queues.                                                                 *)

\* A count is a number: the places of a sequence are finitely many.
LEMMA CountType ==
    ASSUME NEW S, NEW s \in Seq(S), NEW M
    PROVE  /\ IsFiniteSet({i \in DOMAIN s : s[i] \in M})
           /\ Count(s, M) \in Nat
<1>1. DOMAIN s = 1..Len(s) /\ Len(s) \in Int
    OBVIOUS
<1>2. IsFiniteSet(DOMAIN s)
    BY <1>1, FS_Interval
<1>3. {i \in DOMAIN s : s[i] \in M} \in SUBSET DOMAIN s
    OBVIOUS
<1>4. IsFiniteSet({i \in DOMAIN s : s[i] \in M})
    BY <1>2, <1>3, FS_Subset
<1> QED
    BY <1>4, FS_CardinalityType DEF Count

\* Nothing is counted in an empty sequence.
LEMMA CountNone == \A M : Count(<<>>, M) = 0
<1> SUFFICES ASSUME NEW M PROVE Count(<<>>, M) = 0
    OBVIOUS
<1>1. {i \in DOMAIN <<>> : <<>>[i] \in M} = {}
    OBVIOUS
<1> QED
    BY <1>1, FS_EmptySet DEF Count

\* A message at the end is counted once.
LEMMA CountAppend ==
    ASSUME NEW S, NEW s \in Seq(S), NEW m \in S
    PROVE  /\ Append(s, m) \in Seq(S)
           /\ Range(Append(s, m)) = Range(s) \cup {m}
           /\ \A M : Count(Append(s, m), M) = Count(s, M) + IF m \in M THEN 1 ELSE 0
<1> DEFINE t == Append(s, m)
           n == Len(s) + 1
<1>1. /\ t \in Seq(S) /\ DOMAIN t = 1..n /\ DOMAIN s = 1..Len(s) /\ Len(s) \in Nat
      /\ t[n] = m /\ \A i \in DOMAIN s : t[i] = s[i]
    OBVIOUS
<1> HIDE DEF t
<1>2. Range(t) = Range(s) \cup {m}
    <2>1. DOMAIN t = DOMAIN s \cup {n} /\ n \notin DOMAIN s
        BY <1>1
    <2> QED
        BY <1>1, <2>1 DEF Range
<1>3. ASSUME NEW M PROVE Count(t, M) = Count(s, M) + IF m \in M THEN 1 ELSE 0
    <2> DEFINE I == {i \in DOMAIN s : s[i] \in M}
               J == {i \in DOMAIN t : t[i] \in M}
    <2>1. IsFiniteSet(I) /\ Cardinality(I) \in Nat
        BY CountType, FS_CardinalityType
    <2>2. DOMAIN t = DOMAIN s \cup {n} /\ n \notin DOMAIN s
        BY <1>1
    <2>3. J = IF m \in M THEN I \cup {n} ELSE I
        BY <1>1, <2>2
    <2>4. Cardinality(I \cup {n}) = Cardinality(I) + 1
        BY <2>1, <2>2, FS_AddElement
    <2>5. Cardinality(J) = Cardinality(I) + IF m \in M THEN 1 ELSE 0
        <3> HIDE DEF I, J
        <3> QED
            BY <2>1, <2>3, <2>4
    <2> QED
        BY <2>5 DEF Count
<1> QED
    BY <1>1, <1>2, <1>3 DEF t

\* t is what is left of the queue s when its message k is taken.
Taken(s, k, t) == /\ Len(s) = Len(t) + 1
                  /\ \A i \in DOMAIN t : t[i] = s[IF i < k THEN i ELSE i + 1]

\* What is left when a message is taken counts one less of its kind.
LEMMA CountTaken ==
    ASSUME NEW S, NEW s \in Seq(S), NEW k \in DOMAIN s, NEW t \in Seq(S), Taken(s, k, t)
    PROVE  /\ Range(t) \subseteq Range(s) /\ s[k] \in Range(s)
           /\ \A M : Count(s, M) = Count(t, M) + IF s[k] \in M THEN 1 ELSE 0
<1>1. /\ DOMAIN s = 1..Len(s) /\ DOMAIN t = 1..Len(t) /\ Len(t) \in Nat
      /\ k \in 1..Len(s) /\ Len(s) = Len(t) + 1
    BY DEF Taken
<1> DEFINE Skip(i) == IF i < k THEN i ELSE i + 1
<1>2. \A i \in DOMAIN t : Skip(i) \in DOMAIN s \ {k} /\ t[i] = s[Skip(i)]
    BY <1>1 DEF Taken
<1>3. \A j \in DOMAIN s \ {k} : \E i \in DOMAIN t : j = Skip(i)
    <2> TAKE j \in DOMAIN s \ {k}
    <2>1. CASE j < k
        BY <1>1, <2>1
    <2>2. CASE j > k
        <3>1. j - 1 \in DOMAIN t /\ ~(j - 1 < k) /\ (j - 1) + 1 = j
            BY <1>1, <2>2
        <3> QED
            BY <3>1
    <2> QED
        BY <1>1, <2>1, <2>2
<1>4. \A i, j \in DOMAIN t : Skip(i) = Skip(j) => i = j
    BY <1>1
<1>5. Range(t) \subseteq Range(s) /\ s[k] \in Range(s)
    <2> HIDE DEF Skip
    <2> QED
        BY <1>2 DEF Range
<1>6. ASSUME NEW M PROVE Count(s, M) = Count(t, M) + IF s[k] \in M THEN 1 ELSE 0
    <2> DEFINE I == {i \in DOMAIN t : t[i] \in M}
               J == {j \in DOMAIN s : s[j] \in M}
               f == [i \in I |-> Skip(i)]
    <2> HIDE DEF Skip
    <2>1. IsFiniteSet(I) /\ IsFiniteSet(J) /\ Cardinality(I) \in Nat /\ Cardinality(J) \in Nat
        BY CountType, FS_CardinalityType
    <2>2. \A i \in I : Skip(i) \in J \ {k}
        BY <1>2
    <2>3. \A j \in J \ {k} : \E i \in I : j = Skip(i)
        BY <1>2, <1>3
    <2>4. f \in Bijection(I, J \ {k})
        <3>1. f \in [I -> J \ {k}]
            BY <2>2
        <3>2. f \in Injection(I, J \ {k})
            BY <3>1, <1>4, Fun_IsInj
        <3>3. f \in Surjection(I, J \ {k})
            BY <3>1, <2>3, Fun_IsSurj
        <3> QED
            BY <3>2, <3>3 DEF Bijection
    <2>5. Cardinality(J \ {k}) = Cardinality(I)
        BY <2>1, <2>4, FS_Bijection DEF ExistsBijection
    <2>6. Cardinality(J \ {k}) = IF k \in J THEN Cardinality(J) - 1 ELSE Cardinality(J)
        BY <2>1, FS_RemoveElement
    <2> QED
        BY <2>1, <2>5, <2>6 DEF Count
<1> QED
    BY <1>5, <1>6

\* So when the first message is taken, ...
LEMMA CountTail ==
    ASSUME NEW S, NEW s \in Seq(S), s # <<>>
    PROVE  /\ Tail(s) \in Seq(S) /\ Head(s) \in S /\ Head(s) \in Range(s)
           /\ Range(Tail(s)) \subseteq Range(s)
           /\ \A M : Count(s, M) = Count(Tail(s), M) + IF Head(s) \in M THEN 1 ELSE 0
<1> DEFINE t == Tail(s)
<1>1. /\ t \in Seq(S) /\ Head(s) \in S /\ Head(s) = s[1] /\ 1 \in DOMAIN s
      /\ Len(s) = Len(t) + 1
    OBVIOUS
<1>2. \A i \in DOMAIN t : t[i] = s[IF i < 1 THEN i ELSE i + 1]
    OBVIOUS
<1> HIDE DEF t
<1>3. Taken(s, 1, t)
    BY <1>1, <1>2 DEF Taken
<1>4. /\ Range(t) \subseteq Range(s) /\ s[1] \in Range(s)
      /\ \A M : Count(s, M) = Count(t, M) + IF s[1] \in M THEN 1 ELSE 0
    BY <1>1, <1>3, CountTaken
<1> QED
    BY <1>1, <1>4 DEF t

\* Two sequences joined.
LEMMA Concatenation ==
    ASSUME NEW S, NEW a \in Seq(S), NEW b \in Seq(S)
    PROVE  /\ a \o b \in Seq(S) /\ Len(a \o b) = Len(a) + Len(b)
           /\ \A i \in 1..Len(a \o b) : (a \o b)[i] = IF i <= Len(a) THEN a[i] ELSE b[i - Len(a)]
OBVIOUS

\* What is before and behind place k, joined.
LEMMA TakenJoined ==
    ASSUME NEW S, NEW s \in Seq(S), NEW k \in 1..Len(s),
           NEW a \in Seq(S), Len(a) = k - 1, \A i \in 1..Len(a) : a[i] = s[i],
           NEW b \in Seq(S), Len(b) = Len(s) - k, \A i \in 1..Len(b) : b[i] = s[i + k]
    PROVE  a \o b \in Seq(S) /\ Taken(s, k, a \o b)
<1>1. Len(s) \in Nat /\ k \in Int
    OBVIOUS
<1>2. PICK t : t = a \o b
    OBVIOUS
<1>3. /\ t \in Seq(S) /\ Len(t) = Len(a) + Len(b)
      /\ \A i \in 1..Len(t) : t[i] = IF i <= Len(a) THEN a[i] ELSE b[i - Len(a)]
    BY <1>2, Concatenation
<1>4. DOMAIN t = 1..Len(t) /\ Len(t) \in Nat
    BY <1>3
<1>5. Len(t) + 1 = Len(s)
    <2>1. Len(t) = (k - 1) + (Len(s) - k)
        BY <1>3
    <2> QED
        BY <1>1, <2>1
<1>6. ASSUME NEW i \in 1..Len(t) PROVE t[i] = s[IF i < k THEN i ELSE i + 1]
    <2>1. CASE i < k
        <3>1. i \in 1..Len(a) /\ i <= Len(a)
            BY <1>1, <2>1
        <3> QED
            BY <1>3, <2>1, <3>1
    <2>2. CASE ~(i < k)
        <3>1. i - Len(a) \in 1..Len(b) /\ (i - Len(a)) + k = i + 1 /\ ~(i <= Len(a))
            BY <1>1, <1>4, <1>5, <2>2
        <3>2. b[i - Len(a)] = s[i + 1]
            BY <3>1
        <3> QED
            BY <1>3, <2>2, <3>1, <3>2
    <2> QED
        BY <2>1, <2>2
<1> QED
    BY <1>2, <1>3, <1>4, <1>5, <1>6 DEF Taken

\* ... or the one at place k, as RemoveAt does.
LEMMA CountRemoved ==
    ASSUME NEW S, NEW s \in Seq(S), NEW k \in DOMAIN s
    PROVE  /\ RemoveAt(s, k) \in Seq(S) /\ s[k] \in S /\ s[k] \in Range(s)
           /\ Range(RemoveAt(s, k)) \subseteq Range(s)
           /\ \A M : Count(s, M) = Count(RemoveAt(s, k), M) + IF s[k] \in M THEN 1 ELSE 0
<1>1. k \in 1..Len(s) /\ Len(s) \in Nat /\ s[k] \in S
    OBVIOUS
<1>2. PICK a, b : a = SubSeq(s, 1, k - 1) /\ b = SubSeq(s, k + 1, Len(s))
    OBVIOUS
<1>3. a \in Seq(S) /\ Len(a) = k - 1 /\ \A i \in 1..Len(a) : a[i] = s[i]
    BY <1>1, <1>2
<1>4. b \in Seq(S) /\ Len(b) = Len(s) - k /\ \A i \in 1..Len(b) : b[i] = s[i + k]
    BY <1>1, <1>2
<1>5. PICK t : t = a \o b
    OBVIOUS
<1>6. RemoveAt(s, k) = t
    BY <1>2, <1>5 DEF RemoveAt
<1>7. t \in Seq(S) /\ Taken(s, k, t)
    BY <1>1, <1>3, <1>4, <1>5, TakenJoined
<1>8. /\ Range(t) \subseteq Range(s) /\ s[k] \in Range(s)
      /\ \A M : Count(s, M) = Count(t, M) + IF s[k] \in M THEN 1 ELSE 0
    BY <1>7, CountTaken
<1> QED
    BY <1>1, <1>6, <1>7, <1>8

\* What is counted is there.
LEMMA CountedIsThere ==
    ASSUME NEW S, NEW s \in Seq(S), NEW M
    PROVE  Count(s, M) = 0 <=> \A m \in Range(s) : m \notin M
<1>1. IsFiniteSet({i \in DOMAIN s : s[i] \in M})
    BY CountType
<1>2. Count(s, M) = 0 <=> {i \in DOMAIN s : s[i] \in M} = {}
    BY <1>1, FS_EmptySet DEF Count
<1> QED
    BY <1>2 DEF Range

\* A set of numbers has a least one.
LEMMA LeastPlace ==
    ASSUME NEW I \in SUBSET Nat, I # {}
    PROVE  Min(I) \in I
<1>1. PICK x \in I : \A y \in I : <<y, x>> \notin OpToRel(<, Nat)
    BY NatLessThanWellFounded, WFMin
<1>2. \A y \in I : x <= y
    <2> TAKE y \in I
    <2>1. x \in Nat /\ y \in Nat
        OBVIOUS
    <2>2. ~(y < x)
        BY <1>1, <2>1 DEF OpToRel
    <2> QED
        BY <2>1, <2>2
<1> QED
    BY <1>2 DEF Min

\* receive(isRelevant) takes a message of the wanted kind.
LEMMA FirstIsThere ==
    ASSUME SignalTypes, NEW p \in Peer, NEW codes, First(p, codes) # 0
    PROVE  First(p, codes) \in DOMAIN inbox[p] /\ inbox[p][First(p, codes)].code \in codes
<1> DEFINE I == {i \in 1..Len(inbox[p]) : inbox[p][i].code \in codes}
<1>1. inbox[p] \in Seq(MsgsOf(DownCode, Id))
    BY DEF SignalTypes
<1>2. First(p, codes) = IF I # {} THEN Min(I) ELSE 0
    BY DEF First, SelectInSeq
<1>3. I # {} /\ I \in SUBSET Nat
    BY <1>1, <1>2
<1>4. Min(I) \in I
    BY <1>3, LeastPlace
<1> QED
    BY <1>1, <1>2, <1>4

-----------------------------------------------------------------------------
(* The queues of all peers, of which a step changes that of one.           *)

\* One message is added to the queue of p.
MoreAt(p, f, g, m) ==
    /\ \A r \in Peer : Range(g[r]) = Range(f[r]) \cup IF r = p THEN {m} ELSE {}
    /\ \A r \in Peer : \A M :
          Count(g[r], M) = Count(f[r], M) + IF r = p /\ m \in M THEN 1 ELSE 0

\* Append puts one message more into the queue of p.
LEMMA Appended ==
    ASSUME NEW S, NEW f \in [Peer -> Seq(S)], NEW p \in Peer, NEW m \in S,
           NEW s, s = Append(f[p], m), NEW g, g = [f EXCEPT ![p] = s]
    PROVE  g \in [Peer -> Seq(S)] /\ MoreAt(p, f, g, m)
<1>1. f[p] \in Seq(S) /\ g[p] = Append(f[p], m) /\ \A r \in Peer : r # p => g[r] = f[r]
    OBVIOUS
<1>2. \A r \in Peer : \A M : Count(f[r], M) \in Nat
    BY CountType
<1>3. /\ g[p] \in Seq(S) /\ Range(g[p]) = Range(f[p]) \cup {m}
      /\ \A M : Count(g[p], M) = Count(f[p], M) + IF m \in M THEN 1 ELSE 0
    BY <1>1, CountAppend
<1>4. g \in [Peer -> Seq(S)]
    BY <1>1, <1>3
<1>5. ASSUME NEW r \in Peer
      PROVE  Range(g[r]) = Range(f[r]) \cup IF r = p THEN {m} ELSE {}
    BY <1>1, <1>3
<1>6. ASSUME NEW r \in Peer, NEW M
      PROVE  Count(g[r], M) = Count(f[r], M) + IF r = p /\ m \in M THEN 1 ELSE 0
    BY <1>1, <1>2, <1>3
<1> QED
    BY <1>4, <1>5, <1>6 DEF MoreAt

\* One message is taken from the queue of p.
Less(s, t, m) == /\ Range(t) \subseteq Range(s)
                 /\ \A M : Count(s, M) = Count(t, M) + IF m \in M THEN 1 ELSE 0
LessAt(p, f, g, m) ==
    /\ \A r \in Peer : Range(g[r]) \subseteq Range(f[r])
    /\ \A r \in Peer : \A M :
          Count(f[r], M) = Count(g[r], M) + IF r = p /\ m \in M THEN 1 ELSE 0

\* A queue function with a shorter queue for p has one message less.
LEMMA TakenFrom ==
    ASSUME NEW S, NEW f \in [Peer -> Seq(S)], NEW p \in Peer, NEW s \in Seq(S), NEW m \in S,
           NEW g, g = [f EXCEPT ![p] = s], Less(f[p], s, m)
    PROVE  g \in [Peer -> Seq(S)] /\ LessAt(p, f, g, m)
<1>1. g[p] = s /\ \A r \in Peer : r # p => g[r] = f[r]
    OBVIOUS
<1>2. g \in [Peer -> Seq(S)]
    OBVIOUS
<1>3. \A r \in Peer : \A M : Count(g[r], M) \in Nat
    BY <1>2, CountType
<1>4. ASSUME NEW r \in Peer, NEW M
      PROVE  Count(f[r], M) = Count(g[r], M) + IF r = p /\ m \in M THEN 1 ELSE 0
    <2>1. Count(g[r], M) \in Nat
        BY <1>3
    <2>2. CASE r = p
        BY <1>1, <2>2 DEF Less
    <2>3. CASE r # p
        BY <1>1, <2>1, <2>3
    <2> QED
        BY <2>2, <2>3
<1>5. \A r \in Peer : Range(g[r]) \subseteq Range(f[r])
    BY <1>1 DEF Less
<1> QED
    BY <1>2, <1>4, <1>5 DEF LessAt

\* Tail takes the first message of p ...
LEMMA HeadTaken ==
    ASSUME NEW S, NEW f \in [Peer -> Seq(S)], NEW p \in Peer, f[p] # <<>>,
           NEW g, g = [f EXCEPT ![p] = Tail(@)]
    PROVE  /\ g \in [Peer -> Seq(S)] /\ Head(f[p]) \in S /\ Head(f[p]) \in Range(f[p])
           /\ LessAt(p, f, g, Head(f[p]))
<1>1. PICK s, m : s = Tail(f[p]) /\ m = Head(f[p])
    OBVIOUS
<1>2. f[p] \in Seq(S) /\ g = [f EXCEPT ![p] = s]
    BY <1>1
<1>3. s \in Seq(S) /\ m \in S /\ m \in Range(f[p])
    BY <1>1, <1>2, CountTail
<1>4. Less(f[p], s, m)
    BY <1>1, <1>2, CountTail DEF Less
<1>5. g \in [Peer -> Seq(S)] /\ LessAt(p, f, g, m)
    BY <1>2, <1>3, <1>4, TakenFrom
<1> QED
    BY <1>1, <1>3, <1>5

\* ... and RemoveAt the one at place k.
LEMMA OneTaken ==
    ASSUME NEW S, NEW f \in [Peer -> Seq(S)], NEW p \in Peer, NEW k \in DOMAIN f[p],
           NEW g, g = [f EXCEPT ![p] = RemoveAt(@, k)]
    PROVE  /\ g \in [Peer -> Seq(S)] /\ f[p][k] \in S /\ f[p][k] \in Range(f[p])
           /\ LessAt(p, f, g, f[p][k])
<1>1. PICK s, m : s = RemoveAt(f[p], k) /\ m = f[p][k]
    OBVIOUS
<1>2. f[p] \in Seq(S) /\ g = [f EXCEPT ![p] = s]
    BY <1>1
<1>3. s \in Seq(S) /\ m \in S /\ m \in Range(f[p])
    BY <1>1, <1>2, CountRemoved
<1>4. Less(f[p], s, m)
    BY <1>1, <1>2, CountRemoved DEF Less
<1>5. g \in [Peer -> Seq(S)] /\ LessAt(p, f, g, m)
    BY <1>2, <1>3, <1>4, TakenFrom
<1> QED
    BY <1>1, <1>3, <1>5

NoneAt(p, f, g) ==
    /\ \A r \in Peer : Range(g[r]) \subseteq Range(f[r])
    /\ \A r \in Peer : \A M : Count(g[r], M) = IF r = p THEN 0 ELSE Count(f[r], M)

\* A queue that is emptied counts nothing.
LEMMA Emptied ==
    ASSUME NEW S, NEW f \in [Peer -> Seq(S)], NEW p \in Peer, NEW g, g = [f EXCEPT ![p] = <<>>]
    PROVE  g \in [Peer -> Seq(S)] /\ NoneAt(p, f, g)
<1>1. g[p] = <<>> /\ <<>> \in Seq(S) /\ \A r \in Peer : r # p => g[r] = f[r]
    OBVIOUS
<1>2. Range(g[p]) = {}
    BY <1>1 DEF Range
<1>3. g \in [Peer -> Seq(S)]
    BY <1>1
<1> QED
    BY <1>1, <1>2, <1>3, CountNone DEF NoneAt

\* The counts in the queues of a peer are numbers.
LEMMA QueueCounts ==
    ASSUME SignalTypes, NEW r \in Peer, NEW M
    PROVE  /\ Count(uplink[r], M) \in Nat /\ Count(queue[r], M) \in Nat
           /\ Count(inbox[r], M) \in Nat
    BY CountType DEF SignalTypes

\* A message is what its code says.
LEMMA MsgKinds ==
    ASSUME NEW m, m \in MsgsOf(UpCode, Id) \/ m \in MsgsOf(DownCode, Id)
    PROVE  /\ m.peer \in Peer /\ m.id \in Id
           /\ m \in Asks <=> m.code = "GetUserICEInfo"
           /\ m \in Answers <=> m.code \in Answer
           /\ \A k \in Id : /\ m \in PassedOn(k) <=> m.code = "AuthorizeICEConnection" /\ m.id = k
                            /\ m \in Replies(k) <=> m.code \in Reply /\ m.id = k
    BY DEF MsgsOf, Asks, Answers, PassedOn, Replies

\* Msg makes a message of its code.
LEMMA MsgMade ==
    ASSUME NEW c, NEW q \in Peer, NEW k \in Id
    PROVE  /\ Msg(c, q, k).code = c /\ Msg(c, q, k).peer = q /\ Msg(c, q, k).id = k
           /\ c \in UpCode => Msg(c, q, k) \in MsgsOf(UpCode, Id)
           /\ c \in DownCode => Msg(c, q, k) \in MsgsOf(DownCode, Id)
    BY DEF Msg, MsgsOf

\* What is forwarded is an answer that names who replied.
LEMMA ForwardedMade ==
    ASSUME NEW m \in MsgsOf(UpCode, Id), m.code # "GetUserICEInfo"
    PROVE  /\ m.code \in Reply /\ Forwarded(m) \in MsgsOf(DownCode, Id)
           /\ Forwarded(m).code \in Answer /\ Forwarded(m).peer = m.peer
<1>1. m.code \in Reply /\ m.peer \in Peer /\ m.id \in Id
    BY DEF MsgsOf, UpCode
<1>2. \/ m.code = "AuthorizedICEConnection" /\ Forwarded(m) = Msg("UserAuthorizedICEData", m.peer, m.id)
      \/ m.code = "AlreadyConnected" /\ Forwarded(m) = Msg("UserAlreadyConnected", m.peer, m.id)
      \/ m.code = "FullCapacity" /\ Forwarded(m) = Msg("UserFullCapacity", m.peer, m.id)
    BY <1>1 DEF Forwarded, Reply
<1>3. PICK c \in Answer : Forwarded(m) = Msg(c, m.peer, m.id)
    BY <1>2 DEF Answer
<1>4. c \in DownCode
    BY DEF DownCode
<1> QED
    BY <1>1, <1>3, <1>4, MsgMade

\* The first identifier.
LEMMA ZeroIsId == 0 \in Id
BY SignalingAssumption DEF Id

\* Identifiers are counted on and begin again at zero.
LEMMA NextIsId ==
    ASSUME waitIds \in Id
    PROVE  NextId \in Id /\ (waitIds + 1 < IdSpace => NextId = waitIds + 1)
                         /\ (waitIds + 1 = IdSpace => NextId = 0)
    BY SignalingAssumption DEF Id, NextId

-----------------------------------------------------------------------------
(* Types.                                                                  *)

AskMsg(q) == Msg("GetUserICEInfo", q, 0)
RefusalMsg(q) == Msg("ExistsOpositeRequest", q, 0)

\* The refusal is one message.
LEMMA RefusalIs ==
    ASSUME SignalTypes, NEW p \in Peer, NEW q \in Peer, queue' = [queue EXCEPT ![p] = @ \o Refusal(q)]
    PROVE  queue' = [queue EXCEPT ![p] = Append(@, RefusalMsg(q))]
<1>1. queue[p] \in Seq(MsgsOf(DownCode, Id)) /\ queue \in [Peer -> Seq(MsgsOf(DownCode, Id))]
    BY DEF SignalTypes
<1>2. queue[p] \o Refusal(q) = Append(queue[p], RefusalMsg(q))
    <2>1. RefusalMsg(q) \in MsgsOf(DownCode, Id)
        BY MsgMade, ZeroIsId DEF RefusalMsg, DownCode, Answer
    <2>2. Refusal(q) = <<RefusalMsg(q)>>
        BY DEF Refusal, RefusalMsg
    <2> HIDE DEF RefusalMsg
    <2> QED
        BY <1>1, <2>1, <2>2
<1> QED
    BY <1>1, <1>2

\* What a step does to the queues, and to the request it is about.
LEMMA RequestIs ==
    ASSUME SignalTypes, NEW p \in Peer, NEW q \in Peer, RequestConnection(p, q)
    PROVE  /\ uplink' \in [Peer -> Seq(MsgsOf(UpCode, Id))]
           /\ MoreAt(p, uplink, uplink', AskMsg(q))
<1>1. AskMsg(q) \in MsgsOf(UpCode, Id)
    BY MsgMade, ZeroIsId DEF AskMsg, UpCode
<1>2. uplink \in [Peer -> Seq(MsgsOf(UpCode, Id))]
    BY DEF SignalTypes
<1>3. PICK s : s = Append(uplink[p], AskMsg(q))
    OBVIOUS
<1>4. uplink' = [uplink EXCEPT ![p] = s]
    BY <1>3 DEF RequestConnection, AskMsg
<1> QED
    BY <1>1, <1>2, <1>3, <1>4, Appended

\* receive takes a message of the wanted kind out of the inbox of p.
LEMMA TakeIs ==
    ASSUME SignalTypes, NEW p \in Peer, NEW codes, First(p, codes) # 0,
           inbox' = [inbox EXCEPT ![p] = RemoveAt(@, First(p, codes))]
    PROVE  \E m \in MsgsOf(DownCode, Id) :
              /\ m = inbox[p][First(p, codes)] /\ m.code \in codes /\ m \in Range(inbox[p])
              /\ inbox' \in [Peer -> Seq(MsgsOf(DownCode, Id))]
              /\ LessAt(p, inbox, inbox', m)
<1>1. First(p, codes) \in DOMAIN inbox[p] /\ inbox[p][First(p, codes)].code \in codes
    BY FirstIsThere
<1>2. inbox \in [Peer -> Seq(MsgsOf(DownCode, Id))]
    BY DEF SignalTypes
<1> QED
    BY <1>1, <1>2, OneTaken

\* handleClient sends the first message of the queue of p.
LEMMA SendIs ==
    ASSUME SignalTypes, NEW p \in Peer, SendQueued(p)
    PROVE  \E m \in MsgsOf(DownCode, Id) :
              /\ m \in Range(queue[p])
              /\ queue' \in [Peer -> Seq(MsgsOf(DownCode, Id))] /\ LessAt(p, queue, queue', m)
              /\ inbox' \in [Peer -> Seq(MsgsOf(DownCode, Id))]
              /\ p \in here => MoreAt(p, inbox, inbox', m)
              /\ p \notin here => inbox' = inbox
<1> DEFINE S == MsgsOf(DownCode, Id)
<1>1. queue \in [Peer -> Seq(S)] /\ inbox \in [Peer -> Seq(S)]
    BY DEF SignalTypes
<1>2. /\ queue[p] # <<>> /\ queue' = [queue EXCEPT ![p] = Tail(@)]
      /\ inbox' = IF p \in here THEN [inbox EXCEPT ![p] = Append(@, Head(queue[p]))] ELSE inbox
    BY DEF SendQueued
<1> HIDE DEF S
<1>3. /\ queue' \in [Peer -> Seq(S)] /\ Head(queue[p]) \in S /\ Head(queue[p]) \in Range(queue[p])
      /\ LessAt(p, queue, queue', Head(queue[p]))
    BY <1>1, <1>2, HeadTaken
<1>4. CASE p \in here
    <2>1. PICK m, s : m = Head(queue[p]) /\ s = Append(inbox[p], m)
        OBVIOUS
    <2>2. m \in S /\ inbox' = [inbox EXCEPT ![p] = s]
        BY <1>2, <1>3, <1>4, <2>1
    <2>3. s = Append(inbox[p], m) /\ inbox \in [Peer -> Seq(S)]
        BY <1>1, <2>1
    <2>4. inbox' \in [Peer -> Seq(S)] /\ MoreAt(p, inbox, inbox', m)
        BY <2>2, <2>3, Appended
    <2> QED
        BY <1>3, <1>4, <2>1, <2>4 DEF S
<1>5. CASE p \notin here
    BY <1>1, <1>2, <1>3, <1>5 DEF S
<1> QED
    BY <1>4, <1>5

\* handleClient reads the first message that p has sent.
LEMMA ReadIs ==
    ASSUME SignalTypes, NEW p \in Peer, uplink[p] # <<>>, uplink' = [uplink EXCEPT ![p] = Tail(@)]
    PROVE  \E m \in MsgsOf(UpCode, Id) :
              /\ m = Head(uplink[p]) /\ m \in Range(uplink[p])
              /\ uplink' \in [Peer -> Seq(MsgsOf(UpCode, Id))] /\ LessAt(p, uplink, uplink', m)
<1>1. uplink \in [Peer -> Seq(MsgsOf(UpCode, Id))]
    BY DEF SignalTypes
<1> QED
    BY <1>1, HeadTaken

\* A message is put into the queue of p.
LEMMA QueueIs ==
    ASSUME SignalTypes, NEW p \in Peer, NEW m \in MsgsOf(DownCode, Id),
           queue' = [queue EXCEPT ![p] = Append(@, m)]
    PROVE  queue' \in [Peer -> Seq(MsgsOf(DownCode, Id))] /\ MoreAt(p, queue, queue', m)
<1>1. queue \in [Peer -> Seq(MsgsOf(DownCode, Id))]
    BY DEF SignalTypes
<1>2. PICK s : s = Append(queue[p], m)
    OBVIOUS
<1>3. queue' = [queue EXCEPT ![p] = s]
    BY <1>2
<1> QED
    BY <1>1, <1>2, <1>3, Appended

\* shareIceData replies under the identifier of the request it has in hand.
LEMMA AnswerIs ==
    ASSUME SignalTypes, NEW p \in Peer, AnswerRequest(p)
    PROVE  \E c \in Reply :
              LET m == Msg(c, p, share[p].id) IN
              /\ uplink' \in [Peer -> Seq(MsgsOf(UpCode, Id))]
              /\ MoreAt(p, uplink, uplink', m)
              /\ m \in MsgsOf(UpCode, Id) /\ m.code = c /\ m.peer = p /\ m.id = share[p].id
<1>1. PICK c \in Reply : uplink' = [uplink EXCEPT ![p] = Append(@, Msg(c, p, share[p].id))]
    BY DEF AnswerRequest, Reply
<1>2. share[p].id \in Id /\ uplink \in [Peer -> Seq(MsgsOf(UpCode, Id))] /\ c \in UpCode
    BY DEF SignalTypes, ShareType, UpCode
<1>3. /\ Msg(c, p, share[p].id) \in MsgsOf(UpCode, Id) /\ Msg(c, p, share[p].id).code = c
      /\ Msg(c, p, share[p].id).peer = p /\ Msg(c, p, share[p].id).id = share[p].id
    BY <1>2, MsgMade
<1>4. /\ uplink' \in [Peer -> Seq(MsgsOf(UpCode, Id))]
      /\ MoreAt(p, uplink, uplink', Msg(c, p, share[p].id))
    <2>1. PICK m, s : m = Msg(c, p, share[p].id) /\ s = Append(uplink[p], m)
        OBVIOUS
    <2>2. m \in MsgsOf(UpCode, Id)
        BY <1>3, <2>1
    <2>3. uplink' = [uplink EXCEPT ![p] = s] /\ s = Append(uplink[p], m)
        BY <1>1, <2>1
    <2>4. uplink \in [Peer -> Seq(MsgsOf(UpCode, Id))]
        BY <1>2
    <2>5. uplink' \in [Peer -> Seq(MsgsOf(UpCode, Id))] /\ MoreAt(p, uplink, uplink', m)
        BY <2>2, <2>3, <2>4, Appended
    <2> QED
        BY <2>1, <2>5
<1> QED
    BY <1>3, <1>4

\* What the steps make of a thread in addFileForPeer or shareIceData.
LEMMA ThreadsMade ==
    /\ Idle \in AddType /\ Receiving \in ShareType
    /\ \A q \in Peer : [pc |-> "wait", peer |-> q, ice |-> Nobody] \in AddType
    /\ \A a \in AddType, q \in Peer : [a EXCEPT !.pc = "connect", !.ice = q] \in AddType
    /\ \A q \in Peer, k \in Id : [pc |-> "lock", peer |-> q, id |-> k] \in ShareType
    /\ \A s \in ShareType : [s EXCEPT !.pc = "connect"] \in ShareType
BY ZeroIsId DEF AddType, ShareType, Idle, Receiving

\* A thread that gives up is free again.
LEMMA ThreadsFreed ==
    ASSUME NEW p \in Peer, add \in [Peer -> AddType], share \in [Peer -> ShareType],
           add' = add \/ add' = [add EXCEPT ![p] = Idle],
           share' = share \/ share' = [share EXCEPT ![p] = Receiving]
    PROVE  add' \in [Peer -> AddType] /\ share' \in [Peer -> ShareType]
<1>1. Idle \in AddType /\ Receiving \in ShareType
    BY ThreadsMade
<1> QED
    BY <1>1

\* The first state has the types.
LEMMA Types_Init == Init => SignalTypes
<1> SUFFICES ASSUME Init PROVE SignalTypes
    OBVIOUS
<1>1. 0 \in Id /\ Id \subseteq Nat
    BY ZeroIsId DEF Id
<1>2. DOMAIN waits = {}
    BY DEF Init
<1>3. \A S : <<>> \in Seq(S)
    OBVIOUS
<1>4. add \in [Peer -> AddType] /\ share \in [Peer -> ShareType]
    BY ThreadsMade DEF Init
<1>5. handler \in [Peer -> [peer : Peer \cup {Nobody}, id : Id]]
    BY <1>1 DEF Init, NotHandling
<1> QED
    BY <1>1, <1>2, <1>3, <1>4, <1>5, SignalingAssumption DEF Init, SignalTypes

\* Every step keeps the types.
LEMMA Types_Step == SignalTypes /\ [Next]_vars => SignalTypes'
<1> SUFFICES ASSUME SignalTypes, [Next]_vars PROVE SignalTypes'
    OBVIOUS
<1> USE DEF SignalTypes, peerVars, netVars, serverVars, counts
<1>1. ASSUME NEW p \in Peer, NEW q \in Peer, RequestConnection(p, q) PROVE SignalTypes'
    <2>1. uplink' \in [Peer -> Seq(MsgsOf(UpCode, Id))]
        BY <1>1, RequestIs
    <2>2. add' \in [Peer -> AddType]
        BY <1>1, ThreadsMade DEF RequestConnection
    <2>3. asked' \in Nat /\ asked' <= MaxRequests
        BY <1>1, SignalingAssumption DEF RequestConnection
    <2> QED
        BY <1>1, <2>1, <2>2, <2>3 DEF RequestConnection
<1>2. ASSUME NEW p \in Peer, TakeAnswer(p) PROVE SignalTypes'
    <2>1. PICK m \in MsgsOf(DownCode, Id) :
              m = inbox[p][First(p, Answer)] /\ inbox' \in [Peer -> Seq(MsgsOf(DownCode, Id))]
        BY <1>2, TakeIs DEF TakeAnswer
    <2>2. m.peer \in Peer
        BY MsgKinds
    <2>3. add' = [add EXCEPT ![p] = IF m.code = "UserAuthorizedICEData"
                                    THEN [@ EXCEPT !.pc = "connect", !.ice = m.peer] ELSE Idle]
        BY <1>2, <2>1 DEF TakeAnswer
    <2>4. add' \in [Peer -> AddType]
        BY <2>2, <2>3, ThreadsMade
    <2> QED
        BY <1>2, <2>1, <2>4 DEF TakeAnswer
<1>3. ASSUME NEW p \in Peer, TakeRequest(p) PROVE SignalTypes'
    <2>1. PICK m \in MsgsOf(DownCode, Id) :
              /\ m = inbox[p][First(p, {"AuthorizeICEConnection"})]
              /\ inbox' \in [Peer -> Seq(MsgsOf(DownCode, Id))]
        BY <1>3, TakeIs DEF TakeRequest
    <2>2. m.peer \in Peer /\ m.id \in Id
        BY MsgKinds
    <2>3. share' = [share EXCEPT ![p] = [pc |-> "lock", peer |-> m.peer, id |-> m.id]]
        BY <1>3, <2>1 DEF TakeRequest
    <2> QED
        <3>1. share' \in [Peer -> ShareType]
            BY <2>2, <2>3, ThreadsMade
        <3> QED
            BY <1>3, <2>1, <3>1 DEF TakeRequest
<1>4. ASSUME NEW p \in Peer, AnswerRequest(p) PROVE SignalTypes'
    <2>1. uplink' \in [Peer -> Seq(MsgsOf(UpCode, Id))]
        BY <1>4, AnswerIs
    <2>2. /\ \/ share' = [share EXCEPT ![p] = [@ EXCEPT !.pc = "connect"]]
             \/ share' = [share EXCEPT ![p] = Receiving]
          /\ UNCHANGED <<here, served, add, conn, inbox, queue, serverVars, counts>>
        BY <1>4 DEF AnswerRequest
    <2>3. share[p] \in ShareType
        OBVIOUS
    <2>4. share' \in [Peer -> ShareType]
        BY <2>2, <2>3, ThreadsMade
    <2> QED
        BY <2>1, <2>2, <2>4
<1>5. ASSUME NEW p \in Peer, NEW q \in Peer, Connect(p, q) PROVE SignalTypes'
    BY <1>5, ThreadsMade DEF Connect
<1>6. ASSUME NEW p \in Peer, AttemptFails(p) PROVE SignalTypes'
    <2>1. /\ add' = add \/ add' = [add EXCEPT ![p] = Idle]
          /\ share' = share \/ share' = [share EXCEPT ![p] = Receiving]
          /\ UNCHANGED <<here, served, conn, netVars, serverVars, counts>>
        BY <1>6 DEF AttemptFails
    <2>2. add' \in [Peer -> AddType] /\ share' \in [Peer -> ShareType]
        BY <2>1, ThreadsFreed
    <2> QED
        BY <2>1, <2>2
<1>7. ASSUME NEW p \in Peer, NEW q \in Peer, ForgetConnection(p, q) PROVE SignalTypes'
    BY <1>7 DEF ForgetConnection
<1>8. ASSUME NEW p \in Peer, Leave(p) PROVE SignalTypes'
    <2>1. inbox' \in [Peer -> Seq(MsgsOf(DownCode, Id))]
        BY <1>8, Emptied DEF Leave
    <2> QED
        BY <1>8, <2>1, ThreadsMade DEF Leave
<1>9. ASSUME NEW p \in Peer, SendQueued(p) PROVE SignalTypes'
    <2>1. /\ queue' \in [Peer -> Seq(MsgsOf(DownCode, Id))]
          /\ inbox' \in [Peer -> Seq(MsgsOf(DownCode, Id))]
        BY <1>9, SendIs
    <2> QED
        BY <1>9, <2>1 DEF SendQueued
<1>10. ASSUME NEW p \in Peer, HandleGetUserICEInfo(p) PROVE SignalTypes'
    <2>1. PICK m \in MsgsOf(UpCode, Id) :
              /\ m = Head(uplink[p]) /\ uplink' \in [Peer -> Seq(MsgsOf(UpCode, Id))]
        BY <1>10, ReadIs DEF HandleGetUserICEInfo
    <2>2. m.peer \in Peer
        BY MsgKinds
    <2>3. CASE UNCHANGED handler /\ queue' = [queue EXCEPT ![p] = @ \o Refusal(m.peer)]
        <3>1. RefusalMsg(m.peer) \in MsgsOf(DownCode, Id)
            BY <2>2, MsgMade, ZeroIsId DEF RefusalMsg, DownCode, Answer
        <3>2. queue' \in [Peer -> Seq(MsgsOf(DownCode, Id))]
            BY <2>2, <2>3, <3>1, RefusalIs, QueueIs
        <3> QED
            BY <1>10, <2>1, <2>3, <3>2 DEF HandleGetUserICEInfo
    <2>4. CASE UNCHANGED queue /\ handler' = [handler EXCEPT ![p] = [peer |-> m.peer, id |-> waitIds]]
        BY <1>10, <2>1, <2>2, <2>4 DEF HandleGetUserICEInfo
    <2> QED
        BY <1>10, <2>1, <2>3, <2>4 DEF HandleGetUserICEInfo
<1>11. ASSUME NEW p \in Peer, RecordRequest(p) PROVE SignalTypes'
    <2>1. PICK q \in Peer : q = handler[p].peer
        BY <1>11 DEF RecordRequest
    <2>2. Msg("AuthorizeICEConnection", p, handler[p].id) \in MsgsOf(DownCode, Id)
        BY MsgMade DEF DownCode
    <2>3. queue' \in [Peer -> Seq(MsgsOf(DownCode, Id))]
        BY <1>11, <2>1, <2>2, QueueIs DEF RecordRequest
    <2>4. waitIds' \in Id
        BY <1>11, NextIsId DEF RecordRequest
    <2>5. DOMAIN waits' \subseteq Id /\ \A k \in DOMAIN waits' : waits'[k] \in Peer \X Peer
        <3>1. waits' = Entered(<<p, q>>)
            BY <1>11, <2>1 DEF RecordRequest
        <3>2. <<p, q>> \in Peer \X Peer
            OBVIOUS
        <3> QED
            BY <1>11, <3>1, <3>2 DEF Entered
    <2>6. handler' = [handler EXCEPT ![p] = NotHandling]
        BY <1>11 DEF RecordRequest
    <2>7. handler' \in [Peer -> [peer : Peer \cup {Nobody}, id : Id]]
        BY <2>6, ZeroIsId DEF NotHandling
    <2>8. \A r \in Peer : handler'[r] # NotHandling => handler'[r].peer \in Peer
        BY <2>6
    <2> QED
        BY <1>11, <2>3, <2>4, <2>5, <2>7, <2>8 DEF RecordRequest
<1>12. ASSUME NEW p \in Peer, HandleAnswer(p) PROVE SignalTypes'
    <2>1. PICK m \in MsgsOf(UpCode, Id) :
              /\ m = Head(uplink[p]) /\ uplink' \in [Peer -> Seq(MsgsOf(UpCode, Id))]
        BY <1>12, ReadIs DEF HandleAnswer
    <2>2. Forwarded(m) \in MsgsOf(DownCode, Id)
        BY <1>12, <2>1, ForwardedMade DEF HandleAnswer
    <2>3. Requester(m.id) \in Peer \cup {Nobody}
        BY DEF Requester
    <2>4. queue' \in [Peer -> Seq(MsgsOf(DownCode, Id))]
        <3>1. CASE Requester(m.id) = Nobody
            BY <1>12, <2>1, <3>1 DEF HandleAnswer
        <3>2. CASE Requester(m.id) # Nobody
            BY <1>12, <2>1, <2>2, <2>3, <3>2, QueueIs DEF HandleAnswer
        <3> QED
            BY <3>1, <3>2
    <2>5. DOMAIN waits' \subseteq Id /\ \A k \in DOMAIN waits' : waits'[k] \in Peer \X Peer
        BY <1>12 DEF HandleAnswer, Answered, Restrict
    <2> QED
        BY <1>12, <2>1, <2>4, <2>5 DEF HandleAnswer
<1>13. ASSUME NEW p \in Peer, CleanUp(p) PROVE SignalTypes'
    <2>1. queue' \in [Peer -> Seq(MsgsOf(DownCode, Id))]
        BY <1>13, Emptied DEF CleanUp
    <2> QED
        BY <1>13, <2>1 DEF CleanUp
<1>14. ASSUME NEW k \in Id, Age(k) PROVE SignalTypes'
    BY <1>14 DEF Age
<1>15. CASE UNCHANGED vars
    BY <1>15 DEF vars
<1> QED
    BY <1>1, <1>2, <1>3, <1>4, <1>5, <1>6, <1>7, <1>8, <1>9, <1>10, <1>11, <1>12, <1>13, <1>14,
       <1>15 DEF Next, PeerStep, ServerStep, Attempt

-----------------------------------------------------------------------------
(* The pending requests.                                                   *)

\* The pending requests of a peer are finitely many.
LEMMA PendingFinite ==
    ASSUME SignalTypes, NEW r
    PROVE  IsFiniteSet(Pending(r)) /\ Cardinality(Pending(r)) \in Nat
<1>1. IsFiniteSet(Id)
    BY SignalingAssumption, FS_Interval DEF Id
<1>2. Pending(r) \in SUBSET Id
    BY DEF Pending, SignalTypes
<1> QED
    BY <1>1, <1>2, FS_Subset, FS_CardinalityType

\* Recording a request under a free identifier makes one more of p pending.
LEMMA PendingEntered ==
    ASSUME SignalTypes, SignalTypes', NEW p \in Peer, NEW q \in Peer,
           waitIds \notin DOMAIN waits, waits' = Entered(<<p, q>>)
    PROVE  /\ DOMAIN waits' = DOMAIN waits \cup {waitIds}
           /\ waits'[waitIds] = <<p, q>> /\ \A k \in DOMAIN waits : waits'[k] = waits[k]
           /\ \A r \in Peer : Cardinality(Pending(r))'
                              = Cardinality(Pending(r)) + IF r = p THEN 1 ELSE 0
<1>1. /\ DOMAIN waits' = DOMAIN waits \cup {waitIds}
      /\ waits'[waitIds] = <<p, q>> /\ \A k \in DOMAIN waits : waits'[k] = waits[k]
    BY DEF Entered
<1>2. ASSUME NEW r \in Peer
      PROVE  Cardinality(Pending(r))' = Cardinality(Pending(r)) + IF r = p THEN 1 ELSE 0
    <2>1. IsFiniteSet(Pending(r)) /\ Cardinality(Pending(r)) \in Nat
        BY PendingFinite
    <2>2. CASE r = p
        <3>1. Pending(r)' = Pending(r) \cup {waitIds} /\ waitIds \notin Pending(r)
            BY <1>1, <2>2 DEF Pending
        <3>2. Cardinality(Pending(r) \cup {waitIds}) = Cardinality(Pending(r)) + 1
            BY <2>1, <3>1, FS_AddElement
        <3> QED
            BY <2>2, <3>1, <3>2
    <2>3. CASE r # p
        <3>1. Pending(r)' = Pending(r)
            BY <1>1, <2>3 DEF Pending
        <3> QED
            BY <2>1, <2>3, <3>1
    <2> QED
        BY <2>2, <2>3
<1> QED
    BY <1>1, <1>2

\* An answer takes one pending request from its requester, or none.
LEMMA PendingAnswered ==
    ASSUME SignalTypes, NEW k \in Id, waits' = Answered(k)
    PROVE  /\ DOMAIN waits' = DOMAIN waits \ {k}
           /\ \A j \in DOMAIN waits' : waits'[j] = waits[j]
           /\ \A r \in Peer : Cardinality(Pending(r))
                              = Cardinality(Pending(r))' + IF Requester(k) = r THEN 1 ELSE 0
<1>1. /\ DOMAIN waits' = DOMAIN waits \ {k} /\ \A j \in DOMAIN waits' : waits'[j] = waits[j]
    BY DEF Answered, Restrict
<1>2. ASSUME NEW r \in Peer
      PROVE  Cardinality(Pending(r)) = Cardinality(Pending(r))' + IF Requester(k) = r THEN 1 ELSE 0
    <2>1. IsFiniteSet(Pending(r)) /\ Cardinality(Pending(r)) \in Nat
        BY PendingFinite
    <2>2. k \in Pending(r) <=> Requester(k) = r
        BY SignalingAssumption DEF Pending, Requester
    <2>3. Pending(r)' = Pending(r) \ {k}
        BY <1>1 DEF Pending
    <2>4. /\ IsFiniteSet(Pending(r) \ {k})
          /\ Cardinality(Pending(r) \ {k})
             = IF k \in Pending(r) THEN Cardinality(Pending(r)) - 1 ELSE Cardinality(Pending(r))
        BY <2>1, FS_RemoveElement
    <2>5. Cardinality(Pending(r) \ {k}) \in Nat
        BY <2>4, FS_CardinalityType
    <2> QED
        BY <2>1, <2>2, <2>3, <2>4, <2>5
<1> QED
    BY <1>1, <1>2

-----------------------------------------------------------------------------
(* What a step does to the traces of requests.                             *)

Handling(r) == IF handler[r] = NotHandling THEN 0 ELSE 1
InHand(k, r) == IF share[r].pc = "lock" /\ share[r].id = k THEN 1 ELSE 0

TraceParts(r) ==
    /\ Traces(r) = Count(uplink[r], Asks) + Handling(r) + Cardinality(Pending(r))
                   + Count(queue[r], Answers) + Count(inbox[r], Answers)
    /\ Count(uplink[r], Asks) \in Nat /\ Handling(r) \in 0..1
    /\ Cardinality(Pending(r)) \in Nat
    /\ Count(queue[r], Answers) \in Nat /\ Count(inbox[r], Answers) \in Nat

StepParts(k, r) ==
    /\ Steps(k, r) = Count(queue[r], PassedOn(k)) + Count(inbox[r], PassedOn(k))
                     + InHand(k, r) + Count(uplink[r], Replies(k))
    /\ Count(queue[r], PassedOn(k)) \in Nat /\ Count(inbox[r], PassedOn(k)) \in Nat
    /\ InHand(k, r) \in 0..1 /\ Count(uplink[r], Replies(k)) \in Nat

Parts == \A r \in Peer : TraceParts(r) /\ \A k \in Id : StepParts(k, r)

\* Traces and steps are sums of numbers.
LEMMA AllParts == SignalTypes => Parts
<1> SUFFICES ASSUME SignalTypes, NEW r \in Peer, NEW k \in Id PROVE TraceParts(r) /\ StepParts(k, r)
    BY SignalingAssumption, ZeroIsId DEF Parts
<1>1. Handling(r) \in 0..1 /\ InHand(k, r) \in 0..1
    BY DEF Handling, InHand
<1>2. TraceParts(r)
    BY <1>1, QueueCounts, PendingFinite DEF Traces, Handling, TraceParts
<1>3. StepParts(k, r)
    BY <1>1, QueueCounts DEF Steps, InHand, StepParts
<1> QED
    BY <1>2, <1>3

\* So they are after a step.
LEMMA AllPartsNext == SignalTypes' => Parts'
BY AllParts, PTL

\* Nothing is added to what there is of the requests, and nothing is lost for
\* a peer that is here.
TracesKept(r) == Traces(r)' <= Traces(r) /\ (r \in here' => Traces(r)' = Traces(r))
StepsKept(k, r) == Steps(k, r)' <= Steps(k, r) /\ (r \in here' => Steps(k, r)' = Steps(k, r))

\* The parts that a step leaves alone.
LEMMA SameTraces ==
    ASSUME SignalTypes, SignalTypes', NEW r \in Peer,
           Count(uplink[r], Asks)' = Count(uplink[r], Asks), Handling(r)' = Handling(r),
           Cardinality(Pending(r))' = Cardinality(Pending(r)),
           Count(queue[r], Answers)' + Count(inbox[r], Answers)'
           = Count(queue[r], Answers) + Count(inbox[r], Answers)
    PROVE  TracesKept(r)
<1>1. TraceParts(r) /\ TraceParts(r)'
    BY AllParts, AllPartsNext DEF Parts
<1> QED
    BY <1>1 DEF TraceParts, TracesKept

\* The same of the way of a request.
LEMMA SameSteps ==
    ASSUME SignalTypes, SignalTypes', NEW r \in Peer, NEW k \in Id,
           Count(queue[r], PassedOn(k))' = Count(queue[r], PassedOn(k)),
           Count(inbox[r], PassedOn(k))' = Count(inbox[r], PassedOn(k)),
           InHand(k, r)' = InHand(k, r),
           Count(uplink[r], Replies(k))' = Count(uplink[r], Replies(k))
    PROVE  StepsKept(k, r) /\ Steps(k, r)' = Steps(k, r)
<1>1. StepParts(k, r) /\ StepParts(k, r)'
    BY AllParts, AllPartsNext DEF Parts
<1> QED
    BY <1>1 DEF StepParts, StepsKept

Quiet == UNCHANGED <<uplink, queue, inbox, handler, waits>>

\* Steps that touch no message and no request in hand.
LEMMA Effect_Quiet ==
    ASSUME SignalTypes, SignalTypes', Quiet, \A r \in Peer, k \in Id : InHand(k, r)' = InHand(k, r)
    PROVE  \A r \in Peer : TracesKept(r) /\ \A k \in Id : StepsKept(k, r)
<1> SUFFICES ASSUME NEW r \in Peer, NEW k \in Id PROVE TracesKept(r) /\ StepsKept(k, r)
    BY ZeroIsId
<1>1. /\ \A M : /\ Count(uplink[r], M)' = Count(uplink[r], M)
                /\ Count(queue[r], M)' = Count(queue[r], M)
                /\ Count(inbox[r], M)' = Count(inbox[r], M)
      /\ Handling(r)' = Handling(r) /\ Cardinality(Pending(r))' = Cardinality(Pending(r))
    BY DEF Quiet, Handling, Pending
<1>2. TracesKept(r)
    BY <1>1, SameTraces
<1>3. StepsKept(k, r)
    BY <1>1, SameSteps
<1> QED
    BY <1>2, <1>3

\* A new request is one trace more of who asks.
LEMMA Effect_Request ==
    ASSUME SignalTypes, SignalTypes', NEW p \in Peer, NEW q \in Peer, RequestConnection(p, q)
    PROVE  /\ \A r \in Peer : Traces(r)' = Traces(r) + IF r = p THEN 1 ELSE 0
           /\ \A r \in Peer, k \in Id : StepsKept(k, r)
<1>1. MoreAt(p, uplink, uplink', AskMsg(q)) /\ UNCHANGED <<queue, inbox, handler, waits, share>>
    BY RequestIs DEF RequestConnection, serverVars
<1>2. AskMsg(q) \in Asks /\ \A k \in Id : AskMsg(q) \notin Replies(k)
    BY ZeroIsId DEF AskMsg, Msg, MsgsOf, Asks, Replies, Reply
<1>3. \A r \in Peer : \A M :
          /\ Count(uplink[r], M)' = Count(uplink[r], M) + IF r = p /\ AskMsg(q) \in M THEN 1 ELSE 0
          /\ Count(queue[r], M)' = Count(queue[r], M) /\ Count(inbox[r], M)' = Count(inbox[r], M)
    BY <1>1 DEF MoreAt
<1>4. \A r \in Peer : /\ Handling(r)' = Handling(r) /\ Pending(r)' = Pending(r)
                      /\ \A k \in Id : InHand(k, r)' = InHand(k, r)
    BY <1>1 DEF Handling, Pending, InHand
<1>5. ASSUME NEW r \in Peer PROVE Traces(r)' = Traces(r) + IF r = p THEN 1 ELSE 0
    <2>1. TraceParts(r) /\ TraceParts(r)'
        BY AllParts, AllPartsNext DEF Parts
    <2>2. /\ Count(uplink[r], Asks)' = Count(uplink[r], Asks) + IF r = p THEN 1 ELSE 0
          /\ Count(queue[r], Answers)' = Count(queue[r], Answers)
          /\ Count(inbox[r], Answers)' = Count(inbox[r], Answers)
        BY <1>2, <1>3
    <2> QED
        BY <1>4, <2>1, <2>2 DEF TraceParts
<1>6. ASSUME NEW r \in Peer, NEW k \in Id PROVE StepsKept(k, r)
    <2>1. StepParts(k, r) /\ StepParts(k, r)'
        BY AllParts, AllPartsNext DEF Parts
    <2>2. /\ Count(uplink[r], Replies(k))' = Count(uplink[r], Replies(k)) + 0
          /\ Count(queue[r], PassedOn(k))' = Count(queue[r], PassedOn(k))
          /\ Count(inbox[r], PassedOn(k))' = Count(inbox[r], PassedOn(k))
        BY <1>2, <1>3
    <2> QED
        BY <1>4, <2>1, <2>2 DEF StepParts, StepsKept
<1> QED
    BY <1>5, <1>6

\* Taking the answer is one trace less of who asked.
LEMMA Effect_TakeAnswer ==
    ASSUME SignalTypes, SignalTypes', NEW p \in Peer, TakeAnswer(p)
    PROVE  /\ \A r \in Peer : Traces(r) = Traces(r)' + IF r = p THEN 1 ELSE 0
           /\ \A r \in Peer, k \in Id : StepsKept(k, r)
<1>1. PICK m \in MsgsOf(DownCode, Id) : m.code \in Answer /\ LessAt(p, inbox, inbox', m)
    BY TakeIs DEF TakeAnswer
<1>2. UNCHANGED <<queue, uplink, handler, waits, share>>
    BY DEF TakeAnswer, serverVars
<1>3. m \in Answers /\ \A k \in Id : m \notin PassedOn(k)
    BY <1>1, MsgKinds DEF Answer
<1>4. \A r \in Peer : \A M :
          /\ Count(inbox[r], M) = Count(inbox[r], M)' + IF r = p /\ m \in M THEN 1 ELSE 0
          /\ Count(queue[r], M)' = Count(queue[r], M) /\ Count(uplink[r], M)' = Count(uplink[r], M)
    BY <1>1, <1>2 DEF LessAt
<1>5. \A r \in Peer : /\ Handling(r)' = Handling(r) /\ Pending(r)' = Pending(r)
                      /\ \A k \in Id : InHand(k, r)' = InHand(k, r)
    BY <1>2 DEF Handling, Pending, InHand
<1>6. ASSUME NEW r \in Peer PROVE Traces(r) = Traces(r)' + IF r = p THEN 1 ELSE 0
    <2>1. TraceParts(r) /\ TraceParts(r)'
        BY AllParts, AllPartsNext DEF Parts
    <2>2. /\ Count(inbox[r], Answers) = Count(inbox[r], Answers)' + IF r = p THEN 1 ELSE 0
          /\ Count(queue[r], Answers)' = Count(queue[r], Answers)
          /\ Count(uplink[r], Asks)' = Count(uplink[r], Asks)
        BY <1>3, <1>4
    <2> QED
        BY <1>5, <2>1, <2>2 DEF TraceParts
<1>7. ASSUME NEW r \in Peer, NEW k \in Id PROVE StepsKept(k, r)
    <2>1. StepParts(k, r) /\ StepParts(k, r)'
        BY AllParts, AllPartsNext DEF Parts
    <2>2. /\ Count(uplink[r], Replies(k))' = Count(uplink[r], Replies(k))
          /\ Count(queue[r], PassedOn(k))' = Count(queue[r], PassedOn(k))
          /\ Count(inbox[r], PassedOn(k)) = Count(inbox[r], PassedOn(k))' + 0
        BY <1>3, <1>4
    <2> QED
        BY <1>5, <2>1, <2>2 DEF StepParts, StepsKept
<1> QED
    BY <1>6, <1>7

\* A request passes from the inbox into the hands of the peer.
LEMMA Effect_TakeRequest ==
    ASSUME SignalTypes, SignalTypes', NEW p \in Peer, TakeRequest(p)
    PROVE  \A r \in Peer : TracesKept(r) /\ \A k \in Id : StepsKept(k, r)
<1> DEFINE codes == {"AuthorizeICEConnection"}
<1>1. PICK m \in MsgsOf(DownCode, Id) :
          /\ m = inbox[p][First(p, codes)] /\ LessAt(p, inbox, inbox', m)
          /\ m.code = "AuthorizeICEConnection"
    <2>1. First(p, codes) # 0 /\ inbox' = [inbox EXCEPT ![p] = RemoveAt(@, First(p, codes))]
        BY DEF TakeRequest
    <2>2. PICK m \in MsgsOf(DownCode, Id) :
              /\ m = inbox[p][First(p, codes)] /\ LessAt(p, inbox, inbox', m) /\ m.code \in codes
        <3> HIDE DEF codes
        <3> QED
            BY <2>1, TakeIs
    <2> QED
        BY <2>2
<1>2. /\ UNCHANGED <<queue, uplink, handler, waits>> /\ share[p].pc = "receive"
      /\ share' = [share EXCEPT ![p] = [pc |-> "lock", peer |-> m.peer, id |-> m.id]]
    BY <1>1 DEF TakeRequest, serverVars
<1>3. m \notin Answers /\ \A k \in Id : m \in PassedOn(k) <=> k = m.id
    BY <1>1, MsgKinds DEF Answer
<1>4. \A r \in Peer : \A M :
          /\ Count(inbox[r], M) = Count(inbox[r], M)' + IF r = p /\ m \in M THEN 1 ELSE 0
          /\ Count(queue[r], M)' = Count(queue[r], M) /\ Count(uplink[r], M)' = Count(uplink[r], M)
    BY <1>1, <1>2 DEF LessAt
<1>5. \A r \in Peer : Handling(r)' = Handling(r) /\ Pending(r)' = Pending(r)
    BY <1>2 DEF Handling, Pending
<1>6. \A r \in Peer, k \in Id :
          InHand(k, r)' = InHand(k, r) + IF r = p /\ k = m.id THEN 1 ELSE 0
    BY <1>2 DEF InHand, SignalTypes
<1>7. ASSUME NEW r \in Peer PROVE TracesKept(r)
    <2>1. TraceParts(r) /\ TraceParts(r)'
        BY AllParts, AllPartsNext DEF Parts
    <2>2. /\ Count(inbox[r], Answers) = Count(inbox[r], Answers)' + 0
          /\ Count(queue[r], Answers)' = Count(queue[r], Answers)
          /\ Count(uplink[r], Asks)' = Count(uplink[r], Asks)
        BY <1>3, <1>4
    <2> QED
        BY <1>5, <2>1, <2>2 DEF TraceParts, TracesKept
<1>8. ASSUME NEW r \in Peer, NEW k \in Id PROVE StepsKept(k, r)
    <2>1. StepParts(k, r) /\ StepParts(k, r)'
        BY AllParts, AllPartsNext DEF Parts
    <2>2. /\ Count(uplink[r], Replies(k))' = Count(uplink[r], Replies(k))
          /\ Count(queue[r], PassedOn(k))' = Count(queue[r], PassedOn(k))
          /\ Count(inbox[r], PassedOn(k))
             = Count(inbox[r], PassedOn(k))' + IF r = p /\ k = m.id THEN 1 ELSE 0
        BY <1>3, <1>4
    <2> QED
        BY <1>6, <2>1, <2>2 DEF StepParts, StepsKept
<1> QED
    BY <1>7, <1>8

\* A request in hand becomes the reply on its way back.
LEMMA Effect_AnswerRequest ==
    ASSUME SignalTypes, SignalTypes', NEW p \in Peer, AnswerRequest(p)
    PROVE  \A r \in Peer : TracesKept(r) /\ \A k \in Id : StepsKept(k, r)
<1>1. PICK c \in Reply, m \in MsgsOf(UpCode, Id) :
          /\ MoreAt(p, uplink, uplink', m)
          /\ m.code = c /\ m.peer = p /\ m.id = share[p].id
    BY AnswerIs
<1>2. /\ UNCHANGED <<queue, inbox, handler, waits>> /\ share[p].pc = "lock"
      /\ share' = [share EXCEPT ![p] = [@ EXCEPT !.pc = "connect"]]
         \/ share' = [share EXCEPT ![p] = Receiving]
    BY DEF AnswerRequest, serverVars
<1>3. m \notin Asks /\ \A k \in Id : m \in Replies(k) <=> k = m.id
    BY <1>1, MsgKinds DEF Reply
<1>4. \A r \in Peer : \A M :
          /\ Count(uplink[r], M)' = Count(uplink[r], M) + IF r = p /\ m \in M THEN 1 ELSE 0
          /\ Count(queue[r], M)' = Count(queue[r], M) /\ Count(inbox[r], M)' = Count(inbox[r], M)
    BY <1>1, <1>2 DEF MoreAt
<1>5. \A r \in Peer : Handling(r)' = Handling(r) /\ Pending(r)' = Pending(r)
    BY <1>2 DEF Handling, Pending
<1>6. share'[p].pc \in {"connect", "receive"} /\ \A r \in Peer : r # p => share'[r] = share[r]
    BY <1>2 DEF SignalTypes, ShareType, Receiving
<1>7. \A r \in Peer, k \in Id :
          InHand(k, r) = InHand(k, r)' + IF r = p /\ k = m.id THEN 1 ELSE 0
    BY <1>1, <1>2, <1>6 DEF InHand
<1>8. ASSUME NEW r \in Peer PROVE TracesKept(r)
    <2>1. TraceParts(r) /\ TraceParts(r)'
        BY AllParts, AllPartsNext DEF Parts
    <2>2. /\ Count(uplink[r], Asks)' = Count(uplink[r], Asks) + 0
          /\ Count(queue[r], Answers)' = Count(queue[r], Answers)
          /\ Count(inbox[r], Answers)' = Count(inbox[r], Answers)
        BY <1>3, <1>4
    <2> QED
        BY <1>5, <2>1, <2>2 DEF TraceParts, TracesKept
<1>9. ASSUME NEW r \in Peer, NEW k \in Id PROVE StepsKept(k, r)
    <2>1. StepParts(k, r) /\ StepParts(k, r)'
        BY AllParts, AllPartsNext DEF Parts
    <2>2. /\ Count(uplink[r], Replies(k))'
             = Count(uplink[r], Replies(k)) + IF r = p /\ k = m.id THEN 1 ELSE 0
          /\ Count(queue[r], PassedOn(k))' = Count(queue[r], PassedOn(k))
          /\ Count(inbox[r], PassedOn(k))' = Count(inbox[r], PassedOn(k))
        BY <1>3, <1>4
    <2> QED
        BY <1>7, <2>1, <2>2 DEF StepParts, StepsKept
<1> QED
    BY <1>8, <1>9

\* A peer that leaves loses what came for it, and others lose nothing.
LEMMA Effect_Leave ==
    ASSUME SignalTypes, SignalTypes', NEW p \in Peer, Leave(p)
    PROVE  \A r \in Peer : TracesKept(r) /\ \A k \in Id : StepsKept(k, r)
<1>1. NoneAt(p, inbox, inbox')
    <2>1. inbox \in [Peer -> Seq(MsgsOf(DownCode, Id))] /\ inbox' = [inbox EXCEPT ![p] = <<>>]
        BY DEF Leave, SignalTypes
    <2> QED
        BY <2>1, Emptied
<1>2. /\ UNCHANGED <<queue, uplink, handler, waits>> /\ p \notin here'
      /\ share' = [share EXCEPT ![p] = Receiving]
    BY DEF Leave, serverVars
<1>3. \A r \in Peer : \A M :
          /\ Count(inbox[r], M)' = IF r = p THEN 0 ELSE Count(inbox[r], M)
          /\ Count(queue[r], M)' = Count(queue[r], M) /\ Count(uplink[r], M)' = Count(uplink[r], M)
    BY <1>1, <1>2 DEF NoneAt
<1>4. \A r \in Peer : Handling(r)' = Handling(r) /\ Pending(r)' = Pending(r)
    BY <1>2 DEF Handling, Pending
<1>5. \A r \in Peer, k \in Id : InHand(k, r)' = IF r = p THEN 0 ELSE InHand(k, r)
    BY <1>2 DEF InHand, Receiving, SignalTypes
<1>6. ASSUME NEW r \in Peer PROVE TracesKept(r)
    <2>1. TraceParts(r) /\ TraceParts(r)'
        BY AllParts, AllPartsNext DEF Parts
    <2>2. /\ Count(inbox[r], Answers)' = IF r = p THEN 0 ELSE Count(inbox[r], Answers)
          /\ Count(queue[r], Answers)' = Count(queue[r], Answers)
          /\ Count(uplink[r], Asks)' = Count(uplink[r], Asks)
        BY <1>3
    <2> QED
        BY <1>2, <1>4, <2>1, <2>2 DEF TraceParts, TracesKept
<1>7. ASSUME NEW r \in Peer, NEW k \in Id PROVE StepsKept(k, r)
    <2>1. StepParts(k, r) /\ StepParts(k, r)'
        BY AllParts, AllPartsNext DEF Parts
    <2>2. /\ Count(uplink[r], Replies(k))' = Count(uplink[r], Replies(k))
          /\ Count(queue[r], PassedOn(k))' = Count(queue[r], PassedOn(k))
          /\ Count(inbox[r], PassedOn(k))' = IF r = p THEN 0 ELSE Count(inbox[r], PassedOn(k))
        BY <1>3
    <2> QED
        BY <1>2, <1>5, <2>1, <2>2 DEF StepParts, StepsKept
<1> QED
    BY <1>6, <1>7

\* The server's thread of a client that left sends what is queued to nobody.
LEMMA Effect_SendQueued ==
    ASSUME SignalTypes, SignalTypes', NEW p \in Peer, SendQueued(p)
    PROVE  \A r \in Peer : TracesKept(r) /\ \A k \in Id : StepsKept(k, r)
<1>1. PICK m \in MsgsOf(DownCode, Id) :
          /\ LessAt(p, queue, queue', m)
          /\ p \in here => MoreAt(p, inbox, inbox', m)
          /\ p \notin here => inbox' = inbox
    BY SendIs
<1>2. UNCHANGED <<uplink, handler, waits, share, here>>
    BY DEF SendQueued, peerVars, serverVars
<1> DEFINE One(r, M) == IF r = p /\ m \in M THEN 1 ELSE 0
<1>3. \A r \in Peer : \A M : /\ Count(queue[r], M) = Count(queue[r], M)' + One(r, M)
                         /\ Count(uplink[r], M)' = Count(uplink[r], M)
    BY <1>1, <1>2 DEF LessAt
<1>4. \A r \in Peer : \A M : Count(inbox[r], M)' = Count(inbox[r], M) + IF p \in here THEN One(r, M) ELSE 0
    <2>1. CASE p \in here
        BY <1>1, <2>1 DEF MoreAt
    <2>2. CASE p \notin here
        <3>1. \A r \in Peer : \A M : Count(inbox[r], M) \in Nat
            BY QueueCounts
        <3> QED
            BY <1>1, <2>2, <3>1
    <2> QED
        BY <2>1, <2>2
<1>5. \A r \in Peer : /\ Handling(r)' = Handling(r) /\ Pending(r)' = Pending(r)
                      /\ \A k \in Id : InHand(k, r)' = InHand(k, r)
    BY <1>2 DEF Handling, Pending, InHand
<1>6. ASSUME NEW r \in Peer PROVE TracesKept(r)
    <2>1. TraceParts(r) /\ TraceParts(r)'
        BY AllParts, AllPartsNext DEF Parts
    <2>2. /\ Count(queue[r], Answers) = Count(queue[r], Answers)' + One(r, Answers)
          /\ Count(inbox[r], Answers)'
             = Count(inbox[r], Answers) + IF p \in here THEN One(r, Answers) ELSE 0
          /\ Count(uplink[r], Asks)' = Count(uplink[r], Asks)
        BY <1>3, <1>4
    <2> QED
        BY <1>2, <1>5, <2>1, <2>2 DEF TraceParts, TracesKept
<1>7. ASSUME NEW r \in Peer, NEW k \in Id PROVE StepsKept(k, r)
    <2>1. StepParts(k, r) /\ StepParts(k, r)'
        BY AllParts, AllPartsNext DEF Parts
    <2>2. /\ Count(queue[r], PassedOn(k)) = Count(queue[r], PassedOn(k))' + One(r, PassedOn(k))
          /\ Count(inbox[r], PassedOn(k))'
             = Count(inbox[r], PassedOn(k)) + IF p \in here THEN One(r, PassedOn(k)) ELSE 0
          /\ Count(uplink[r], Replies(k))' = Count(uplink[r], Replies(k))
        BY <1>3, <1>4
    <2> QED
        BY <1>2, <1>5, <2>1, <2>2 DEF StepParts, StepsKept
<1> QED
    BY <1>6, <1>7

\* The server drops the queue of a peer that left.
LEMMA Effect_CleanUp ==
    ASSUME SignalTypes, SignalTypes', NEW p \in Peer, CleanUp(p)
    PROVE  \A r \in Peer : TracesKept(r) /\ \A k \in Id : StepsKept(k, r)
<1>1. NoneAt(p, queue, queue')
    <2>1. queue \in [Peer -> Seq(MsgsOf(DownCode, Id))] /\ queue' = [queue EXCEPT ![p] = <<>>]
        BY DEF CleanUp, SignalTypes
    <2> QED
        BY <2>1, Emptied
<1>2. UNCHANGED <<inbox, uplink, handler, waits, share, here>> /\ p \notin here
    BY DEF CleanUp, serverVars, peerVars
<1>3. \A r \in Peer : \A M :
          /\ Count(queue[r], M)' = IF r = p THEN 0 ELSE Count(queue[r], M)
          /\ Count(inbox[r], M)' = Count(inbox[r], M) /\ Count(uplink[r], M)' = Count(uplink[r], M)
    BY <1>1, <1>2 DEF NoneAt
<1>4. \A r \in Peer : /\ Handling(r)' = Handling(r) /\ Pending(r)' = Pending(r)
                      /\ \A k \in Id : InHand(k, r)' = InHand(k, r)
    BY <1>2 DEF Handling, Pending, InHand
<1>5. ASSUME NEW r \in Peer PROVE TracesKept(r)
    <2>1. TraceParts(r) /\ TraceParts(r)'
        BY AllParts, AllPartsNext DEF Parts
    <2>2. /\ Count(queue[r], Answers)' = IF r = p THEN 0 ELSE Count(queue[r], Answers)
          /\ Count(inbox[r], Answers)' = Count(inbox[r], Answers)
          /\ Count(uplink[r], Asks)' = Count(uplink[r], Asks)
        BY <1>3
    <2> QED
        BY <1>2, <1>4, <2>1, <2>2 DEF TraceParts, TracesKept
<1>6. ASSUME NEW r \in Peer, NEW k \in Id PROVE StepsKept(k, r)
    <2>1. StepParts(k, r) /\ StepParts(k, r)'
        BY AllParts, AllPartsNext DEF Parts
    <2>2. /\ Count(uplink[r], Replies(k))' = Count(uplink[r], Replies(k))
          /\ Count(inbox[r], PassedOn(k))' = Count(inbox[r], PassedOn(k))
          /\ Count(queue[r], PassedOn(k))' = IF r = p THEN 0 ELSE Count(queue[r], PassedOn(k))
        BY <1>3
    <2> QED
        BY <1>2, <1>4, <2>1, <2>2 DEF StepParts, StepsKept
<1> QED
    BY <1>5, <1>6

\* The request of p goes into the handler, or is answered at once.
LEMMA Effect_Handle ==
    ASSUME SignalTypes, SignalTypes', NEW p \in Peer, HandleGetUserICEInfo(p)
    PROVE  \A r \in Peer : TracesKept(r) /\ \A k \in Id : StepsKept(k, r)
<1>1. PICK m \in MsgsOf(UpCode, Id) : m = Head(uplink[p]) /\ LessAt(p, uplink, uplink', m)
    BY ReadIs DEF HandleGetUserICEInfo
<1>2. UNCHANGED <<inbox, waits, share, here>> /\ handler[p] = NotHandling
    BY DEF HandleGetUserICEInfo, peerVars, InLoop
<1>3. m.code = "GetUserICEInfo" /\ m.peer \in Peer
    BY <1>1, MsgKinds DEF HandleGetUserICEInfo
<1>4. m \in Asks /\ \A k \in Id : m \notin Replies(k)
    BY <1>3, MsgKinds DEF Reply
<1>5. \A r \in Peer : \A M :
          /\ Count(uplink[r], M) = Count(uplink[r], M)' + IF r = p /\ m \in M THEN 1 ELSE 0
          /\ Count(inbox[r], M)' = Count(inbox[r], M)
    BY <1>1, <1>2 DEF LessAt
<1>6. \A r \in Peer : /\ Pending(r)' = Pending(r)
                      /\ \A k \in Id : InHand(k, r)' = InHand(k, r)
    BY <1>2 DEF Pending, InHand
<1>7. ASSUME NEW r \in Peer
      PROVE  /\ Handling(r)' + Count(queue[r], Answers)'
                = Handling(r) + Count(queue[r], Answers) + IF r = p THEN 1 ELSE 0
             /\ \A k \in Id : Count(queue[r], PassedOn(k))' = Count(queue[r], PassedOn(k))
    <2>1. CASE UNCHANGED handler /\ queue' = [queue EXCEPT ![p] = @ \o Refusal(m.peer)]
        <3>1. PICK a : a = RefusalMsg(m.peer)
            OBVIOUS
        <3>2. a \in MsgsOf(DownCode, Id) /\ a.code = "ExistsOpositeRequest"
            <4>1. PICK c \in DownCode, q \in Peer : c = "ExistsOpositeRequest" /\ q = m.peer
                BY <1>3 DEF DownCode, Answer
            <4>2. 0 \in Id
                BY ZeroIsId
            <4>3. Msg(c, q, 0) \in MsgsOf(DownCode, Id)
                BY <4>1, <4>2 DEF Msg, MsgsOf
            <4>4. Msg(c, q, 0).code = c
                BY DEF Msg
            <4> QED
                BY <3>1, <4>1, <4>3, <4>4 DEF RefusalMsg
        <3>3. queue' = [queue EXCEPT ![p] = Append(@, a)]
            BY <1>3, <2>1, <3>1, RefusalIs
        <3>4. MoreAt(p, queue, queue', a)
            BY <3>2, <3>3, QueueIs
        <3>5. a \in Answers /\ \A k \in Id : a \notin PassedOn(k)
            BY <3>2, MsgKinds DEF Answer
        <3>6. Count(queue[r], Answers)' = Count(queue[r], Answers) + IF r = p THEN 1 ELSE 0
            BY <3>4, <3>5 DEF MoreAt
        <3>7. ASSUME NEW k \in Id PROVE Count(queue[r], PassedOn(k))' = Count(queue[r], PassedOn(k))
            <4>1. Count(queue[r], PassedOn(k))' = Count(queue[r], PassedOn(k)) + 0
                BY <3>4, <3>5 DEF MoreAt
            <4>2. Count(queue[r], PassedOn(k)) \in Nat
                BY QueueCounts
            <4> QED
                BY <4>1, <4>2
        <3>8. Handling(r)' = Handling(r) /\ Handling(r) \in Nat /\ Count(queue[r], Answers) \in Nat
            BY <2>1, QueueCounts DEF Handling
        <3> QED
            BY <3>6, <3>7, <3>8
    <2>2. CASE UNCHANGED queue /\ handler' = [handler EXCEPT ![p] = [peer |-> m.peer, id |-> waitIds]]
        <3>1. Count(queue[r], Answers) \in Nat /\ \A M : Count(queue[r], M)' = Count(queue[r], M)
            BY <2>2, QueueCounts
        <3>2. [peer |-> m.peer, id |-> waitIds] # NotHandling
            BY <1>3, SignalingAssumption DEF NotHandling
        <3>3. Handling(r)' = Handling(r) + IF r = p THEN 1 ELSE 0
            BY <1>2, <2>2, <3>2 DEF Handling, SignalTypes
        <3>4. Handling(r) \in Nat
            BY DEF Handling
        <3> QED
            BY <3>1, <3>3, <3>4
    <2> QED
        BY <1>1, <2>1, <2>2 DEF HandleGetUserICEInfo
<1>8. ASSUME NEW r \in Peer PROVE TracesKept(r)
    <2>1. TraceParts(r) /\ TraceParts(r)'
        BY AllParts, AllPartsNext DEF Parts
    <2>2. /\ Count(uplink[r], Asks) = Count(uplink[r], Asks)' + IF r = p THEN 1 ELSE 0
          /\ Count(inbox[r], Answers)' = Count(inbox[r], Answers)
        BY <1>4, <1>5
    <2>3. Handling(r)' + Count(queue[r], Answers)'
          = Handling(r) + Count(queue[r], Answers) + IF r = p THEN 1 ELSE 0
        BY <1>7
    <2> QED
        BY <1>6, <2>1, <2>2, <2>3 DEF TraceParts, TracesKept
<1>9. ASSUME NEW r \in Peer, NEW k \in Id PROVE StepsKept(k, r)
    <2>1. StepParts(k, r) /\ StepParts(k, r)'
        BY AllParts, AllPartsNext DEF Parts
    <2>2. /\ Count(uplink[r], Replies(k)) = Count(uplink[r], Replies(k))' + 0
          /\ Count(inbox[r], PassedOn(k))' = Count(inbox[r], PassedOn(k))
        BY <1>4, <1>5
    <2> QED
        BY <1>6, <1>7, <2>1, <2>2 DEF StepParts, StepsKept
<1> QED
    BY <1>8, <1>9

\* The request leaves the handler and is pending, and is on its way to the
\* peer that is asked.
LEMMA Effect_Record ==
    ASSUME SignalTypes, SignalTypes', NEW p \in Peer, NEW q \in Peer, RecordRequest(p),
           q = handler[p].peer, waitIds \notin DOMAIN waits
    PROVE  /\ \A r \in Peer : Traces(r)' = Traces(r)
           /\ \A r \in Peer, k \in Id :
                 Steps(k, r)' = Steps(k, r) + IF r = q /\ k = handler[p].id THEN 1 ELSE 0
<1>1. PICK c, w, m : /\ c = "AuthorizeICEConnection" /\ c \in DownCode
                     /\ w = handler[p].id /\ w \in Id /\ m = Msg(c, p, w)
    BY DEF DownCode, SignalTypes
<1>2. m \in MsgsOf(DownCode, Id) /\ m.code = "AuthorizeICEConnection" /\ m.id = handler[p].id
    BY <1>1 DEF Msg, MsgsOf
<1>3. queue' = [queue EXCEPT ![q] = Append(@, m)]
    BY <1>1 DEF RecordRequest
<1>4. MoreAt(q, queue, queue', m)
    BY <1>2, <1>3, QueueIs
<1>5. m \notin Answers /\ \A k \in Id : m \in PassedOn(k) <=> k = handler[p].id
    BY <1>2, MsgKinds DEF Answer
<1>6. /\ UNCHANGED <<inbox, uplink, share, here>> /\ handler[p] # NotHandling
      /\ handler' = [handler EXCEPT ![p] = NotHandling] /\ waits' = Entered(<<p, q>>)
    BY DEF RecordRequest, peerVars
<1>7. \A r \in Peer : \A M :
          /\ Count(queue[r], M)' = Count(queue[r], M) + IF r = q /\ m \in M THEN 1 ELSE 0
          /\ Count(inbox[r], M)' = Count(inbox[r], M) /\ Count(uplink[r], M)' = Count(uplink[r], M)
    BY <1>4, <1>6 DEF MoreAt
<1>8. \A r \in Peer : Cardinality(Pending(r))' = Cardinality(Pending(r)) + IF r = p THEN 1 ELSE 0
    BY <1>6, PendingEntered
<1>9. ASSUME NEW r \in Peer PROVE Handling(r) = Handling(r)' + IF r = p THEN 1 ELSE 0
    BY <1>6 DEF Handling, SignalTypes
<1>10. \A r \in Peer, k \in Id : InHand(k, r)' = InHand(k, r)
    BY <1>6 DEF InHand
<1>11. ASSUME NEW r \in Peer PROVE Traces(r)' = Traces(r)
    <2>1. TraceParts(r) /\ TraceParts(r)'
        BY AllParts, AllPartsNext DEF Parts
    <2>2. /\ Count(queue[r], Answers)' = Count(queue[r], Answers) + 0
          /\ Count(inbox[r], Answers)' = Count(inbox[r], Answers)
          /\ Count(uplink[r], Asks)' = Count(uplink[r], Asks)
        BY <1>5, <1>7
    <2> QED
        BY <1>8, <1>9, <2>1, <2>2 DEF TraceParts
<1>12. ASSUME NEW r \in Peer, NEW k \in Id
       PROVE  Steps(k, r)' = Steps(k, r) + IF r = q /\ k = handler[p].id THEN 1 ELSE 0
    <2>1. StepParts(k, r) /\ StepParts(k, r)'
        BY AllParts, AllPartsNext DEF Parts
    <2>2. /\ Count(uplink[r], Replies(k))' = Count(uplink[r], Replies(k))
          /\ Count(inbox[r], PassedOn(k))' = Count(inbox[r], PassedOn(k))
          /\ Count(queue[r], PassedOn(k))'
             = Count(queue[r], PassedOn(k)) + IF r = q /\ k = handler[p].id THEN 1 ELSE 0
        BY <1>5, <1>7
    <2> QED
        BY <1>10, <2>1, <2>2 DEF StepParts
<1> QED
    BY <1>11, <1>12

\* An answer ends the pending request and goes to who made it.
LEMMA Effect_Answer ==
    ASSUME SignalTypes, SignalTypes', NEW p \in Peer, HandleAnswer(p),
           NEW m \in MsgsOf(UpCode, Id), m = Head(uplink[p])
    PROVE  /\ m.code \in Reply /\ m \in Range(uplink[p]) /\ m.id \in Id
           /\ \A r \in Peer : Traces(r)' = Traces(r)
           /\ \A r \in Peer, k \in Id :
                 Steps(k, r) = Steps(k, r)' + IF r = p /\ k = m.id THEN 1 ELSE 0
<1>1. LessAt(p, uplink, uplink', m) /\ m \in Range(uplink[p])
    BY ReadIs DEF HandleAnswer
<1>2. UNCHANGED <<inbox, handler, share, here>> /\ waits' = Answered(m.id) /\ m.id \in Id
    BY MsgKinds DEF HandleAnswer, peerVars
<1>3. m.code # "GetUserICEInfo"
    BY DEF HandleAnswer
<1>4. /\ m.code \in Reply /\ Forwarded(m) \in MsgsOf(DownCode, Id) /\ Forwarded(m).code \in Answer
    BY <1>3, ForwardedMade
<1>5. m \notin Asks /\ \A k \in Id : m \in Replies(k) <=> k = m.id
    BY <1>3, <1>4, MsgKinds
<1>6. Forwarded(m) \in Answers /\ \A k \in Id : Forwarded(m) \notin PassedOn(k)
    BY <1>4, MsgKinds DEF Answer
<1>7. \A r \in Peer : \A M :
          /\ Count(uplink[r], M) = Count(uplink[r], M)' + IF r = p /\ m \in M THEN 1 ELSE 0
          /\ Count(inbox[r], M)' = Count(inbox[r], M)
    BY <1>1, <1>2 DEF LessAt
<1>8. ASSUME NEW r \in Peer
      PROVE  /\ Count(queue[r], Answers)'
                = Count(queue[r], Answers) + IF Requester(m.id) = r THEN 1 ELSE 0
             /\ \A k \in Id : Count(queue[r], PassedOn(k))' = Count(queue[r], PassedOn(k))
    <2>1. CASE Requester(m.id) = Nobody
        <3>1. queue' = queue /\ Nobody \notin Peer
            BY <2>1, SignalingAssumption DEF HandleAnswer
        <3>2. Count(queue[r], Answers) \in Nat /\ Requester(m.id) # r
            BY <2>1, <3>1, QueueCounts
        <3> QED
            BY <3>1, <3>2
    <2>2. CASE Requester(m.id) # Nobody
        <3>1. PICK t, f : t = Requester(m.id) /\ t \in Peer /\ f = Forwarded(m)
            BY <2>2 DEF Requester, SignalTypes
        <3>2. queue' = [queue EXCEPT ![t] = Append(@, f)]
            BY <2>2, <3>1 DEF HandleAnswer
        <3>3. f \in MsgsOf(DownCode, Id)
            BY <1>4, <3>1
        <3>4. MoreAt(t, queue, queue', f)
            BY <3>1, <3>2, <3>3, QueueIs
        <3>5. Count(queue[r], Answers)'
              = Count(queue[r], Answers) + IF Requester(m.id) = r THEN 1 ELSE 0
            BY <1>6, <3>1, <3>4 DEF MoreAt
        <3>6. ASSUME NEW k \in Id PROVE Count(queue[r], PassedOn(k))' = Count(queue[r], PassedOn(k))
            <4>1. Count(queue[r], PassedOn(k))' = Count(queue[r], PassedOn(k)) + 0
                BY <1>6, <3>1, <3>4 DEF MoreAt
            <4>2. Count(queue[r], PassedOn(k)) \in Nat
                BY QueueCounts
            <4> QED
                BY <4>1, <4>2
        <3> QED
            BY <3>5, <3>6
    <2> QED
        BY <2>1, <2>2
<1>9. \A r \in Peer :
          /\ Cardinality(Pending(r))
             = Cardinality(Pending(r))' + IF Requester(m.id) = r THEN 1 ELSE 0
          /\ Handling(r)' = Handling(r) /\ \A k \in Id : InHand(k, r)' = InHand(k, r)
    BY <1>2, PendingAnswered DEF Handling, InHand
<1>10. ASSUME NEW r \in Peer PROVE Traces(r)' = Traces(r)
    <2>1. TraceParts(r) /\ TraceParts(r)'
        BY AllParts, AllPartsNext DEF Parts
    <2>2. /\ Count(uplink[r], Asks) = Count(uplink[r], Asks)' + 0
          /\ Count(inbox[r], Answers)' = Count(inbox[r], Answers)
        BY <1>5, <1>7
    <2>3. Count(queue[r], Answers)'
          = Count(queue[r], Answers) + IF Requester(m.id) = r THEN 1 ELSE 0
        BY <1>8
    <2> QED
        BY <1>9, <2>1, <2>2, <2>3 DEF TraceParts
<1>11. ASSUME NEW r \in Peer, NEW k \in Id
       PROVE  Steps(k, r) = Steps(k, r)' + IF r = p /\ k = m.id THEN 1 ELSE 0
    <2>1. StepParts(k, r) /\ StepParts(k, r)'
        BY AllParts, AllPartsNext DEF Parts
    <2>2. /\ Count(uplink[r], Replies(k))
             = Count(uplink[r], Replies(k))' + IF r = p /\ k = m.id THEN 1 ELSE 0
          /\ Count(inbox[r], PassedOn(k))' = Count(inbox[r], PassedOn(k))
        BY <1>5, <1>7
    <2>3. Count(queue[r], PassedOn(k))' = Count(queue[r], PassedOn(k))
        BY <1>8
    <2> QED
        BY <1>9, <2>1, <2>2, <2>3 DEF StepParts
<1> QED
    BY <1>1, <1>2, <1>4, <1>10, <1>11

-----------------------------------------------------------------------------
(* The steps that neither make, answer, record nor end a request.          *)

Moving == \/ \E p, q \in Peer : RequestConnection(p, q)
          \/ \E p \in Peer : TakeAnswer(p) \/ RecordRequest(p) \/ HandleAnswer(p)

\* They keep all there is of the requests of the peers that stay, make nobody
\* wait, and leave the identifiers alone.
LEMMA OtherEffects ==
    ASSUME SignalTypes, SignalTypes', [Next]_vars, ~Moving
    PROVE  /\ \A r \in Peer : TracesKept(r) /\ \A k \in Id : StepsKept(k, r)
           /\ UNCHANGED <<waits, waitIds, asked>> /\ here' \subseteq here
           /\ \A r \in Peer : \/ add'[r] = add[r]
                              \/ add'[r] = Idle /\ (add[r].pc = "connect" \/ r \notin here')
           /\ \A r \in here \ here' : add'[r] = Idle
<1> DEFINE Kept == /\ \A r \in Peer : TracesKept(r) /\ \A k \in Id : StepsKept(k, r)
                   /\ UNCHANGED <<waits, waitIds, asked>> /\ here' \subseteq here
                   /\ \A r \in Peer : \/ add'[r] = add[r]
                                      \/ add'[r] = Idle /\ (add[r].pc = "connect" \/ r \notin here')
                   /\ \A r \in here \ here' : add'[r] = Idle
<1> USE DEF peerVars, netVars, serverVars, counts
<1>1. ASSUME NEW p \in Peer, TakeRequest(p) PROVE Kept
    BY <1>1, Effect_TakeRequest DEF TakeRequest
<1>2. ASSUME NEW p \in Peer, AnswerRequest(p) PROVE Kept
    BY <1>2, Effect_AnswerRequest DEF AnswerRequest
<1>3. ASSUME NEW p \in Peer, NEW q \in Peer, Connect(p, q) PROVE Kept
    <2>1. /\ add' = [add EXCEPT ![p] = Idle] /\ share' = [share EXCEPT ![q] = Receiving]
          /\ add[p].pc = "connect" /\ share[q].pc = "connect"
          /\ Quiet /\ UNCHANGED <<here, waitIds, asked>>
        BY <1>3 DEF Connect, Meeting, Quiet
    <2>2. \A r \in Peer, k \in Id : InHand(k, r)' = InHand(k, r)
        BY <2>1 DEF InHand, Receiving, SignalTypes
    <2>3. \A r \in Peer : TracesKept(r) /\ \A k \in Id : StepsKept(k, r)
        BY <2>1, <2>2, Effect_Quiet
    <2> QED
        BY <2>1, <2>3 DEF SignalTypes, Quiet
<1>4. ASSUME NEW p \in Peer, AttemptFails(p) PROVE Kept
    <2>1. /\ \/ add' = [add EXCEPT ![p] = Idle] /\ add[p].pc = "connect" /\ UNCHANGED share
             \/ share' = [share EXCEPT ![p] = Receiving] /\ share[p].pc = "connect" /\ UNCHANGED add
          /\ Quiet /\ UNCHANGED <<here, waitIds, asked>>
        BY <1>4 DEF AttemptFails, Quiet
    <2>2. \A r \in Peer, k \in Id : InHand(k, r)' = InHand(k, r)
        <3>1. CASE UNCHANGED share
            BY <3>1 DEF InHand
        <3>2. CASE share' = [share EXCEPT ![p] = Receiving] /\ share[p].pc = "connect"
            BY <3>2 DEF InHand, Receiving, SignalTypes
        <3> QED
            BY <2>1, <3>1, <3>2
    <2>3. \A r \in Peer : TracesKept(r) /\ \A k \in Id : StepsKept(k, r)
        BY <2>1, <2>2, Effect_Quiet
    <2>4. \/ add' = add
          \/ add' = [add EXCEPT ![p] = Idle] /\ add[p].pc = "connect"
        BY <2>1
    <2>5. \A r \in Peer : add'[r] = add[r] \/ (add'[r] = Idle /\ add[r].pc = "connect")
        <3>1. CASE add' = add
            BY <3>1
        <3>2. CASE add' = [add EXCEPT ![p] = Idle] /\ add[p].pc = "connect"
            BY <3>2 DEF SignalTypes
        <3> QED
            BY <2>4, <3>1, <3>2
    <2> QED
        BY <2>1, <2>3, <2>5 DEF Quiet
<1>5. CASE \/ \E p, q \in Peer : ForgetConnection(p, q)
           \/ \E k \in Id : Age(k)
           \/ UNCHANGED vars
    <2>1. Quiet /\ UNCHANGED <<add, share, here, waitIds, asked>>
        BY <1>5 DEF ForgetConnection, Age, Quiet, vars
    <2>2. \A r \in Peer, k \in Id : InHand(k, r)' = InHand(k, r)
        BY <2>1 DEF InHand
    <2>3. \A r \in Peer : TracesKept(r) /\ \A k \in Id : StepsKept(k, r)
        BY <2>1, <2>2, Effect_Quiet
    <2> QED
        BY <2>1, <2>3 DEF Quiet
<1>6. ASSUME NEW p \in Peer, Leave(p) PROVE Kept
    <2>1. /\ add' = [add EXCEPT ![p] = Idle] /\ here' = here \ {p}
          /\ UNCHANGED <<waits, waitIds, asked>>
        BY <1>6 DEF Leave
    <2> QED
        BY <1>6, <2>1, Effect_Leave DEF SignalTypes
<1>7. ASSUME NEW p \in Peer, SendQueued(p) PROVE Kept
    BY <1>7, Effect_SendQueued DEF SendQueued
<1>8. ASSUME NEW p \in Peer, HandleGetUserICEInfo(p) PROVE Kept
    BY <1>8, Effect_Handle DEF HandleGetUserICEInfo
<1>9. ASSUME NEW p \in Peer, CleanUp(p) PROVE Kept
    BY <1>9, Effect_CleanUp DEF CleanUp
<1> QED
    BY <1>1, <1>2, <1>3, <1>4, <1>5, <1>6, <1>7, <1>8, <1>9
       DEF Moving, Next, PeerStep, ServerStep, Attempt

\* Identifiers and sums are numbers, before ...
LEMMA IdsAreNumbers ==
    SignalTypes =>
        /\ waitIds \in Nat /\ DOMAIN waits \subseteq Nat /\ Id \subseteq Nat
        /\ \A r \in Peer : Traces(r) \in Nat /\ \A k \in Id : Steps(k, r) \in Nat
<1> SUFFICES ASSUME SignalTypes
             PROVE  /\ waitIds \in Nat /\ DOMAIN waits \subseteq Nat /\ Id \subseteq Nat
                    /\ \A r \in Peer : Traces(r) \in Nat /\ \A k \in Id : Steps(k, r) \in Nat
    OBVIOUS
<1>1. Parts
    BY AllParts
<1>2. \A r \in Peer : Traces(r) \in Nat
    BY <1>1 DEF Parts, TraceParts
<1>3. \A r \in Peer, k \in Id : Steps(k, r) \in Nat
    BY <1>1 DEF Parts, StepParts
<1>4. Id \subseteq Nat
    BY SignalingAssumption DEF Id
<1>5. waitIds \in Id /\ DOMAIN waits \subseteq Id
    BY DEF SignalTypes
<1> QED
    BY <1>2, <1>3, <1>4, <1>5

\* ... and after a step.
LEMMA IdsAreNumbersNext ==
    SignalTypes' => (/\ waitIds \in Nat /\ DOMAIN waits \subseteq Nat /\ Id \subseteq Nat
                     /\ \A r \in Peer : Traces(r) \in Nat /\ \A k \in Id : Steps(k, r) \in Nat)'
BY IdsAreNumbers, PTL

\* Only one thread is in the handler.
LEMMA Alone_Step == OneHandler /\ SignalTypes /\ AloneInv /\ [Next]_vars => AloneInv'
<1> SUFFICES ASSUME OneHandler, SignalTypes, AloneInv, [Next]_vars PROVE AloneInv'
    OBVIOUS
<1> USE DEF peerVars, netVars, serverVars, counts
<1>1. ASSUME NEW p \in Peer, HandleGetUserICEInfo(p) PROVE AloneInv'
    <2>1. InHandler \in SUBSET Peer /\ IsFiniteSet(Peer)
        BY SignalingAssumption DEF InHandler
    <2>2. IsFiniteSet(InHandler) /\ Cardinality(InHandler) \in Nat
        BY <2>1, FS_Subset, FS_CardinalityType
    <2>3. Cardinality(InHandler) < 1
        BY <1>1 DEF HandleGetUserICEInfo, OneHandler
    <2>4. InHandler = {}
        BY <2>2, <2>3, FS_EmptySet
    <2>5. \A r \in Peer : handler[r] = NotHandling
        BY <2>4 DEF InHandler
    <2>6. /\ UNCHANGED waitIds
          /\ \/ UNCHANGED handler
             \/ handler' = [handler EXCEPT ![p] = [peer |-> Head(uplink[p]).peer, id |-> waitIds]]
        BY <1>1 DEF HandleGetUserICEInfo
    <2> QED
        BY <2>5, <2>6 DEF AloneInv, SignalTypes
<1>2. ASSUME NEW p \in Peer, RecordRequest(p) PROVE AloneInv'
    <2>1. handler[p] # NotHandling /\ handler' = [handler EXCEPT ![p] = NotHandling]
        BY <1>2 DEF RecordRequest
    <2>2. \A r \in Peer : handler'[r] = NotHandling
        BY <2>1 DEF AloneInv, SignalTypes
    <2> QED
        BY <2>2 DEF AloneInv
<1>3. CASE ~(\E p \in Peer : HandleGetUserICEInfo(p) \/ RecordRequest(p))
    <2>1. UNCHANGED <<handler, waitIds>>
        BY <1>3 DEF Next, PeerStep, ServerStep, Attempt, TakeAnswer, TakeRequest, AnswerRequest,
                    Connect, AttemptFails, ForgetConnection, Leave, RequestConnection, SendQueued,
                    HandleAnswer, CleanUp, Age, vars
    <2> QED
        BY <2>1 DEF AloneInv
<1> QED
    BY <1>1, <1>2, <1>3

\* One trace per request.
LEMMA Trace_Step ==
    ASSUME SignalTypes, SignalTypes', TraceInv, [Next]_vars,
           \A p \in Peer : RecordRequest(p) => waitIds \notin DOMAIN waits
    PROVE  TraceInv'
<1>1. ASSUME NEW p \in Peer, NEW q \in Peer, RequestConnection(p, q) PROVE TraceInv'
    <2>1. \A r \in Peer : Traces(r)' = Traces(r) + IF r = p THEN 1 ELSE 0
        BY <1>1, Effect_Request
    <2>2. p \in here /\ add[p].pc = "idle" /\ here' = here
        BY <1>1 DEF RequestConnection, MutexFree
    <2>3. /\ add'[p].pc = "wait" /\ \A r \in Peer : r # p => add'[r] = add[r]
        BY <1>1 DEF RequestConnection, SignalTypes
    <2>4. \A r \in Peer : Traces(r) \in Nat
        BY IdsAreNumbers
    <2> QED
        BY <2>1, <2>2, <2>3, <2>4 DEF TraceInv
<1>2. ASSUME NEW p \in Peer, TakeAnswer(p) PROVE TraceInv'
    <2>1. \A r \in Peer : Traces(r) = Traces(r)' + IF r = p THEN 1 ELSE 0
        BY <1>2, Effect_TakeAnswer
    <2>2. add[p].pc = "wait" /\ p \in here /\ here' = here
        BY <1>2 DEF TakeAnswer, TraceInv
    <2>3. add[p] \in AddType
        BY DEF SignalTypes
    <2>4. add'[p].pc # "wait" /\ \A r \in Peer : r # p => add'[r] = add[r]
        BY <1>2, <2>3 DEF TakeAnswer, SignalTypes, AddType, Idle
    <2>5. \A r \in Peer : Traces(r)' \in Nat
        BY IdsAreNumbersNext
    <2> QED
        BY <2>1, <2>2, <2>4, <2>5 DEF TraceInv
<1>3. ASSUME NEW p \in Peer, RecordRequest(p) PROVE TraceInv'
    <2>1. handler[p].peer \in Peer
        BY <1>3 DEF RecordRequest, SignalTypes
    <2>2. \A r \in Peer : Traces(r)' = Traces(r)
        BY <1>3, <2>1, Effect_Record
    <2>3. UNCHANGED <<here, add>>
        BY <1>3 DEF RecordRequest, peerVars
    <2> QED
        BY <2>2, <2>3 DEF TraceInv
<1>4. ASSUME NEW p \in Peer, HandleAnswer(p) PROVE TraceInv'
    <2>1. PICK m \in MsgsOf(UpCode, Id) : m = Head(uplink[p])
        BY <1>4, ReadIs DEF HandleAnswer
    <2>2. \A r \in Peer : Traces(r)' = Traces(r)
        BY <1>4, <2>1, Effect_Answer
    <2>3. UNCHANGED <<here, add>>
        BY <1>4 DEF HandleAnswer, peerVars
    <2> QED
        BY <2>2, <2>3 DEF TraceInv
<1>5. CASE ~Moving
    <2>1. /\ \A r \in Peer : TracesKept(r) /\ here' \subseteq here
          /\ \A r \in Peer : \/ add'[r] = add[r]
                             \/ add'[r] = Idle /\ (add[r].pc = "connect" \/ r \notin here')
          /\ \A r \in here \ here' : add'[r] = Idle
        BY <1>5, OtherEffects
    <2>2. Idle.pc = "idle"
        BY DEF Idle
    <2>3. \A r \in Peer : Traces(r) \in Nat /\ Traces(r)' \in Nat
        BY IdsAreNumbers, IdsAreNumbersNext
    <2> QED
        BY <2>1, <2>2, <2>3 DEF TraceInv, TracesKept
<1> QED
    BY <1>1, <1>2, <1>3, <1>4, <1>5 DEF Moving

-----------------------------------------------------------------------------
(* Identifiers.                                                            *)

\* The peers that ask are finitely many, before ...
LEMMA AskingFinite == SignalTypes => IsFiniteSet(Asking) /\ Cardinality(Asking) \in Nat
<1>1. Asking \in SUBSET Peer /\ IsFiniteSet(Peer)
    BY SignalingAssumption DEF Asking
<1> QED
    BY <1>1, FS_Subset, FS_CardinalityType

\* ... and after a step.
LEMMA AskingFiniteNext == SignalTypes' => (IsFiniteSet(Asking) /\ Cardinality(Asking) \in Nat)'
BY AskingFinite, PTL

\* The next identifier is free when a request is recorded ...
LEMMA FreshId ==
    ASSUME SignalTypes, EnoughIds, NEW n \in 0..IdSpace, Recorded(n),
           NEW p \in Peer, RecordRequest(p)
    PROVE  n < IdSpace /\ waitIds = n /\ waitIds \notin DOMAIN waits
<1>1. p \in Asking
    BY DEF RecordRequest, Asking
<1>2. IsFiniteSet(Asking) /\ Cardinality(Asking) \in Nat /\ Cardinality(Asking) # 0
    BY <1>1, AskingFinite, FS_EmptySet
<1>3. Cardinality(Asking) + n <= asked /\ asked \in Nat /\ asked <= MaxRequests /\ MaxRequests <= IdSpace
    BY DEF Recorded, SignalTypes, EnoughIds
<1>4. n \in Nat /\ IdSpace \in Nat /\ MaxRequests \in Nat
    BY SignalingAssumption DEF EnoughIds
<1>5. n < IdSpace
    BY <1>2, <1>3, <1>4
<1>6. waitIds = n
    BY <1>4, <1>5 DEF Recorded
<1>7. waitIds \notin DOMAIN waits
    BY <1>4, <1>6 DEF Recorded
<1> QED
    BY <1>5, <1>6, <1>7

\* ... and no message has it; a thread alone in the handler read it.
LEMMA UnusedId ==
    ASSUME SignalTypes, EnoughIds, AloneInv, IdsInv, NEW p \in Peer, RecordRequest(p)
    PROVE  /\ handler[p].id = waitIds /\ waitIds \notin DOMAIN waits
           /\ \A r \in Peer : Steps(waitIds, r) = 0
<1>1. PICK n \in 0..IdSpace : Recorded(n)
    BY DEF IdsInv
<1>2. waitIds = n /\ waitIds \notin DOMAIN waits
    BY <1>1, FreshId
<1>3. handler[p].id = waitIds
    BY DEF RecordRequest, AloneInv
<1>4. ASSUME NEW r \in Peer PROVE Steps(waitIds, r) = 0
    <2>1. waitIds \in Id /\ Steps(waitIds, r) \in Nat
        BY IdsAreNumbers DEF SignalTypes
    <2>2. ~(Steps(waitIds, r) > 0)
        BY <1>1, <1>2, <2>1 DEF Recorded
    <2> QED
        BY <2>1, <2>2
<1> QED
    BY <1>2, <1>3, <1>4

\* Only a new request makes a peer ask.
LEMMA AskingKept ==
    ASSUME SignalTypes, SignalTypes', [Next]_vars, UNCHANGED asked
    PROVE  Asking' \subseteq Asking
<1> USE DEF peerVars, netVars, serverVars, counts
<1>1. \A r \in Peer : Count(uplink[r], Asks) \in Nat /\ Count(uplink[r], Asks)' \in Nat
    BY AllParts, AllPartsNext DEF Parts, TraceParts
<1>2. ASSUME NEW p \in Peer, NEW q \in Peer, RequestConnection(p, q) PROVE FALSE
    BY <1>2 DEF RequestConnection, SignalTypes
<1>3. ASSUME NEW p \in Peer, AnswerRequest(p) PROVE Asking' \subseteq Asking
    <2>1. PICK m \in MsgsOf(UpCode, Id) : MoreAt(p, uplink, uplink', m) /\ m.code \in Reply
        BY <1>3, AnswerIs
    <2>2. m \notin Asks
        BY <2>1, MsgKinds DEF Reply
    <2>3. \A r \in Peer : Count(uplink[r], Asks)' = Count(uplink[r], Asks) + 0
        BY <2>1, <2>2 DEF MoreAt
    <2>4. UNCHANGED handler
        BY <1>3 DEF AnswerRequest
    <2> QED
        BY <1>1, <2>3, <2>4 DEF Asking
<1>4. ASSUME NEW p \in Peer, HandleGetUserICEInfo(p) PROVE Asking' \subseteq Asking
    <2>1. PICK m \in MsgsOf(UpCode, Id) : m = Head(uplink[p]) /\ LessAt(p, uplink, uplink', m)
        BY <1>4, ReadIs DEF HandleGetUserICEInfo
    <2>2. m \in Asks
        BY <1>4, <2>1, MsgKinds DEF HandleGetUserICEInfo
    <2>3. \A r \in Peer :
              Count(uplink[r], Asks) = Count(uplink[r], Asks)' + IF r = p THEN 1 ELSE 0
        BY <2>1, <2>2 DEF LessAt
    <2>4. \A r \in Peer : r # p => handler'[r] = handler[r]
        BY <1>4 DEF HandleGetUserICEInfo, SignalTypes
    <2>5. Count(uplink[p], Asks) > 0 /\ \A r \in Peer : r # p => Count(uplink[r], Asks)' = Count(uplink[r], Asks)
        BY <1>1, <2>3
    <2> QED
        BY <2>4, <2>5 DEF Asking
<1>5. ASSUME NEW p \in Peer, HandleAnswer(p) PROVE Asking' \subseteq Asking
    <2>1. PICK m \in MsgsOf(UpCode, Id) : m = Head(uplink[p]) /\ LessAt(p, uplink, uplink', m)
        BY <1>5, ReadIs DEF HandleAnswer
    <2>2. m \notin Asks
        BY <1>5, <2>1, MsgKinds DEF HandleAnswer
    <2>3. \A r \in Peer : Count(uplink[r], Asks) = Count(uplink[r], Asks)' + 0
        BY <2>1, <2>2 DEF LessAt
    <2>4. UNCHANGED handler
        BY <1>5 DEF HandleAnswer
    <2> QED
        BY <1>1, <2>3, <2>4 DEF Asking
<1>6. ASSUME NEW p \in Peer, RecordRequest(p) PROVE Asking' \subseteq Asking
    <2>1. UNCHANGED uplink /\ handler' = [handler EXCEPT ![p] = NotHandling]
        BY <1>6 DEF RecordRequest
    <2> QED
        BY <2>1 DEF Asking, SignalTypes
<1>7. CASE ~(\/ \E p, q \in Peer : RequestConnection(p, q)
             \/ \E p \in Peer : \/ AnswerRequest(p) \/ HandleGetUserICEInfo(p)
                                \/ HandleAnswer(p) \/ RecordRequest(p))
    <2>1. UNCHANGED <<handler, uplink>>
        BY <1>7 DEF Next, PeerStep, ServerStep, Attempt, TakeAnswer, TakeRequest,
                    Connect, AttemptFails, ForgetConnection, Leave, SendQueued, CleanUp, Age, vars
    <2> QED
        BY <2>1 DEF Asking
<1> QED
    BY <1>2, <1>3, <1>4, <1>5, <1>6, <1>7

\* A thread that enters the handler reads the next identifier.
LEMMA HandlerReads ==
    ASSUME SignalTypes, [Next]_vars, NEW p \in Peer, handler'[p] # NotHandling
    PROVE  handler'[p] = handler[p] \/ handler'[p].id = waitIds
<1> USE DEF peerVars, netVars, serverVars, counts
<1>1. ASSUME NEW q \in Peer, HandleGetUserICEInfo(q)
      PROVE  handler'[p] = handler[p] \/ handler'[p].id = waitIds
    BY <1>1 DEF HandleGetUserICEInfo, SignalTypes
<1>2. ASSUME NEW q \in Peer, RecordRequest(q) PROVE handler'[p] = handler[p]
    BY <1>2 DEF RecordRequest, SignalTypes
<1>3. CASE ~(\E q \in Peer : HandleGetUserICEInfo(q) \/ RecordRequest(q))
    BY <1>3 DEF Next, PeerStep, ServerStep, Attempt, TakeAnswer, TakeRequest, AnswerRequest,
                Connect, AttemptFails, ForgetConnection, Leave, RequestConnection, SendQueued,
                HandleAnswer, CleanUp, Age, vars
<1> QED
    BY <1>1, <1>2, <1>3

\* Identifiers below n have been given, and not more than there were requests.
LEMMA Ids_Step ==
    ASSUME SignalTypes, SignalTypes', EnoughIds, TraceInv, IdsInv, [Next]_vars
    PROVE  IdsInv'
<1>1. PICK n \in 0..IdSpace : Recorded(n)
    BY DEF IdsInv
<1>2. n \in Nat /\ IdSpace \in Nat /\ asked \in Nat /\ Id \subseteq Nat
    BY SignalingAssumption DEF SignalTypes, Id
<1>3. /\ IsFiniteSet(Asking) /\ Cardinality(Asking) \in Nat
      /\ IsFiniteSet(Asking') /\ Cardinality(Asking') \in Nat
    BY AskingFinite, AskingFiniteNext
<1>4. \A r \in Peer, k \in Id : Steps(k, r) \in Nat /\ Steps(k, r)' \in Nat
    BY IdsAreNumbers, IdsAreNumbersNext
<1>5. Cardinality(Asking) + n <= asked
    BY <1>1 DEF Recorded
<1>6. ASSUME NEW p \in Peer, NEW q \in Peer, RequestConnection(p, q) PROVE Recorded(n)'
    <2>1. /\ UNCHANGED <<waits, waitIds, handler>> /\ asked' = asked + 1
          /\ \A r \in Peer, k \in Id : StepsKept(k, r)
        BY <1>6, Effect_Request DEF RequestConnection, serverVars
    <2>2. Cardinality(Asking') <= Cardinality(Asking) + 1
        <3>2. /\ IsFiniteSet(Asking \cup {p})
              /\ Cardinality(Asking \cup {p}) \in {Cardinality(Asking), Cardinality(Asking) + 1}
            BY <1>3, FS_AddElement
        <3>3. Asking' \subseteq Asking \cup {p}
            <4>1. MoreAt(p, uplink, uplink', AskMsg(q)) /\ UNCHANGED handler
                BY <1>6, RequestIs DEF RequestConnection, serverVars
            <4>2. \A r \in Peer : r # p => Count(uplink[r], Asks)' = Count(uplink[r], Asks) + 0
                BY <4>1 DEF MoreAt
            <4>3. \A r \in Peer : Count(uplink[r], Asks) \in Nat
                BY AllParts DEF Parts, TraceParts
            <4> QED
                BY <4>1, <4>2, <4>3 DEF Asking
        <3>4. Cardinality(Asking') <= Cardinality(Asking \cup {p})
            BY <3>2, <3>3, FS_Subset
        <3> QED
            BY <1>3, <3>2, <3>4
    <2>3. Cardinality(Asking') + n <= asked'
        BY <1>2, <1>3, <1>5, <2>1, <2>2
    <2>4. \A r \in Peer, k \in Id : Steps(k, r)' > 0 => k < n
        BY <1>1, <1>4, <2>1 DEF Recorded, StepsKept
    <2> QED
        BY <1>1, <2>1, <2>3, <2>4 DEF Recorded
<1>7. ASSUME NEW p \in Peer, RecordRequest(p) PROVE IdsInv'
    <2>1. n < IdSpace /\ waitIds = n /\ waitIds \notin DOMAIN waits /\ handler[p].peer \in Peer
        BY <1>1, <1>7, FreshId DEF RecordRequest, SignalTypes
    <2>2. /\ waitIds' = NextId /\ waits' = Entered(<<p, handler[p].peer>>) /\ UNCHANGED <<asked, uplink>>
          /\ handler[p] # NotHandling /\ handler' = [handler EXCEPT ![p] = NotHandling]
        BY <1>7 DEF RecordRequest, counts
    <2>3. Asking' \subseteq Asking \ {p}
        <3>1. Traces(p) <= 1 /\ TraceParts(p) /\ Handling(p) = 1
            BY <2>2, AllParts DEF TraceInv, Parts, Handling
        <3>2. Count(uplink[p], Asks) = 0
            BY <3>1 DEF TraceParts
        <3>3. handler'[p] = NotHandling /\ \A r \in Peer : r # p => handler'[r] = handler[r]
            BY <2>2 DEF SignalTypes
        <3> QED
            BY <2>2, <3>2, <3>3 DEF Asking
    <2>4. p \in Asking
        BY <2>2 DEF Asking
    <2>5. Cardinality(Asking') <= Cardinality(Asking) - 1
        <3>1. IsFiniteSet(Asking \ {p}) /\ Cardinality(Asking \ {p}) = Cardinality(Asking) - 1
            BY <1>3, <2>4, FS_RemoveElement
        <3> QED
            BY <2>3, <3>1, FS_Subset
    <2>6. Cardinality(Asking') + (n + 1) <= asked'
        BY <1>2, <1>3, <1>5, <2>2, <2>5
    <2>7. waitIds' = n + 1 \/ (n + 1 = IdSpace /\ waitIds' = 0)
        BY <1>2, <2>1, <2>2, NextIsId DEF SignalTypes
    <2>8. \A k \in DOMAIN waits' : k < n + 1
        <3>1. DOMAIN waits' = DOMAIN waits \cup {n} /\ DOMAIN waits \subseteq Nat
            BY <1>2, <2>1, <2>2 DEF Entered, SignalTypes
        <3>2. \A k \in DOMAIN waits : k < n
            BY <1>1 DEF Recorded
        <3> QED
            BY <1>2, <3>1, <3>2
    <2>9. ASSUME NEW r \in Peer, NEW k \in Id, Steps(k, r)' > 0 PROVE k < n + 1
        <3>1. Steps(k, r)' = Steps(k, r) + IF r = handler[p].peer /\ k = handler[p].id THEN 1 ELSE 0
            BY <1>7, <2>1, Effect_Record
        <3>2. k = handler[p].id \/ Steps(k, r) > 0
            BY <1>4, <2>9, <3>1
        <3>3. /\ Steps(k, r) > 0 => k < n
              /\ handler[p].id <= n
            BY <1>1, <2>2 DEF Recorded
        <3> QED
            BY <1>2, <3>2, <3>3
    <2>10. ASSUME NEW r \in Peer, handler'[r] # NotHandling PROVE handler'[r].id <= n + 1
        <3>1. handler'[r] = handler[r] /\ handler[r].id \in Nat
            BY <1>2, <2>2, <2>10 DEF SignalTypes
        <3>2. handler[r].id <= n
            BY <1>1, <2>10, <3>1 DEF Recorded
        <3> QED
            BY <1>2, <3>1, <3>2
    <2>11. n + 1 \in 0..IdSpace
        BY <1>2, <2>1
    <2>12. Recorded(n + 1)'
        BY <2>6, <2>7, <2>8, <2>9, <2>10 DEF Recorded
    <2> QED
        BY <2>11, <2>12 DEF IdsInv
<1>8. ASSUME NEW p \in Peer, HandleAnswer(p) PROVE Recorded(n)'
    <2>1. PICK m \in MsgsOf(UpCode, Id) : m = Head(uplink[p])
        BY <1>8, ReadIs DEF HandleAnswer
    <2>2. \A r \in Peer, k \in Id : Steps(k, r) = Steps(k, r)' + IF r = p /\ k = m.id THEN 1 ELSE 0
        BY <1>8, <2>1, Effect_Answer
    <2>3. \A r \in Peer, k \in Id : Steps(k, r)' <= Steps(k, r)
        BY <1>4, <2>2
    <2>4. /\ UNCHANGED <<waitIds, asked, handler>> /\ DOMAIN waits' \subseteq DOMAIN waits
        BY <1>8, <2>1 DEF HandleAnswer, counts, Answered, Restrict
    <2>5. Cardinality(Asking') + n <= asked'
        <3>1. Asking' \subseteq Asking
            BY <2>4, AskingKept
        <3>2. Cardinality(Asking') <= Cardinality(Asking)
            BY <1>3, <3>1, FS_Subset
        <3> QED
            BY <1>2, <1>3, <1>5, <2>4, <3>2
    <2>6. \A r \in Peer, k \in Id : Steps(k, r)' > 0 => k < n
        BY <1>1, <1>4, <2>3 DEF Recorded
    <2> QED
        BY <1>1, <2>4, <2>5, <2>6 DEF Recorded
<1>9. CASE (\E p \in Peer : TakeAnswer(p)) \/ ~Moving
    <2>1. UNCHANGED <<waits, waitIds, asked>> /\ \A r \in Peer, k \in Id : StepsKept(k, r)
        BY <1>9, OtherEffects, Effect_TakeAnswer DEF TakeAnswer, serverVars, counts
    <2>2. Asking' \subseteq Asking
        BY <2>1, AskingKept
    <2>3. Cardinality(Asking') <= Cardinality(Asking)
        BY <1>3, <2>2, FS_Subset
    <2>4. Cardinality(Asking') + n <= asked'
        BY <1>2, <1>3, <1>5, <2>1, <2>3
    <2>5. \A r \in Peer, k \in Id : Steps(k, r)' > 0 => k < n
        BY <1>1, <1>4, <2>1 DEF Recorded, StepsKept
    <2>6. ASSUME NEW p \in Peer, handler'[p] # NotHandling PROVE handler'[p].id <= n
        <3>1. waitIds <= n
            BY <1>1, <1>2 DEF Recorded
        <3>2. handler[p] # NotHandling => handler[p].id <= n
            BY <1>1 DEF Recorded
        <3>3. handler'[p] = handler[p] \/ handler'[p].id = waitIds
            BY <2>6, HandlerReads
        <3> QED
            BY <2>6, <3>1, <3>2, <3>3
    <2> QED
        BY <1>1, <2>1, <2>4, <2>5, <2>6 DEF Recorded, IdsInv
<1> QED
    BY <1>6, <1>7, <1>8, <1>9 DEF Moving, IdsInv
-----------------------------------------------------------------------------
(* Requests on their way, and in whose hands they are.                     *)

\* Steps that leave the requests with the server alone keep what there is of
\* them, for every peer that stays.
LEMMA Way_Kept ==
    ASSUME SignalTypes, SignalTypes', RequestOnItsWay, AskedInv, waits' = waits, here' \subseteq here,
           \A r \in Peer, k \in Id : StepsKept(k, r)
    PROVE  RequestOnItsWay' /\ AskedInv'
<1>1. DOMAIN waits \subseteq Id /\ \A k \in DOMAIN waits : waits[k] \in Peer \X Peer
    BY DEF SignalTypes
<1>2. \A r \in Peer, k \in Id : Steps(k, r) \in Nat /\ Steps(k, r)' \in Nat
    BY IdsAreNumbers, IdsAreNumbersNext
<1>3. RequestOnItsWay'
    <2>1. SUFFICES ASSUME NEW k \in DOMAIN waits, waits[k][2] \in here'
                   PROVE  Steps(k, waits[k][2])' = 1
        BY DEF RequestOnItsWay
    <2>2. k \in Id /\ waits[k][2] \in Peer /\ waits[k][2] \in here
        BY <1>1, <2>1
    <2>3. Steps(k, waits[k][2]) = 1
        BY <2>2 DEF RequestOnItsWay
    <2>4. PICK q \in Peer : q = waits[k][2]
        BY <2>2
    <2>5. Steps(k, q)' = Steps(k, q)
        BY <2>1, <2>2, <2>4 DEF StepsKept
    <2> QED
        BY <2>3, <2>4, <2>5
<1>4. AskedInv'
    BY <1>1, <1>2 DEF AskedInv, StepsKept
<1> QED
    BY <1>3, <1>4

\* Recording puts a request on its way once, its answer ends it.
LEMMA Way_Step ==
    ASSUME SignalTypes, SignalTypes', EnoughIds, AloneInv, TraceInv, IdsInv,
           RequestOnItsWay, AskedInv, [Next]_vars
    PROVE  RequestOnItsWay' /\ AskedInv'
<1>1. DOMAIN waits \subseteq Id /\ \A k \in DOMAIN waits : waits[k] \in Peer \X Peer
    BY DEF SignalTypes
<1>2. \A r \in Peer, k \in Id : Steps(k, r) \in Nat /\ Steps(k, r)' \in Nat
    BY IdsAreNumbers, IdsAreNumbersNext
<1>3. ASSUME NEW p \in Peer, NEW q \in Peer, RequestConnection(p, q)
      PROVE  RequestOnItsWay' /\ AskedInv'
    <2>1. waits' = waits /\ here' = here /\ \A r \in Peer, k \in Id : StepsKept(k, r)
        BY <1>3, Effect_Request DEF RequestConnection, serverVars
    <2> QED
        BY <2>1, Way_Kept
<1>4. ASSUME NEW p \in Peer, TakeAnswer(p) PROVE RequestOnItsWay' /\ AskedInv'
    <2>1. waits' = waits /\ here' = here /\ \A r \in Peer, k \in Id : StepsKept(k, r)
        BY <1>4, Effect_TakeAnswer DEF TakeAnswer, serverVars
    <2> QED
        BY <2>1, Way_Kept
<1>5. CASE ~Moving
    <2>1. waits' = waits /\ here' \subseteq here /\ \A r \in Peer, k \in Id : StepsKept(k, r)
        BY <1>5, OtherEffects
    <2> QED
        BY <2>1, Way_Kept
<1>6. ASSUME NEW p \in Peer, RecordRequest(p) PROVE RequestOnItsWay' /\ AskedInv'
    <2>2. PICK q \in Peer : q = handler[p].peer
        BY <1>6 DEF RecordRequest, SignalTypes
    <2>3. /\ handler[p].id = waitIds /\ waitIds \notin DOMAIN waits
          /\ \A r \in Peer : Steps(waitIds, r) = 0
        BY <1>6, UnusedId
    <2>4. /\ waits' = Entered(<<p, q>>) /\ here' = here
        BY <1>6, <2>2 DEF RecordRequest
    <2>5. /\ DOMAIN waits' = DOMAIN waits \cup {waitIds} /\ waits'[waitIds] = <<p, q>>
          /\ \A k \in DOMAIN waits : waits'[k] = waits[k]
        BY <2>3, <2>4, PendingEntered
    <2>6. \A r \in Peer, k \in Id :
              Steps(k, r)' = Steps(k, r) + IF r = q /\ k = waitIds THEN 1 ELSE 0
        BY <1>6, <2>2, <2>3, Effect_Record
    <2>7. PICK w \in Id : w = waitIds
        BY DEF SignalTypes
    <2>8. Steps(w, q)' = 1 /\ \A r \in Peer : r # q => Steps(w, r)' = 0
        BY <2>3, <2>6, <2>7
    <2>9. \A r \in Peer, k \in DOMAIN waits : Steps(k, r)' = Steps(k, r)
        BY <1>1, <1>2, <2>3, <2>6
    <2>10. RequestOnItsWay'
        <3>1. SUFFICES ASSUME NEW k \in DOMAIN waits', waits'[k][2] \in here
                       PROVE  Steps(k, waits[k][2])' = 1
            BY <2>4 DEF RequestOnItsWay
        <3>2. CASE k = waitIds
            <4>1. k = w /\ waits'[k][2] = q
                BY <2>5, <2>7, <3>2
            <4> QED
                BY <2>8, <4>1
        <3>3. CASE k \in DOMAIN waits
            <4>1. PICK t \in Peer : t = waits[k][2]
                BY <1>1, <3>3
            <4>2. waits'[k][2] = t
                BY <2>5, <3>3, <4>1
            <4>3. Steps(k, t) = 1
                BY <3>1, <3>3, <4>1, <4>2 DEF RequestOnItsWay
            <4>4. Steps(k, t)' = 1
                BY <2>9, <3>3, <4>3
            <4> QED
                BY <4>2, <4>4
        <3> QED
            BY <2>5, <3>2, <3>3
    <2>11. AskedInv'
        <3>1. SUFFICES ASSUME NEW r \in Peer, NEW k \in DOMAIN waits', Steps(k, r)' > 0
                       PROVE  waits'[k][2] = r
            BY DEF AskedInv
        <3>2. CASE k = waitIds
            <4>1. k = w /\ waits'[k][2] = q
                BY <2>5, <2>7, <3>2
            <4> QED
                BY <2>8, <3>1, <4>1
        <3>3. CASE k \in DOMAIN waits
            BY <2>5, <2>9, <3>1, <3>3 DEF AskedInv
        <3> QED
            BY <2>5, <3>2, <3>3
    <2> QED
        BY <2>10, <2>11
<1>7. ASSUME NEW p \in Peer, HandleAnswer(p) PROVE RequestOnItsWay' /\ AskedInv'
    <2>1. PICK m \in MsgsOf(UpCode, Id) : m = Head(uplink[p])
        BY <1>7, ReadIs DEF HandleAnswer
    <2>2. /\ m.id \in Id
          /\ \A r \in Peer, k \in Id : Steps(k, r) = Steps(k, r)' + IF r = p /\ k = m.id THEN 1 ELSE 0
        BY <1>7, <2>1, Effect_Answer
    <2>3. waits' = Answered(m.id) /\ here' = here
        BY <1>7, <2>1 DEF HandleAnswer
    <2>4. DOMAIN waits' = DOMAIN waits \ {m.id} /\ \A k \in DOMAIN waits' : waits'[k] = waits[k]
        BY <2>2, <2>3, PendingAnswered
    <2>5. \A r \in Peer, k \in DOMAIN waits' : Steps(k, r)' = Steps(k, r)
        BY <1>1, <1>2, <2>2, <2>4
    <2>6. RequestOnItsWay'
        <3>1. SUFFICES ASSUME NEW k \in DOMAIN waits', waits'[k][2] \in here
                       PROVE  Steps(k, waits[k][2])' = 1
            BY <2>3 DEF RequestOnItsWay
        <3>2. PICK t \in Peer : t = waits[k][2] /\ t = waits'[k][2]
            BY <1>1, <2>4
        <3>3. Steps(k, t) = 1
            BY <2>4, <3>1, <3>2 DEF RequestOnItsWay
        <3>4. Steps(k, t)' = 1
            BY <2>5, <3>3
        <3> QED
            BY <3>2, <3>4
    <2>7. AskedInv'
        BY <2>4, <2>5 DEF AskedInv
    <2> QED
        BY <2>6, <2>7
<1> QED
    BY <1>3, <1>4, <1>5, <1>6, <1>7 DEF Moving
-----------------------------------------------------------------------------
(* Whom the messages name.                                                 *)

\* No message that names a peer is added, and the server's thread is where it
\* was, for r.
NamesKept(r) ==
    /\ AskedOf(r)' \subseteq AskedOf(r) /\ Told(r)' \subseteq Told(r)
    /\ handler'[r] = handler[r]

\* Then what there is of its request names the peer it named before.
LEMMA Named_Kept ==
    ASSUME NEW r \in Peer, NEW q, NamesKept(r), waits' = waits, Named(r, q)
    PROVE  Named(r, q)'
<1>1. Pending(r)' = Pending(r)
    BY DEF Pending
<1> QED
    BY <1>1 DEF Named, NamesKept

\* Who waits has waited before, for the same peer.
LEMMA NamedInv_Kept ==
    ASSUME NamedInv, waits' = waits, here' \subseteq here,
           \A r \in here' : add'[r].pc = "wait" => add'[r] = add[r] /\ r \in Peer /\ NamesKept(r)
    PROVE  NamedInv'
<1> SUFFICES ASSUME NEW r \in here', add'[r].pc = "wait" PROVE Named(r, add[r].peer)'
    BY DEF NamedInv
<1>1. add'[r] = add[r] /\ r \in here /\ r \in Peer /\ NamesKept(r)
    OBVIOUS
<1>2. PICK q : q = add[r].peer
    OBVIOUS
<1>3. Named(r, q)
    BY <1>1, <1>2 DEF NamedInv
<1>4. Named(r, q)'
    BY <1>1, <1>3, Named_Kept
<1> QED
    BY <1>1, <1>2, <1>4

\* A peer without traces has nothing that could name another one.
LEMMA NoTraceNoName ==
    ASSUME SignalTypes, NEW p \in Peer, Traces(p) = 0
    PROVE  AskedOf(p) = {} /\ Told(p) = {} /\ handler[p] = NotHandling /\ Pending(p) = {}
<1>1. TraceParts(p)
    BY AllParts DEF Parts
<1>2. /\ Count(uplink[p], Asks) = 0 /\ Handling(p) = 0 /\ Cardinality(Pending(p)) = 0
      /\ Count(queue[p], Answers) = 0 /\ Count(inbox[p], Answers) = 0
    <2>1. \A a, b, c, d, e \in Nat : a + b + c + d + e = 0 =>
              a = 0 /\ b = 0 /\ c = 0 /\ d = 0 /\ e = 0
        OBVIOUS
    <2>2. Handling(p) \in Nat
        BY DEF Handling
    <2> QED
        BY <1>1, <2>1, <2>2 DEF TraceParts
<1>3. /\ uplink[p] \in Seq(MsgsOf(UpCode, Id)) /\ queue[p] \in Seq(MsgsOf(DownCode, Id))
      /\ inbox[p] \in Seq(MsgsOf(DownCode, Id))
    BY DEF SignalTypes
<1>4. /\ \A m \in Range(uplink[p]) : m \notin Asks
      /\ \A m \in Range(queue[p]) \cup Range(inbox[p]) : m \notin Answers
    BY <1>2, <1>3, CountedIsThere
<1>5. /\ \A m \in Range(uplink[p]) : m \in MsgsOf(UpCode, Id)
      /\ \A m \in Range(queue[p]) \cup Range(inbox[p]) : m \in MsgsOf(DownCode, Id)
    BY <1>3 DEF Range
<1>6. AskedOf(p) = {}
    BY <1>4, <1>5, MsgKinds DEF AskedOf
<1>7. Told(p) = {}
    BY <1>4, <1>5, MsgKinds DEF Told, Answer
<1>8. Pending(p) = {}
    BY <1>2, PendingFinite, FS_EmptySet
<1> QED
    BY <1>2, <1>6, <1>7, <1>8 DEF Handling

\* Replies name their sender.
LEMMA Signed_Step ==
    ASSUME SignalTypes, SignedInv, [Next]_vars
    PROVE  SignedInv'
<1> USE DEF peerVars, netVars, serverVars, counts
<1>1. ASSUME NEW p \in Peer, NEW q \in Peer, RequestConnection(p, q) PROVE SignedInv'
    <2>1. MoreAt(p, uplink, uplink', AskMsg(q))
        BY <1>1, RequestIs
    <2>2. AskMsg(q).code \notin Reply
        BY DEF AskMsg, Msg, Reply
    <2>3. \A r \in Peer : Range(uplink'[r]) \subseteq Range(uplink[r]) \cup {AskMsg(q)}
        BY <2>1 DEF MoreAt
    <2> QED
        BY <2>2, <2>3 DEF SignedInv
<1>2. ASSUME NEW p \in Peer, AnswerRequest(p) PROVE SignedInv'
    <2>1. PICK m \in MsgsOf(UpCode, Id) : MoreAt(p, uplink, uplink', m) /\ m.peer = p
        BY <1>2, AnswerIs
    <2>2. \A r \in Peer : Range(uplink'[r]) = Range(uplink[r]) \cup IF r = p THEN {m} ELSE {}
        BY <2>1 DEF MoreAt
    <2> QED
        BY <2>1, <2>2 DEF SignedInv
<1>3. ASSUME NEW p \in Peer, HandleGetUserICEInfo(p) \/ HandleAnswer(p) PROVE SignedInv'
    <2>1. PICK m \in MsgsOf(UpCode, Id) : LessAt(p, uplink, uplink', m)
        BY <1>3, ReadIs DEF HandleGetUserICEInfo, HandleAnswer
    <2> QED
        BY <2>1 DEF LessAt, SignedInv
<1>4. CASE ~(\/ \E p, q \in Peer : RequestConnection(p, q)
             \/ \E p \in Peer : AnswerRequest(p) \/ HandleGetUserICEInfo(p) \/ HandleAnswer(p))
    <2>1. UNCHANGED uplink
        BY <1>4 DEF Next, PeerStep, ServerStep, Attempt, TakeAnswer, TakeRequest,
                    Connect, AttemptFails, ForgetConnection, Leave, SendQueued, RecordRequest,
                    CleanUp, Age, vars
    <2> QED
        BY <2>1 DEF SignedInv
<1> QED
    BY <1>1, <1>2, <1>3, <1>4
\* All there is of a request names the peer that is asked for: the answer is
\* that of the asked peer, as only it has the request in hands and signs.
LEMMA Named_Step ==
    ASSUME SignalTypes, SignalTypes', EnoughIds, TraceInv, IdsInv, AskedInv, SignedInv,
           NamedInv, [Next]_vars
    PROVE  NamedInv'
<1> USE DEF peerVars, netVars, serverVars, counts
<1>1. ASSUME NEW p \in Peer, NEW q \in Peer, RequestConnection(p, q) PROVE NamedInv'
    <2>1. PICK m : m = AskMsg(q) /\ m.peer = q /\ MoreAt(p, uplink, uplink', m)
        <3>1. AskMsg(q).peer = q
            BY DEF AskMsg, Msg
        <3> QED
            BY <1>1, <3>1, RequestIs
    <2>2. /\ p \in here /\ add[p].pc = "idle" /\ UNCHANGED <<here, handler, waits, queue, inbox>>
          /\ add' = [add EXCEPT ![p] = [pc |-> "wait", peer |-> q, ice |-> Nobody]]
        BY <1>1 DEF RequestConnection, MutexFree
    <2>3. Traces(p) = 0
        BY <2>2 DEF TraceInv
    <2>4. AskedOf(p) = {} /\ Told(p) = {} /\ handler[p] = NotHandling /\ Pending(p) = {}
        BY <2>3, NoTraceNoName
    <2>5. \A r \in Peer : /\ Range(uplink'[r]) = Range(uplink[r]) \cup IF r = p THEN {m} ELSE {}
                          /\ Told(r)' = Told(r) /\ Pending(r)' = Pending(r)
        BY <2>1, <2>2 DEF MoreAt, Told, Pending
    <2>6. AskedOf(p)' \subseteq {m} /\ \A r \in Peer : r # p => AskedOf(r)' = AskedOf(r)
        BY <2>4, <2>5 DEF AskedOf
    <2>7. Named(p, q)'
        BY <2>1, <2>2, <2>4, <2>5, <2>6 DEF Named
    <2>8. add'[p].peer = q /\ \A r \in Peer : r # p => add'[r] = add[r]
        BY <2>2 DEF SignalTypes
    <2>9. ASSUME NEW r \in here, add'[r].pc = "wait" PROVE Named(r, add[r].peer)'
        <3>1. CASE r = p
            BY <2>7, <2>8, <3>1
        <3>2. CASE r # p
            <4>1. r \in Peer
                BY DEF SignalTypes
            <4>2. PICK t : t = add[r].peer
                OBVIOUS
            <4>3. add'[r] = add[r] /\ Named(r, t)
                BY <2>8, <2>9, <3>2, <4>1, <4>2 DEF NamedInv
            <4>4. NamesKept(r) /\ waits' = waits
                BY <2>2, <2>5, <2>6, <3>2, <4>1 DEF NamesKept
            <4>5. Named(r, t)'
                BY <4>1, <4>3, <4>4, Named_Kept
            <4> QED
                BY <4>2, <4>3, <4>5
        <3> QED
            BY <3>1, <3>2
    <2> QED
        BY <2>2, <2>9 DEF NamedInv
<1>2. ASSUME NEW p \in Peer, TakeAnswer(p) \/ TakeRequest(p) PROVE NamedInv'
    <2>1. PICK m \in MsgsOf(DownCode, Id) : LessAt(p, inbox, inbox', m)
        BY <1>2, TakeIs DEF TakeAnswer, TakeRequest
    <2>2. UNCHANGED <<here, uplink, queue, handler, waits>>
        BY <1>2 DEF TakeAnswer, TakeRequest
    <2>3. \A r \in Peer : NamesKept(r)
        BY <2>1, <2>2 DEF NamesKept, AskedOf, Told, LessAt
    <2>4. \A r \in Peer : add'[r].pc = "wait" => add'[r] = add[r]
        <3>1. CASE TakeRequest(p)
            BY <3>1 DEF TakeRequest
        <3>2. CASE TakeAnswer(p)
            <4>1. add[p] \in AddType
                BY DEF SignalTypes
            <4> QED
                BY <3>2, <4>1 DEF TakeAnswer, SignalTypes, AddType, Idle
        <3> QED
            BY <1>2, <3>1, <3>2
    <2>5. here' = here /\ here \subseteq Peer /\ waits' = waits
        BY <2>2 DEF SignalTypes
    <2> QED
        BY <2>3, <2>4, <2>5, NamedInv_Kept
<1>3. ASSUME NEW p \in Peer, AnswerRequest(p) PROVE NamedInv'
    <2>1. PICK m \in MsgsOf(UpCode, Id) : MoreAt(p, uplink, uplink', m) /\ m.code \in Reply
        BY <1>3, AnswerIs
    <2>2. UNCHANGED <<here, inbox, queue, handler, waits, add>> /\ here \subseteq Peer
        BY <1>3 DEF AnswerRequest, SignalTypes
    <2>3. \A r \in Peer : Range(uplink'[r]) \subseteq Range(uplink[r]) \cup {m}
        BY <2>1 DEF MoreAt
    <2>4. m.code # "GetUserICEInfo"
        BY <2>1 DEF Reply
    <2>5. \A r \in Peer : NamesKept(r)
        BY <2>2, <2>3, <2>4 DEF NamesKept, AskedOf, Told
    <2> QED
        BY <2>2, <2>5, NamedInv_Kept
<1>4. ASSUME NEW p \in Peer, SendQueued(p) PROVE NamedInv'
    <2>1. PICK m \in MsgsOf(DownCode, Id) :
              /\ m \in Range(queue[p]) /\ LessAt(p, queue, queue', m)
              /\ p \in here => MoreAt(p, inbox, inbox', m)
              /\ p \notin here => inbox' = inbox
        BY <1>4, SendIs
    <2>2. UNCHANGED <<here, uplink, handler, waits, add>> /\ here \subseteq Peer
        BY <1>4 DEF SendQueued, SignalTypes
    <2>3. \A r \in Peer : Range(queue'[r]) \subseteq Range(queue[r])
        BY <2>1 DEF LessAt
    <2>4. \A r \in Peer : Range(inbox'[r]) \subseteq Range(inbox[r]) \cup IF r = p THEN {m} ELSE {}
        BY <2>1 DEF MoreAt
    <2>5. \A r \in Peer : Told(r)' \subseteq Told(r)
        BY <2>1, <2>3, <2>4 DEF Told
    <2>6. \A r \in Peer : NamesKept(r)
        BY <2>2, <2>5 DEF NamesKept, AskedOf
    <2> QED
        BY <2>2, <2>6, NamedInv_Kept
<1>5. ASSUME NEW p \in Peer, HandleGetUserICEInfo(p) PROVE NamedInv'
    <2>1. PICK m \in MsgsOf(UpCode, Id) :
              m = Head(uplink[p]) /\ m \in Range(uplink[p]) /\ LessAt(p, uplink, uplink', m)
        BY <1>5, ReadIs DEF HandleGetUserICEInfo
    <2>2. m.code = "GetUserICEInfo" /\ m.peer \in Peer /\ m \in AskedOf(p)
        BY <1>5, <2>1, MsgKinds DEF HandleGetUserICEInfo, AskedOf
    <2>3. /\ UNCHANGED <<here, inbox, waits, add>> /\ here \subseteq Peer
          /\ \/ UNCHANGED handler /\ queue' = [queue EXCEPT ![p] = @ \o Refusal(m.peer)]
             \/ UNCHANGED queue /\ handler' = [handler EXCEPT ![p] = [peer |-> m.peer, id |-> waitIds]]
        BY <1>5, <2>1 DEF HandleGetUserICEInfo, SignalTypes
    <2>4. \A r \in Peer : AskedOf(r)' \subseteq AskedOf(r)
        BY <2>1 DEF LessAt, AskedOf
    <2>5. CASE UNCHANGED handler /\ queue' = [queue EXCEPT ![p] = @ \o Refusal(m.peer)]
        <3>1. RefusalMsg(m.peer) \in MsgsOf(DownCode, Id) /\ RefusalMsg(m.peer).code # "UserAuthorizedICEData"
            <4>1. RefusalMsg(m.peer) \in MsgsOf(DownCode, Id)
                BY <2>2, MsgMade, ZeroIsId DEF RefusalMsg, DownCode, Answer
            <4> QED
                BY <4>1 DEF RefusalMsg, Msg
        <3>2. MoreAt(p, queue, queue', RefusalMsg(m.peer))
            BY <2>2, <2>5, <3>1, RefusalIs, QueueIs
        <3>3. \A r \in Peer : Range(queue'[r]) \subseteq Range(queue[r]) \cup {RefusalMsg(m.peer)}
            BY <3>2 DEF MoreAt
        <3>4. \A r \in Peer : Told(r)' \subseteq Told(r)
            BY <2>3, <3>1, <3>3 DEF Told
        <3>5. \A r \in Peer : NamesKept(r)
            BY <2>4, <2>5, <3>4 DEF NamesKept
        <3> QED
            BY <2>3, <3>5, NamedInv_Kept
    <2>6. CASE UNCHANGED queue /\ handler' = [handler EXCEPT ![p] = [peer |-> m.peer, id |-> waitIds]]
        <3>1. \A r \in Peer : Told(r)' = Told(r) /\ Pending(r)' = Pending(r)
            BY <2>3, <2>6 DEF Told, Pending
        <3>2. handler'[p].peer = m.peer /\ \A r \in Peer : r # p => handler'[r] = handler[r]
            BY <2>6 DEF SignalTypes
        <3>3. ASSUME NEW r \in here, add[r].pc = "wait", NEW t, t = add[r].peer PROVE Named(r, t)'
            <4>1. Named(r, t) /\ r \in Peer
                BY <2>3, <3>3 DEF NamedInv
            <4>2. CASE r # p
                BY <2>3, <2>4, <3>1, <3>2, <4>1, <4>2, Named_Kept DEF NamesKept
            <4>3. CASE r = p
                <5>1. m.peer = t
                    BY <2>2, <4>1, <4>3 DEF Named
                <5> QED
                    BY <2>3, <2>4, <3>1, <3>2, <4>1, <4>3, <5>1 DEF Named
            <4> QED
                BY <4>2, <4>3
        <3> QED
            BY <2>3, <3>3 DEF NamedInv
    <2> QED
        BY <2>3, <2>5, <2>6
<1>6. ASSUME NEW p \in Peer, RecordRequest(p) PROVE NamedInv'
    <2>1. PICK n \in 0..IdSpace : Recorded(n)
        BY DEF IdsInv
    <2>2. PICK q \in Peer : q = handler[p].peer
        BY <1>6 DEF RecordRequest, SignalTypes
    <2>3. waitIds \notin DOMAIN waits
        BY <1>6, <2>1, FreshId
    <2>4. /\ waits' = Entered(<<p, q>>) /\ UNCHANGED <<here, add, inbox, uplink>> /\ here \subseteq Peer
          /\ handler[p] # NotHandling /\ handler' = [handler EXCEPT ![p] = NotHandling]
        BY <1>6, <2>2 DEF RecordRequest, SignalTypes
    <2>5. /\ DOMAIN waits' = DOMAIN waits \cup {waitIds} /\ waits'[waitIds] = <<p, q>>
          /\ \A k \in DOMAIN waits : waits'[k] = waits[k]
        BY <2>3, <2>4, PendingEntered
    <2>6. \A r \in Peer : AskedOf(r)' = AskedOf(r) /\ Told(r)' \subseteq Told(r)
        <3>1. PICK c, w, m : /\ c = "AuthorizeICEConnection" /\ c \in DownCode
                             /\ w = handler[p].id /\ w \in Id /\ m = Msg(c, p, w)
            BY DEF DownCode, SignalTypes
        <3>2. m \in MsgsOf(DownCode, Id) /\ m.code = "AuthorizeICEConnection"
            BY <3>1 DEF Msg, MsgsOf
        <3>3. queue' = [queue EXCEPT ![q] = Append(@, m)]
            BY <1>6, <2>2, <3>1 DEF RecordRequest
        <3>4. MoreAt(q, queue, queue', m)
            BY <3>2, <3>3, QueueIs
        <3>5. \A r \in Peer : Range(queue'[r]) \subseteq Range(queue[r]) \cup {m}
            BY <3>4 DEF MoreAt
        <3> QED
            BY <2>4, <3>2, <3>5 DEF AskedOf, Told
    <2>7. ASSUME NEW r \in here, add[r].pc = "wait", NEW t, t = add[r].peer PROVE Named(r, t)'
        <3>1. Named(r, t) /\ r \in Peer
            BY <2>4, <2>7 DEF NamedInv
        <3>2. \A m \in AskedOf(r)' \cup Told(r)' : m.peer = t
            BY <2>6, <3>1 DEF Named
        <3>3. handler'[r] # NotHandling => handler'[r] = handler[r]
            BY <2>4, <3>1 DEF SignalTypes
        <3>4. ASSUME NEW k \in DOMAIN waits', waits'[k][1] = r PROVE waits'[k][2] = t
            <4>1. CASE k \in DOMAIN waits
                BY <2>5, <3>1, <3>4, <4>1 DEF Named, Pending
            <4>2. CASE k = waitIds
                <5>1. r = p /\ waits'[k][2] = q
                    BY <2>5, <3>4, <4>2
                <5>2. q = t
                    BY <2>2, <2>4, <3>1, <5>1 DEF Named
                <5> QED
                    BY <5>1, <5>2
            <4> QED
                BY <2>5, <4>1, <4>2
        <3>5. \A k \in Pending(r)' : waits'[k][2] = t
            BY <3>4 DEF Pending
        <3>6. handler'[r] # NotHandling => handler'[r].peer = t
            BY <3>1, <3>3 DEF Named
        <3> QED
            BY <3>2, <3>5, <3>6 DEF Named
    <2> QED
        BY <2>4, <2>7 DEF NamedInv
<1>7. ASSUME NEW p \in Peer, HandleAnswer(p) PROVE NamedInv'
    <2>1. PICK m \in MsgsOf(UpCode, Id) :
              m = Head(uplink[p]) /\ m \in Range(uplink[p]) /\ LessAt(p, uplink, uplink', m)
        BY <1>7, ReadIs DEF HandleAnswer
    <2>2. /\ m.code \in Reply /\ m.id \in Id
          /\ \A r \in Peer, k \in Id : Steps(k, r) = Steps(k, r)' + IF r = p /\ k = m.id THEN 1 ELSE 0
        BY <1>7, <2>1, Effect_Answer
    <2>3. m.peer = p
        BY <2>1, <2>2 DEF SignedInv
    <2>4. Steps(m.id, p) > 0
        <3>1. PICK k \in Id : k = m.id
            BY <2>2
        <3>2. Steps(k, p) = Steps(k, p)' + 1 /\ Steps(k, p)' \in Nat
            BY <2>2, <3>1, IdsAreNumbersNext
        <3> QED
            BY <3>1, <3>2
    <2>5. m.id \in DOMAIN waits => waits[m.id][2] = p
        BY <2>4 DEF AskedInv
    <2>6. /\ waits' = Answered(m.id) /\ UNCHANGED <<here, add, inbox, handler>> /\ here \subseteq Peer
          /\ queue' = IF Requester(m.id) = Nobody THEN queue
                      ELSE [queue EXCEPT ![Requester(m.id)] = Append(@, Forwarded(m))]
        BY <1>7, <2>1 DEF HandleAnswer, SignalTypes
    <2>7. DOMAIN waits' = DOMAIN waits \ {m.id} /\ \A k \in DOMAIN waits' : waits'[k] = waits[k]
        BY <2>2, <2>6, PendingAnswered
    <2>8. \A r \in Peer : AskedOf(r)' \subseteq AskedOf(r)
        BY <2>1 DEF LessAt, AskedOf
    <2>9. /\ m.code # "GetUserICEInfo" /\ Forwarded(m) \in MsgsOf(DownCode, Id) /\ Forwarded(m).peer = p
        BY <2>2, <2>3, ForwardedMade DEF Reply
    <2>10. ASSUME NEW r \in Peer
           PROVE  Told(r)' \subseteq Told(r) \cup IF Requester(m.id) = r THEN {Forwarded(m)} ELSE {}
        <3>1. CASE Requester(m.id) = Nobody
            BY <2>6, <3>1 DEF Told
        <3>2. CASE Requester(m.id) # Nobody
            <4>1. PICK t, f : t = Requester(m.id) /\ t \in Peer /\ f = Forwarded(m)
                BY <3>2 DEF Requester, SignalTypes
            <4>2. queue' = [queue EXCEPT ![t] = Append(@, f)] /\ f \in MsgsOf(DownCode, Id)
                BY <2>6, <2>9, <3>2, <4>1
            <4>3. MoreAt(t, queue, queue', f)
                BY <4>1, <4>2, QueueIs
            <4>4. Range(queue'[r]) = Range(queue[r]) \cup IF r = t THEN {f} ELSE {}
                BY <4>3 DEF MoreAt
            <4> QED
                BY <2>6, <4>1, <4>4 DEF Told
        <3> QED
            BY <3>1, <3>2
    <2>11. ASSUME NEW r \in here, add[r].pc = "wait", NEW t, t = add[r].peer PROVE Named(r, t)'
        <3>1. Named(r, t) /\ r \in Peer
            BY <2>6, <2>11 DEF NamedInv
        <3>2. \A k \in Pending(r)' : k \in Pending(r) /\ waits'[k] = waits[k]
            BY <2>7 DEF Pending
        <3>3. Requester(m.id) = r => Forwarded(m).peer = t
            <4>1. ASSUME Requester(m.id) = r PROVE m.id \in Pending(r)
                BY <3>1, <4>1, SignalingAssumption DEF Requester, Pending
            <4> QED
                BY <2>5, <2>9, <3>1, <4>1 DEF Named, Pending
        <3>4. \A x \in Told(r)' : x.peer = t
            BY <2>10, <3>1, <3>3 DEF Named
        <3>5. \A x \in AskedOf(r)' : x.peer = t
            BY <2>8, <3>1 DEF Named
        <3>6. \A k \in Pending(r)' : waits'[k][2] = t
            BY <3>1, <3>2 DEF Named
        <3> QED
            BY <2>6, <3>1, <3>4, <3>5, <3>6 DEF Named
    <2> QED
        BY <2>6, <2>11 DEF NamedInv
<1>8. ASSUME NEW p \in Peer, Leave(p) PROVE NamedInv'
    <2>1. NoneAt(p, inbox, inbox')
        BY <1>8, Emptied DEF Leave, SignalTypes
    <2>2. /\ here' = here \ {p} /\ add' = [add EXCEPT ![p] = Idle] /\ here \subseteq Peer
          /\ UNCHANGED <<uplink, queue, handler, waits>>
        BY <1>8 DEF Leave, SignalTypes
    <2>3. \A r \in Peer : NamesKept(r)
        BY <2>1, <2>2 DEF NoneAt, NamesKept, AskedOf, Told
    <2>4. \A r \in here' : add'[r] = add[r] /\ r \in Peer
        BY <2>2 DEF SignalTypes
    <2> QED
        BY <2>2, <2>3, <2>4, NamedInv_Kept
<1>9. ASSUME NEW p \in Peer, CleanUp(p) PROVE NamedInv'
    <2>1. NoneAt(p, queue, queue')
        BY <1>9, Emptied DEF CleanUp, SignalTypes
    <2>2. UNCHANGED <<here, add, uplink, inbox, handler, waits>> /\ here \subseteq Peer
        BY <1>9 DEF CleanUp, SignalTypes
    <2>3. \A r \in Peer : NamesKept(r)
        BY <2>1, <2>2 DEF NoneAt, NamesKept, AskedOf, Told
    <2> QED
        BY <2>2, <2>3, NamedInv_Kept
<1>10. CASE \/ \E p, q \in Peer : Connect(p, q) \/ ForgetConnection(p, q)
            \/ \E p \in Peer : AttemptFails(p)
            \/ \E k \in Id : Age(k)
            \/ UNCHANGED vars
    <2>1. UNCHANGED <<here, uplink, inbox, queue, handler, waits>> /\ here \subseteq Peer
        BY <1>10 DEF Connect, ForgetConnection, AttemptFails, Age, vars, SignalTypes
    <2>2. add' = add \/ \E p \in Peer : add' = [add EXCEPT ![p] = Idle]
        BY <1>10 DEF Connect, ForgetConnection, AttemptFails, Age, vars
    <2>3. \A r \in Peer : add'[r].pc = "wait" => add'[r] = add[r]
        BY <2>2 DEF Idle, SignalTypes
    <2>4. \A r \in Peer : NamesKept(r)
        BY <2>1 DEF NamesKept, AskedOf, Told
    <2> QED
        BY <2>1, <2>3, <2>4, NamedInv_Kept
<1> QED
    BY <1>1, <1>2, <1>3, <1>4, <1>5, <1>6, <1>7, <1>8, <1>9, <1>10
       DEF Next, PeerStep, ServerStep, Attempt
\* Who connects has been told the data of the peer it asked for.
LEMMA Asker_Step ==
    ASSUME SignalTypes, TraceInv, NamedInv, AnswersToAsker, [Next]_vars
    PROVE  AnswersToAsker'
<1> USE DEF peerVars, netVars, serverVars, counts
<1>1. ASSUME NEW p \in Peer, TakeAnswer(p) PROVE AnswersToAsker'
    <2>1. PICK m \in MsgsOf(DownCode, Id) : m = inbox[p][First(p, Answer)] /\ m \in Range(inbox[p])
        BY <1>1, TakeIs DEF TakeAnswer
    <2>2. add[p].pc = "wait" /\ p \in here
        BY <1>1 DEF TakeAnswer, TraceInv
    <2>3. m.code = "UserAuthorizedICEData" => m.peer = add[p].peer
        BY <2>1, <2>2 DEF NamedInv, Named, Told
    <2>4. add' = [add EXCEPT ![p] = IF m.code = "UserAuthorizedICEData"
                                    THEN [@ EXCEPT !.pc = "connect", !.ice = m.peer] ELSE Idle]
        BY <1>1, <2>1 DEF TakeAnswer
    <2>5. add[p] \in AddType /\ add \in [Peer -> AddType]
        BY DEF SignalTypes
    <2>6. add'[p].pc = "connect" => add'[p].ice = add'[p].peer
        BY <2>3, <2>4, <2>5 DEF AddType, Idle
    <2>7. \A r \in Peer : r # p => add'[r] = add[r]
        BY <2>4, <2>5
    <2> QED
        BY <2>6, <2>7 DEF AnswersToAsker
<1>2. ASSUME NEW p \in Peer, NEW q \in Peer, RequestConnection(p, q) PROVE AnswersToAsker'
    BY <1>2 DEF RequestConnection, AnswersToAsker, SignalTypes
<1>3. CASE ~(\/ \E p \in Peer : TakeAnswer(p)
             \/ \E p, q \in Peer : RequestConnection(p, q))
    <2>1. add' = add \/ \E p \in Peer : add' = [add EXCEPT ![p] = Idle]
        <3>1. ASSUME NEW p \in Peer, TakeRequest(p) \/ AnswerRequest(p) \/ ServerStep(p)
              PROVE  add' = add
            BY <3>1 DEF ServerStep, TakeRequest, AnswerRequest, SendQueued, HandleGetUserICEInfo,
                        RecordRequest, HandleAnswer, CleanUp
        <3>2. ASSUME NEW p \in Peer, Attempt(p) \/ Leave(p)
              PROVE  add' = add \/ \E q \in Peer : add' = [add EXCEPT ![q] = Idle]
            BY <3>2 DEF Attempt, Connect, AttemptFails, Leave
        <3>3. CASE \/ \E p, q \in Peer : ForgetConnection(p, q)
                   \/ \E k \in Id : Age(k)
                   \/ UNCHANGED vars
            BY <3>3 DEF ForgetConnection, Age, vars
        <3> QED
            BY <1>3, <3>1, <3>2, <3>3 DEF Next, PeerStep
    <2>2. ASSUME NEW p \in Peer, add' = [add EXCEPT ![p] = Idle] PROVE AnswersToAsker'
        <3>1. \A r \in Peer : add'[r] = add[r] \/ add'[r].pc = "idle"
            BY <2>2 DEF Idle, SignalTypes
        <3> QED
            BY <3>1 DEF AnswersToAsker
    <2>3. CASE add' = add
        BY <2>3 DEF AnswersToAsker
    <2> QED
        BY <2>1, <2>2, <2>3
<1> QED
    BY <1>1, <1>2, <1>3

-----------------------------------------------------------------------------
(* The invariant.                                                          *)

\* At first nobody asks and nothing is under way.
LEMMA IInv_Init == EnoughIds /\ Init => IInv
<1> SUFFICES ASSUME EnoughIds, Init PROVE IInv
    OBVIOUS
<1>1. SignalTypes
    BY Types_Init
<1>2. /\ \A p \in Peer : /\ uplink[p] = <<>> /\ queue[p] = <<>> /\ inbox[p] = <<>>
                         /\ handler[p] = NotHandling /\ add[p] = Idle /\ share[p] = Receiving
      /\ DOMAIN waits = {} /\ waitIds = 0 /\ asked = 0 /\ here = Peer
    BY DEF Init
<1>3. \A p \in Peer : Pending(p) = {}
    BY <1>2 DEF Pending
<1>4. ASSUME NEW p \in Peer PROVE Traces(p) = 0
    <2>1. Cardinality(Pending(p)) = 0
        BY <1>3, FS_EmptySet
    <2> QED
        BY <1>2, <2>1, CountNone DEF Traces
<1>5. ASSUME NEW p \in Peer, NEW k \in Id PROVE Steps(k, p) = 0
    BY <1>2, CountNone DEF Steps, Receiving
<1>6. AloneInv
    BY <1>2 DEF AloneInv
<1>7. TraceInv
    BY <1>2, <1>4 DEF TraceInv, Idle
<1>8. IdsInv
    <2>1. Count(<<>>, Asks) = 0
        BY CountNone
    <2>2. Asking = {}
        BY <1>2, <2>1 DEF Asking
    <2>3. Cardinality(Asking) = 0
        BY <2>2, FS_EmptySet
    <2>4. Recorded(0)
        BY <1>2, <1>5, <2>3 DEF Recorded
    <2> QED
        BY <2>4, SignalingAssumption DEF IdsInv
<1>9. RequestOnItsWay /\ AskedInv
    BY <1>2 DEF RequestOnItsWay, AskedInv
<1>10. \A p \in Peer : Range(uplink[p]) = {}
    BY <1>2 DEF Range
<1>11. SignedInv /\ NamedInv /\ AnswersToAsker
    BY <1>2, <1>10 DEF SignedInv, NamedInv, AnswersToAsker, Idle
<1> QED
    BY <1>1, <1>6, <1>7, <1>8, <1>9, <1>11 DEF IInv, TracesInv

\* Every step keeps one trace per request, however many threads are in the
\* handler.
LEMMA TracesInv_Step == EnoughIds /\ TracesInv /\ [Next]_vars => TracesInv'
<1> SUFFICES ASSUME EnoughIds, TracesInv, [Next]_vars PROVE TracesInv'
    OBVIOUS
<1>1. SignalTypes /\ TraceInv /\ IdsInv
    BY DEF TracesInv
<1>2. SignalTypes'
    BY <1>1, Types_Step
<1>3. ASSUME NEW p \in Peer, RecordRequest(p) PROVE waitIds \notin DOMAIN waits
    BY <1>1, <1>3, FreshId DEF IdsInv
<1>4. TraceInv'
    BY <1>1, <1>2, <1>3, Trace_Step
<1>5. IdsInv'
    BY <1>1, <1>2, Ids_Step
<1> QED
    BY <1>2, <1>4, <1>5 DEF TracesInv

\* Every step keeps the invariant.
LEMMA IInv_Step == OneHandler /\ EnoughIds /\ IInv /\ [Next]_vars => IInv'
<1> SUFFICES ASSUME OneHandler, EnoughIds, IInv, [Next]_vars PROVE IInv'
    OBVIOUS
<1>1. /\ SignalTypes /\ AloneInv /\ TraceInv /\ IdsInv /\ RequestOnItsWay /\ AskedInv
      /\ SignedInv /\ NamedInv /\ AnswersToAsker
    BY DEF IInv, TracesInv
<1>2. TracesInv' /\ SignalTypes'
    BY <1>1, TracesInv_Step DEF TracesInv
<1>3. AloneInv'
    BY <1>1, Alone_Step
<1>4. RequestOnItsWay' /\ AskedInv'
    BY <1>1, <1>2, Way_Step
<1>5. SignedInv'
    BY <1>1, Signed_Step
<1>6. NamedInv'
    BY <1>1, <1>2, Named_Step
<1>7. AnswersToAsker'
    BY <1>1, Asker_Step
<1> QED
    BY <1>2, <1>3, <1>4, <1>5, <1>6, <1>7 DEF IInv

\* The invariants hold all the time.
LEMMA TracesInv_Always == EnoughIds /\ Spec => []TracesInv
<1>1. CASE EnoughIds
    <2>1. TracesInv /\ [Next]_vars => TracesInv'
        BY <1>1, TracesInv_Step
    <2>2. Init => TracesInv
        BY <1>1, IInv_Init DEF IInv
    <2> QED
        BY <2>1, <2>2, PTL DEF Spec
<1>2. CASE ~EnoughIds
    BY <1>2
<1> QED
    BY <1>1, <1>2

\* The invariant holds all the time.
LEMMA IInv_Always == OneHandler /\ EnoughIds /\ Spec => []IInv
<1>1. OneHandler /\ EnoughIds => (IInv /\ [Next]_vars => IInv')
    BY IInv_Step
<1>2. OneHandler /\ EnoughIds /\ Init => IInv
    BY IInv_Init
<1>3. CASE OneHandler /\ EnoughIds
    <2>1. IInv /\ [Next]_vars => IInv'
        BY <1>1, <1>3
    <2>2. Init => IInv
        BY <1>2, <1>3
    <2> QED
        BY <2>1, <2>2, PTL DEF Spec
<1>4. CASE ~(OneHandler /\ EnoughIds)
    BY <1>4
<1> QED
    BY <1>3, <1>4

\* The types of the queues, the threads and the pending requests.
THEOREM SignalingTypes == Spec => []SignalTypes
    BY Types_Init, Types_Step, PTL DEF Spec

\* addFileForPeer takes any answer the server sends it, so it must find the
\* answer to its own request: whoever asks, leaves or forgets a connection,
\* whichever requests age and however many client threads have read the next
\* identifier and not recorded their request, a peer that waits has exactly one
\* request or answer under way, and a peer that does not wait has none. (A
\* request is recorded in one step: see RecordRequest.)
THEOREM OneTraceEach ==
    ASSUME EnoughIds
    PROVE  Spec => []OneTracePerRequest
<1>1. TracesInv => OneTracePerRequest
    BY DEF TracesInv, TraceInv, OneTracePerRequest, SignalTypes
<1> QED
    BY <1>1, TracesInv_Always, PTL

\* A request in waitsForResponse has been asked of the other peer once, if
\* that peer is still here: the message, the thread that holds it or its
\* answer is on the way, and never twice.
THEOREM AskedOnce ==
    ASSUME OneHandler, EnoughIds
    PROVE  Spec => []RequestOnItsWay
<1>1. IInv => RequestOnItsWay
    BY DEF IInv
<1> QED
    BY <1>1, IInv_Always, PTL

\* A peer connects with the ICE data of the peer it asked for, under whose
\* name it stores the connection.
THEOREM RightPeer ==
    ASSUME OneHandler, EnoughIds
    PROVE  Spec => []AnswersToAsker
<1>1. IInv => AnswersToAsker
    BY DEF IInv
<1> QED
    BY <1>1, IInv_Always, PTL

-----------------------------------------------------------------------------
(* Who is held up.                                                         *)

\* A client that is here has its thread at the server.
ServedInv == here \subseteq served

LEMMA Served_Always == Spec => []ServedInv
<1>1. Init => ServedInv
    BY DEF Init, ServedInv
<1>2. ASSUME ServedInv, [Next]_vars PROVE ServedInv'
    <2>1. ASSUME NEW p \in Peer, Leave(p) PROVE ServedInv'
        BY <1>2, <2>1 DEF Leave, ServedInv
    <2>2. ASSUME NEW p \in Peer, CleanUp(p) PROVE ServedInv'
        BY <1>2, <2>2 DEF CleanUp, ServedInv
    <2>3. ASSUME NEW p \in Peer, PeerStep(p) \/ Attempt(p) PROVE UNCHANGED <<here, served>>
        BY <2>3 DEF PeerStep, TakeAnswer, TakeRequest, AnswerRequest, Attempt, AttemptFails, Connect
    <2>4. ASSUME NEW p \in Peer, ServerStep(p) PROVE CleanUp(p) \/ UNCHANGED <<here, served>>
        BY <2>4 DEF ServerStep, SendQueued, HandleGetUserICEInfo, RecordRequest, HandleAnswer
    <2>5. ASSUME NEW p \in Peer, NEW q \in Peer, RequestConnection(p, q) \/ ForgetConnection(p, q)
          PROVE  UNCHANGED <<here, served>>
        BY <2>5 DEF RequestConnection, ForgetConnection
    <2>6. ASSUME NEW k \in Id, Age(k) PROVE UNCHANGED <<here, served>>
        BY <2>6 DEF Age
    <2>7. CASE UNCHANGED <<here, served>>
        BY <1>2, <2>7 DEF ServedInv
    <2>8. CASE UNCHANGED vars
        BY <2>7, <2>8 DEF vars
    <2> QED
        BY <1>2, <2>1, <2>2, <2>3, <2>4, <2>5, <2>6, <2>7, <2>8 DEF Next
<1> QED
    BY <1>1, <1>2, PTL DEF Spec

\* receive(isRelevant) finds a message of the wanted kind if there is one.
LEMMA FirstIsFound ==
    ASSUME SignalTypes, NEW p \in Peer, NEW codes, First(p, codes) = 0
    PROVE  \A m \in Range(inbox[p]) : m.code \notin codes
<1> DEFINE I == {i \in 1..Len(inbox[p]) : inbox[p][i].code \in codes}
<1>1. inbox[p] \in Seq(MsgsOf(DownCode, Id))
    BY DEF SignalTypes
<1>2. First(p, codes) = IF I # {} THEN Min(I) ELSE 0
    BY DEF First, SelectInSeq
<1>3. ASSUME I # {} PROVE FALSE
    <2>1. \E i \in I : TRUE
        BY <1>3
    <2>2. I \in SUBSET Nat
        BY <1>1
    <2>3. Min(I) \in I
        BY <2>1, <2>2, LeastPlace
    <2> QED
        BY <1>1, <1>2, <1>3, <2>3
<1> QED
    BY <1>1, <1>3 DEF Range

\* The request of a peer that waits while all are held up is pending: it is
\* nowhere else, as all queues and the handlers are empty.
LEMMA HeldUpIsPending ==
    ASSUME TracesInv, ServedInv, AllHeldUp, NEW p \in here, add[p].pc = "wait"
    PROVE  \E k \in DOMAIN waits : waits[k][1] = p
<1>1. p \in Peer /\ SignalTypes
    BY DEF TracesInv, SignalTypes
<1>2. uplink[p] = <<>> /\ queue[p] = <<>> /\ handler[p] = NotHandling
    BY <1>1 DEF ServedInv, AllHeldUp, InHandler
<1>3. Count(uplink[p], Asks) = 0 /\ Count(queue[p], Answers) = 0
    BY <1>2, CountNone
<1>4. Count(inbox[p], Answers) = 0
    <2>1. \A m \in Range(inbox[p]) : m.code \notin Answer
        BY <1>1, FirstIsFound DEF AllHeldUp
    <2>2. inbox[p] \in Seq(MsgsOf(DownCode, Id))
        BY <1>1 DEF SignalTypes
    <2>3. \A m \in Range(inbox[p]) : m \notin Answers
        BY <2>1 DEF Answers, MsgsOf
    <2> QED
        BY <2>2, <2>3, CountedIsThere
<1>5. Traces(p) = 1
    BY <1>1 DEF TracesInv, TraceInv
<1>6. Cardinality(Pending(p)) = 1
    BY <1>1, <1>2, <1>3, <1>4, <1>5, PendingFinite DEF Traces
<1>7. Pending(p) # {}
    BY <1>6, FS_EmptySet
<1> QED
    BY <1>7 DEF Pending

\* Who has been asked, and is here, has the request and waits itself, as it
\* would answer if it could have the mutex.
LEMMA AskedHeldUp ==
    ASSUME SignalTypes, RequestOnItsWay, ServedInv, AllHeldUp,
           NEW k \in DOMAIN waits, waits[k][2] \in here
    PROVE  add[waits[k][2]].pc = "wait"
<1> DEFINE q == waits[k][2]
<1>1. q \in Peer /\ q \in here /\ q \in served /\ k \in Id
    BY DEF SignalTypes, ServedInv
<1> HIDE DEF q
<1>2. Steps(k, q) = 1
    BY DEF RequestOnItsWay, q
<1>3. Count(queue[q], PassedOn(k)) = 0 /\ Count(uplink[q], Replies(k)) = 0
    BY <1>1, CountNone DEF AllHeldUp
<1>4. share[q].pc = "lock"
    <2>1. share[q].pc \in {"receive", "lock", "connect"} /\ share[q].pc # "connect"
        BY <1>1 DEF SignalTypes, ShareType, AllHeldUp
    <2>2. CASE share[q].pc = "receive"
        <3>1. \A m \in Range(inbox[q]) : m.code # "AuthorizeICEConnection"
            BY <1>1, <2>2, FirstIsFound DEF AllHeldUp
        <3>2. inbox[q] \in Seq(MsgsOf(DownCode, Id))
            BY <1>1 DEF SignalTypes
        <3>3. \A m \in Range(inbox[q]) : m \notin PassedOn(k)
            BY <3>1 DEF PassedOn, MsgsOf
        <3>4. Count(inbox[q], PassedOn(k)) = 0
            BY <3>2, <3>3, CountedIsThere
        <3> QED
            BY <1>2, <1>3, <2>2, <3>4 DEF Steps
    <2> QED
        BY <2>1, <2>2
<1>5. ~MutexFree(q) /\ add[q].pc # "connect"
    BY <1>1, <1>4 DEF AllHeldUp
<1>6. add[q].pc \in {"idle", "wait", "connect"}
    BY <1>1 DEF SignalTypes, AddType
<1> QED
    BY <1>4, <1>5, <1>6 DEF MutexFree, q

\* addFileForPeer holds the mutex while it waits for the answer, so peers can
\* hold each other up. But that is all that can go wrong: however many peers
\* ask, answer, leave and forget connections, when no thread can go on,
\* whoever waits does so in a circle, or for one that has left.
THEOREM OnlyCirclesHoldUp ==
    ASSUME OneHandler, EnoughIds
    PROVE  Spec => []HeldUpInCircles
<1>1. ASSUME IInv, ServedInv, AllHeldUp, NEW p \in here, add[p].pc = "wait"
      PROVE  InCircle(p)
    <2> DEFINE Waiting == {q \in here : add[q].pc = "wait"}
    <2>1. TracesInv /\ SignalTypes /\ RequestOnItsWay
        BY <1>1 DEF IInv, TracesInv
    <2>2. here \subseteq Peer
        BY <2>1 DEF SignalTypes
    <2>3. ASSUME NEW q \in Waiting
          PROVE  /\ <<q, add[q].peer>> \in Range(waits)
                 /\ add[q].peer \in Waiting \/ add[q].peer \notin here
        <3>1. q \in here /\ q \in Peer /\ add[q].pc = "wait"
            BY <2>2
        <3>2. PICK k \in DOMAIN waits : waits[k][1] = q
            BY <1>1, <2>1, <3>1, HeldUpIsPending
        <3>3. waits[k] \in Peer \X Peer
            BY <2>1 DEF SignalTypes
        <3>4. waits[k][2] = add[q].peer
            BY <1>1, <3>1, <3>2 DEF IInv, NamedInv, Named, Pending
        <3>5. waits[k] = <<q, add[q].peer>>
            BY <3>2, <3>3, <3>4
        <3>6. add[q].peer \in here => add[add[q].peer].pc = "wait"
            BY <1>1, <2>1, <3>4, AskedHeldUp
        <3> QED
            BY <3>5, <3>6 DEF Range
    <2>4. Waiting \in SUBSET Peer /\ p \in Waiting
        BY <1>1, <2>2
    <2>5. \A q \in Waiting : add[q].pc = "wait"
        OBVIOUS
    <2> HIDE DEF Waiting
    <2> QED
        BY <2>3, <2>4, <2>5 DEF InCircle
<1>2. IInv /\ ServedInv => HeldUpInCircles
    BY <1>1 DEF HeldUpInCircles
<1> QED
    BY <1>2, IInv_Always, Served_Always, PTL

-----------------------------------------------------------------------------
(* The messages: what is written is what is read (Messages).               *)

MessageNames ==
    {"code", "size", "userId", "iceCandidateInfo", "requestId", "requestID", "message", "fileId",
     "myId", "id", "user", "from", "hash", "initVector", "pieceIndex", "blockIndex", "blocksCount",
     "block", "field"}
MessageFields == Fields(MessageNames)

\* A message of which every field is found, and the end.
Arrives(size, fields, read) ==
    fields \in Seq(MessageFields) /\ size = TotalLength(fields) /\ read = Written(fields)

\* A field of the messages.
LEMMA MessageField ==
    ASSUME NEW name \in MessageNames, NEW n \in Nat
    PROVE  Field(name, n) \in MessageFields /\ Field(name, n).name = name /\ Field(name, n).length = n
    BY FieldIs DEF MessageFields

\* The code and the size take five bytes.
LEMMA FiveBytes ==
    ASSUME NEW fields \in Seq(MessageFields)
    PROVE  /\ TotalLength(fields) \in Nat
           /\ TotalLength(Header \o fields) = 5 + TotalLength(fields)
<1>1. Header = <<Field("code", 1), Field("size", 4)>>
    BY DEF Header, Uint32
<1>2. /\ Field("code", 1) \in MessageFields /\ Field("code", 1).length = 1
      /\ Field("size", 4) \in MessageFields /\ Field("size", 4).length = 4
    BY MessageField DEF MessageNames
<1> DEFINE code == Field("code", 1)
           size == Field("size", 4)
<1> HIDE DEF code, size
<1>3. /\ <<code, size>> \in Seq(MessageFields) /\ TotalLength(<<code, size>>) = code.length + size.length
    BY <1>2, TwoFields DEF MessageFields, code, size
<1>4. Header \in Seq(MessageFields) /\ TotalLength(Header) = 5
    BY <1>1, <1>2, <1>3 DEF code, size
<1>5. TotalLength(Header \o fields) = TotalLength(Header) + TotalLength(fields) /\ TotalLength(fields) \in Nat
    BY <1>4, Joined DEF MessageFields
<1> QED
    BY <1>4, <1>5

\* Such a message is read, and what follows it.
LEMMA ArrivesReads ==
    ASSUME NEW e, NEW size, NEW fields, NEW read, Arrives(size, fields, read),
           e.message = Serialized(size, fields), e.read = read
    PROVE  ReadsBack(e) /\ ReadsOn(e) /\ AcceptedDatagram(e.message)
<1>1. e.message.size = size /\ e.message.fields = fields
    BY DEF Serialized
<1>2. OnTheWire(e.message) = 5 + size /\ size \in Nat
    BY <1>1, FiveBytes DEF OnTheWire, Arrives
<1>3. ReadsBack(e)
    BY <1>1 DEF ReadsBack, Arrives
<1>4. ReadFromStream(e.message) = OnTheWire(e.message)
    BY <1>1, <1>2 DEF ReadFromStream
<1>5. AcceptedDatagram(e.message)
    BY <1>1, <1>2 DEF AcceptedDatagram
<1> QED
    BY <1>3, <1>4, <1>5 DEF ReadsOn

\* A message without a field,
LEMMA NoneArrives == Arrives(0, <<>>, {})
    BY EmptyWritten DEF Arrives

\* with one,
LEMMA OneArrives ==
    ASSUME NEW a \in MessageNames, NEW m \in Nat
    PROVE  Arrives(m, <<Field(a, m)>>, {Placed(a, 0, m)})
<1> DEFINE f == Field(a, m)
<1>1. f \in MessageFields /\ f.name = a /\ f.length = m
    BY MessageField
<1> HIDE DEF f
<1>2. <<f>> \in Seq(MessageFields) /\ TotalLength(<<f>>) = m /\ Written(<<f>>) = {Placed(a, 0, m)}
    BY <1>1, OneField DEF MessageFields
<1> QED
    BY <1>2 DEF Arrives, f

\* two
LEMMA TwoArrive ==
    ASSUME NEW a \in MessageNames, NEW b \in MessageNames, NEW m \in Nat, NEW n \in Nat
    PROVE  Arrives(m + n, <<Field(a, m), Field(b, n)>>, {Placed(a, 0, m), Placed(b, m, n)})
<1> DEFINE f == Field(a, m)
           g == Field(b, n)
<1>1. /\ f \in MessageFields /\ f.name = a /\ f.length = m
      /\ g \in MessageFields /\ g.name = b /\ g.length = n
    BY MessageField
<1> HIDE DEF f, g
<1>2. /\ <<f, g>> \in Seq(MessageFields) /\ TotalLength(<<f, g>>) = m + n
      /\ Written(<<f, g>>) = {Placed(a, 0, m), Placed(b, m, n)}
    BY <1>1, TwoFields DEF MessageFields
<1> QED
    BY <1>2 DEF Arrives, f, g

\* or three of them.
LEMMA ThreeArrive ==
    ASSUME NEW a \in MessageNames, NEW b \in MessageNames, NEW c \in MessageNames,
           NEW m \in Nat, NEW n \in Nat, NEW k \in Nat
    PROVE  Arrives(m + n + k, <<Field(a, m), Field(b, n), Field(c, k)>>,
                   {Placed(a, 0, m), Placed(b, m, n), Placed(c, m + n, k)})
<1> DEFINE f == Field(a, m)
           g == Field(b, n)
           h == Field(c, k)
<1>1. /\ f \in MessageFields /\ f.name = a /\ f.length = m
      /\ g \in MessageFields /\ g.name = b /\ g.length = n
      /\ h \in MessageFields /\ h.name = c /\ h.length = k
    BY MessageField
<1> HIDE DEF f, g, h
<1>2. /\ <<f, g, h>> \in Seq(MessageFields) /\ TotalLength(<<f, g, h>>) = m + n + k
      /\ Written(<<f, g, h>>) = {Placed(a, 0, m), Placed(b, m, n), Placed(c, m + n, k)}
    BY <1>1, ThreeFields DEF MessageFields
<1> QED
    BY <1>2 DEF Arrives, f, g, h

\* One after the other.
LEMMA BothArrive ==
    ASSUME NEW s \in Nat, NEW t \in Nat, NEW a, NEW b, NEW p, NEW q,
           Arrives(s, a, p), Arrives(t, b, q)
    PROVE  Arrives(s + t, a \o b, p \cup Later(q, s))
<1>1. /\ a \o b \in Seq(MessageFields) /\ TotalLength(a \o b) = TotalLength(a) + TotalLength(b)
      /\ Written(a \o b) = Written(a) \cup Later(Written(b), TotalLength(a))
    BY Joined DEF Arrives, MessageFields
<1> QED
    BY <1>1 DEF Arrives

\* The names of the fields.
LEMMA Names ==
    /\ "userId" \in MessageNames /\ "iceCandidateInfo" \in MessageNames /\ "requestId" \in MessageNames
    /\ "requestID" \in MessageNames /\ "message" \in MessageNames /\ "fileId" \in MessageNames
    /\ "myId" \in MessageNames /\ "id" \in MessageNames /\ "user" \in MessageNames
    /\ "from" \in MessageNames /\ "hash" \in MessageNames /\ "initVector" \in MessageNames
    /\ "pieceIndex" \in MessageNames /\ "blockIndex" \in MessageNames /\ "blocksCount" \in MessageNames
    /\ "block" \in MessageNames /\ "field" \in MessageNames
    BY DEF MessageNames

\* What a client sends, the server reads.
LEMMA ServerReads ==
    ASSUME NEW n \in Nat
    PROVE  \A c \in DOMAIN ToServer(0) : ReadsOn(ToServer(n)[c])
<1>1. ReadsOn(ToServer(n).GetUserICEInfo)
    <2> DEFINE e == ToServer(n).GetUserICEInfo
               fields == <<Field("userId", 32), Field("iceCandidateInfo", n)>>
               read == {Placed("userId", 0, 32), Placed("iceCandidateInfo", 32, n)}
    <2>1. e.message = Serialized(32 + n, fields)
        BY DEF ToServer, Exchange, GetUserICEInfo, Identifier
    <2>2. e.read = {Placed("userId", 0, 32), Placed("iceCandidateInfo", 32, (32 + n) - 32)}
        BY DEF ToServer, Exchange, Serialized, GetUserICEInfo, ReadGetUserICEInfo
    <2>3. (32 + n) - 32 = n
        OBVIOUS
    <2>4. e.read = read
        BY <2>2, <2>3
    <2>5. Arrives(32 + n, fields, read)
        <3>1. "userId" \in MessageNames /\ "iceCandidateInfo" \in MessageNames
            BY Names, Zenon
        <3>2. 32 \in Nat
            OBVIOUS
        <3> QED
            BY <3>1, <3>2, TwoArrive, ZenonT(60)
    <2> HIDE DEF e, fields, read
    <2>6. ReadsOn(e)
        BY <2>1, <2>4, <2>5, ArrivesReads
    <2> QED
        BY <2>6 DEF e
<1>2. ReadsOn(ToServer(n).AuthorizedICEConnection)
    <2> DEFINE e == ToServer(n).AuthorizedICEConnection
               fields == <<Field("iceCandidateInfo", n), Field("requestId", 2)>>
               read == {Placed("iceCandidateInfo", 0, n), Placed("requestId", n, 2)}
    <2>1. e.message = Serialized(2 + n, fields)
        BY DEF ToServer, Exchange, AuthorizedICEConnection, Uint16
    <2>2. e.read = {Placed("iceCandidateInfo", 0, (2 + n) - 2), Placed("requestId", (2 + n) - 2, 2)}
        BY DEF ToServer, Exchange, Serialized, AuthorizedICEConnection, ReadAuthorizedICE
    <2>3. (2 + n) - 2 = n
        OBVIOUS
    <2>4. e.read = read
        BY <2>2, <2>3
    <2>7. Arrives(n + 2, fields, read)
        <3>1. "iceCandidateInfo" \in MessageNames /\ "requestId" \in MessageNames
            BY Names, Zenon
        <3>2. 2 \in Nat
            OBVIOUS
        <3> QED
            BY <3>1, <3>2, TwoArrive, ZenonT(60)
    <2>8. n + 2 = 2 + n
        OBVIOUS
    <2>5. Arrives(2 + n, fields, read)
        BY <2>7, <2>8
    <2> HIDE DEF e, fields, read
    <2>6. ReadsOn(e)
        BY <2>1, <2>4, <2>5, ArrivesReads
    <2> QED
        BY <2>6 DEF e
<1>3. ReadsOn(ToServer(n).AlreadyConnected)
    <2> DEFINE e == ToServer(n).AlreadyConnected
               fields == <<Field("requestID", 2)>>
               read == {Placed("requestID", 0, 2)}
    <2>1. e.message = Serialized(2, fields)
        BY DEF ToServer, Exchange, AlreadyConnected, Uint16
    <2>4. e.read = read
        BY DEF ToServer, Exchange, Serialized, AlreadyConnected, ReadAlreadyConnected
    <2>5. Arrives(2, fields, read)
        BY OneArrives, Names
    <2> HIDE DEF e, fields, read
    <2>6. ReadsOn(e)
        BY <2>1, <2>4, <2>5, ArrivesReads
    <2> QED
        BY <2>6 DEF e
<1>4. ReadsOn(ToServer(n).FullCapacity)
    <2> DEFINE e == ToServer(n).FullCapacity
               fields == <<Field("requestID", 2)>>
               read == {Placed("requestID", 0, 2)}
    <2>1. e.message = Serialized(2, fields)
        BY DEF ToServer, Exchange, FullCapacity, Uint16
    <2>4. e.read = read
        BY DEF ToServer, Exchange, Serialized, FullCapacity, ReadFullCapacity
    <2>5. Arrives(2, fields, read)
        BY OneArrives, Names
    <2> HIDE DEF e, fields, read
    <2>6. ReadsOn(e)
        BY <2>1, <2>4, <2>5, ArrivesReads
    <2> QED
        BY <2>6 DEF e
<1>5. ReadsOn(ToServer(n).DebuggingStringMessage)
    <2> DEFINE e == ToServer(n).DebuggingStringMessage
               fields == <<Field("message", n)>>
               read == {Placed("message", 0, n)}
    <2>1. e.message = Serialized(n, fields)
        BY DEF ToServer, Exchange, DebuggingString
    <2>4. e.read = read
        BY DEF ToServer, Exchange, Serialized, DebuggingString, ReadDebuggingString
    <2>5. Arrives(n, fields, read)
        BY OneArrives, Names
    <2> HIDE DEF e, fields, read
    <2>6. ReadsOn(e)
        BY <2>1, <2>4, <2>5, ArrivesReads
    <2> QED
        BY <2>6 DEF e
<1>6. ReadsOn(ToServer(n).UserListReq)
    <2> DEFINE e == ToServer(n).UserListReq
               fields == <<Field("fileId", 32)>>
               read == {Placed("fileId", 0, 32)}
    <2>1. e.message = Serialized(32, fields)
        BY DEF ToServer, Exchange, UserListRequest, Identifier
    <2>4. e.read = read
        BY DEF ToServer, Exchange, Serialized, UserListRequest, ReadUserListRequest
    <2>5. Arrives(32, fields, read)
        BY OneArrives, Names
    <2> HIDE DEF e, fields, read
    <2>6. ReadsOn(e)
        BY <2>1, <2>4, <2>5, ArrivesReads
    <2> QED
        BY <2>6 DEF e
<1>7. ReadsOn(ToServer(n).Store)
    <2> DEFINE e == ToServer(n).Store
               fields == <<Field("myId", 32), Field("fileId", 32)>>
               read == {Placed("myId", 0, 32), Placed("fileId", 32, 32)}
    <2>1. e.message = Serialized(32 + 32, fields)
        BY DEF ToServer, Exchange, StoreRequest, Identifier
    <2>4. e.read = read
        BY DEF ToServer, Exchange, Serialized, StoreRequest, ReadStoreRequest
    <2>5. Arrives(32 + 32, fields, read)
        <3>1. "myId" \in MessageNames /\ "fileId" \in MessageNames
            BY Names, Zenon
        <3>2. 32 \in Nat
            OBVIOUS
        <3> QED
            BY <3>1, <3>2, TwoArrive, ZenonT(60)
    <2> HIDE DEF e, fields, read
    <2>6. ReadsOn(e)
        BY <2>1, <2>4, <2>5, ArrivesReads
    <2> QED
        BY <2>6 DEF e
<1>8. DOMAIN ToServer(0) = {"GetUserICEInfo", "AuthorizedICEConnection", "AlreadyConnected", "FullCapacity",
                            "DebuggingStringMessage", "UserListReq", "Store"}
    BY DEF ToServer
<1> QED
    BY <1>1, <1>2, <1>3, <1>4, <1>5, <1>6, <1>7, <1>8

\* A status has nothing to read.
LEMMA StatusReads == ReadsOn(Status)
<1>1. Status.message = Serialized(0, <<>>) /\ Status.read = {}
    BY DEF Status, Exchange
<1> QED
    BY <1>1, NoneArrives, ArrivesReads

\* The places of the users of a list.
LEMMA UsersArrive ==
    ASSUME NEW u \in Nat
    PROVE  Arrives(32 * u, [i \in 1..u |-> Identifier("user")], {Placed("user", 32 * (i - 1), 32) : i \in 1..u})
<1> DEFINE users == [i \in 1..u |-> Identifier("user")]
           t == [i \in 0..u |-> 32 * i]
<1>1. Field("user", 32) \in MessageFields /\ Field("user", 32).name = "user" /\ Field("user", 32).length = 32
    BY MessageField, Names
<1>2. /\ users \in Seq(MessageFields) /\ Len(users) = u
      /\ \A i \in 1..u : users[i].name = "user" /\ users[i].length = 32
    BY <1>1 DEF Identifier
<1> HIDE DEF users
<1>3. Sized(users)
    BY <1>2, SizedFields DEF MessageFields
<1>4. \A i \in 1..u : t[i] = t[i - 1] + 32 /\ t[i - 1] = 32 * (i - 1)
    OBVIOUS
<1>5. t[0] = 0 /\ DOMAIN t = 0..u /\ t[u] = 32 * u
    OBVIOUS
<1> HIDE DEF t
<1>6. Totals(users, t)
    BY <1>2, <1>4, <1>5 DEF Totals
<1>7. /\ TotalLength(users) = t[u]
      /\ Written(users) = {Placed(users[i].name, t[i - 1], users[i].length) : i \in 1..u}
    BY <1>2, <1>3, <1>6, Places
<1>8. Written(users) = {Placed("user", 32 * (i - 1), 32) : i \in 1..u}
    <2>1. \A i \in 1..u : /\ users[i].name = "user" /\ t[i - 1] = 32 * (i - 1)
                          /\ users[i].length = 32
        BY <1>2, <1>4, Zenon
    <2>2. \A i \in 1..u : Placed(users[i].name, t[i - 1], users[i].length) = Placed("user", 32 * (i - 1), 32)
        BY <2>1, Zenon
    <2>3. {Placed(users[i].name, t[i - 1], users[i].length) : i \in 1..u}
          = {Placed("user", 32 * (i - 1), 32) : i \in 1..u}
        BY <2>2, Zenon
    <2> QED
        BY <1>7, <2>3, Zenon
<1>9. users \in Seq(MessageFields) /\ 32 * u = TotalLength(users)
    BY <1>2, <1>5, <1>7, Zenon
<1>10. Arrives(32 * u, users, {Placed("user", 32 * (i - 1), 32) : i \in 1..u})
    BY <1>8, <1>9, Zenon DEF Arrives
<1> QED
    BY <1>10, Zenon DEF users

\* They begin where the client looks for them.
LEMMA UserPlaces ==
    ASSUME NEW u \in Nat
    PROVE  Later({Placed("user", 32 * (i - 1), 32) : i \in 1..u}, 32)
           = {Placed("user", i, 32) : i \in {j \in 32..(u * 32 + 32 - 1) : j % 32 = 0}}
<1> DEFINE P == {Placed("user", 32 * (i - 1), 32) : i \in 1..u}
           J == {j \in 32..(u * 32 + 32 - 1) : j % 32 = 0}
<1>1. Later(P, 32) = {Placed("user", 32 * i, 32) : i \in 1..u}
    <2>1. \A i \in 1..u : /\ Placed("user", 32 * (i - 1), 32).name = "user"
                          /\ Placed("user", 32 * (i - 1), 32).start = 32 * (i - 1)
                          /\ Placed("user", 32 * (i - 1), 32).length = 32
        BY DEF Placed
    <2>2. \A i \in 1..u : 32 + 32 * (i - 1) = 32 * i
        OBVIOUS
    <2>3. Later(P, 32) = {Placed("user", 32 + 32 * (i - 1), 32) : i \in 1..u}
        BY <2>1 DEF Later
    <2> QED
        BY <2>2, <2>3
<1>2. ASSUME NEW i \in 1..u PROVE 32 * i \in J
    OBVIOUS
<1>3. ASSUME NEW j \in J PROVE \E i \in 1..u : j = 32 * i
    <2>1. j \div 32 \in 1..u /\ j = 32 * (j \div 32)
        BY <1>3
    <2> QED
        BY <2>1
<1> HIDE DEF J
<1>4. {Placed("user", 32 * i, 32) : i \in 1..u} = {Placed("user", j, 32) : j \in J}
    BY <1>2, <1>3
<1> QED
    BY <1>1, <1>4 DEF J

\* What the server sends, a client reads.
LEMMA ClientReads ==
    ASSUME NEW n \in Nat, len(n) = n, NEW u \in Nat
    PROVE  \A c \in DOMAIN ToClient(0, 0) : ReadsOn(ToClient(n, u)[c])
<1>1. ReadsOn(ToClient(n, u).NewID)
    <2> DEFINE e == ToClient(n, u).NewID
               fields == <<Field("id", 32)>>
               read == {Placed("id", 0, 32)}
    <2>1. e.message = Serialized(32, fields)
        BY DEF ToClient, Exchange, NewId, Identifier
    <2>4. e.read = read
        BY DEF ToClient, Exchange, Serialized, NewId, ReadNewId
    <2>5. Arrives(32, fields, read)
        BY OneArrives, Names
    <2> HIDE DEF e, fields, read
    <2>6. ReadsOn(e)
        BY <2>1, <2>4, <2>5, ArrivesReads
    <2> QED
        BY <2>6 DEF e
<1>2. ReadsOn(ToClient(n, u).UserAuthorizedICEData)
    <2> DEFINE e == ToClient(n, u).UserAuthorizedICEData
               fields == <<Field("iceCandidateInfo", n)>>
               read == {Placed("iceCandidateInfo", 0, n)}
    <2>1. e.message = Serialized(n, fields)
        BY DEF ToClient, Exchange, UserAuthorizedICEData
    <2>4. e.read = read
        BY DEF ToClient, Exchange, Serialized, UserAuthorizedICEData, ReadUserAuthorizedICEData
    <2>5. Arrives(n, fields, read)
        BY OneArrives, Names
    <2> HIDE DEF e, fields, read
    <2>6. ReadsOn(e)
        BY <2>1, <2>4, <2>5, ArrivesReads
    <2> QED
        BY <2>6 DEF e
<1>3. ReadsOn(ToClient(n, u).AuthorizeICEConnection)
    <2> DEFINE e == ToClient(n, u).AuthorizeICEConnection
               fields == <<Field("from", 32), Field("iceCandidateInfo", n), Field("requestId", 2)>>
               read == {Placed("from", 0, 32), Placed("iceCandidateInfo", 32, n), Placed("requestId", 32 + n, 2)}
    <2>1. e.message = Serialized(2 + n + 32, fields)
        BY Zenon DEF ToClient, Exchange, AuthorizeICEConnection, Identifier, Uint16
    <2>2. e.read = {Placed("from", 0, 32), Placed("iceCandidateInfo", 32, (2 + n + 32) - 2 - 32),
                     Placed("requestId", (2 + n + 32) - 2, 2)}
        BY Zenon DEF ToClient, Exchange, Serialized, AuthorizeICEConnection, ReadAuthorizeICEConnection
    <2>3. (2 + n + 32) - 2 - 32 = n /\ (2 + n + 32) - 2 = 32 + n
        OBVIOUS
    <2>4. e.read = read
        BY <2>2, <2>3
    <2>7. Arrives(32 + n + 2, fields, read)
        <3>1. "from" \in MessageNames /\ "iceCandidateInfo" \in MessageNames /\ "requestId" \in MessageNames
            BY Names, Zenon
        <3>2. 32 \in Nat /\ 2 \in Nat
            OBVIOUS
        <3> QED
            BY <3>1, <3>2, ThreeArrive, ZenonT(60)
    <2>8. 32 + n + 2 = 2 + n + 32
        OBVIOUS
    <2>5. Arrives(2 + n + 32, fields, read)
        BY <2>7, <2>8
    <2> HIDE DEF e, fields, read
    <2>6. ReadsOn(e)
        BY <2>1, <2>4, <2>5, ArrivesReads
    <2> QED
        BY <2>6 DEF e
<1>4. ReadsOn(ToClient(n, u).UserListRes)
    <2> DEFINE e == ToClient(n, u).UserListRes
               users == [i \in 1..u |-> Identifier("user")]
               fields == <<Field("fileId", 32)>> \o users
               read == {Placed("fileId", 0, 32)}
                       \cup {Placed("user", i, 32) : i \in {j \in 32..(u * 32 + 32 - 1) : j % 32 = 0}}
    <2>1. e.message = Serialized(u * 32 + 32, fields)
        BY DEF ToClient, Exchange, UserList, Identifier
    <2>2. e.read = read
        BY DEF ToClient, Exchange, Serialized, UserList, ReadUserList
    <2> DEFINE first == <<Field("fileId", 32)>>
               places == {Placed("user", 32 * (i - 1), 32) : i \in 1..u}
    <2>3. Arrives(32, first, {Placed("fileId", 0, 32)})
        BY OneArrives, Names
    <2>4. Arrives(32 * u, users, places)
        BY UsersArrive
    <2>5. read = {Placed("fileId", 0, 32)} \cup Later(places, 32)
        BY UserPlaces
    <2>6. 32 + 32 * u = u * 32 + 32 /\ 32 * u \in Nat
        OBVIOUS
    <2> HIDE DEF e, users, read, first, places
    <2>7. Arrives(32 + 32 * u, first \o users, {Placed("fileId", 0, 32)} \cup Later(places, 32))
        BY <2>3, <2>4, <2>6, BothArrive
    <2>8. fields = first \o users
        BY DEF first
    <2> HIDE DEF fields
    <2>9. Arrives(u * 32 + 32, fields, read)
        BY <2>5, <2>6, <2>7, <2>8
    <2>10. ReadsOn(e)
        BY <2>1, <2>2, <2>9, ArrivesReads
    <2> QED
        BY <2>10 DEF e
<1>5. /\ ReadsOn(ToClient(n, u).UserAlreadyConnected) /\ ReadsOn(ToClient(n, u).UserFullCapacity)
      /\ ReadsOn(ToClient(n, u).ExistsOpositeRequest) /\ ReadsOn(ToClient(n, u).StoreSuccess)
      /\ ReadsOn(ToClient(n, u).StoreFailure)
    BY StatusReads DEF ToClient
<1>6. DOMAIN ToClient(0, 0) = {"NewID", "UserAuthorizedICEData", "AuthorizeICEConnection", "UserListRes",
                               "UserAlreadyConnected", "UserFullCapacity", "ExistsOpositeRequest",
                               "StoreSuccess", "StoreFailure"}
    BY DEF ToClient
<1> QED
    BY <1>1, <1>2, <1>3, <1>4, <1>5, <1>6

-----------------------------------------------------------------------------
\* Fields that follow those all messages between peers begin with.
LEMMA TorrentArrives ==
    ASSUME NEW s \in Nat, NEW rest, NEW places, Arrives(s, rest, places)
    PROVE  Arrives(Base + s, <<Identifier("fileId"), Identifier("hash"), Key("initVector")>> \o rest,
                   ReadTorrent \cup Later(places, Base))
<1> DEFINE first == <<Field("fileId", 32), Field("hash", 32), Field("initVector", 16)>>
           read == {Placed("fileId", 0, 32), Placed("hash", 32, 32), Placed("initVector", 32 + 32, 16)}
<1>1. Arrives(32 + 32 + 16, first, read)
    <2>1. "fileId" \in MessageNames /\ "hash" \in MessageNames /\ "initVector" \in MessageNames
        BY Names, Zenon
    <2>2. 32 \in Nat /\ 16 \in Nat
        OBVIOUS
    <2> QED
        BY <2>1, <2>2, ThreeArrive, ZenonT(60)
<1>2. first = <<Identifier("fileId"), Identifier("hash"), Key("initVector")>>
    BY DEF Identifier, Key
<1>3. read = ReadTorrent
    BY DEF ReadTorrent, Base
<1>4. 32 + 32 + 16 = Base /\ Base \in Nat
    BY DEF Base
<1> HIDE DEF first, read
<1> QED
    BY <1>1, <1>2, <1>3, <1>4, BothArrive

\* Such a message is read, and no datagram with it refused.
LEMMA TorrentReads ==
    ASSUME NEW s \in Nat, NEW rest, NEW places, Arrives(s, rest, places), NEW e,
           e.message = Torrent(s, rest), e.read = ReadTorrent \cup Later(places, Base)
    PROVE  ReadsBack(e) /\ AcceptedDatagram(e.message)
<1> DEFINE fields == <<Identifier("fileId"), Identifier("hash"), Key("initVector")>> \o rest
<1>1. e.message = Serialized(32 * 2 + 16 + s, fields)
    BY DEF Torrent
<1>2. 32 * 2 + 16 + s = Base + s
    BY DEF Base
<1>3. Arrives(Base + s, fields, ReadTorrent \cup Later(places, Base))
    BY TorrentArrives
<1> HIDE DEF fields
<1> QED
    BY <1>1, <1>2, <1>3, ArrivesReads

\* Where the first field of its own is,
LEMMA LaterFirst ==
    ASSUME NEW a, NEW m
    PROVE  Later({Placed(a, 0, m)}, Base) = {Placed(a, Base, m)}
<1>1. Base \in Nat
    BY DEF Base
<1>2. Base + 0 = Base
    BY <1>1
<1> QED
    BY <1>2 DEF Placed, Later

\* and where three of them are.
LEMMA LaterThree ==
    ASSUME NEW a, NEW b, NEW c, NEW k, NEW m, NEW n
    PROVE  Later({Placed(a, 0, k), Placed(b, 4, m), Placed(c, 4 + 2, n)}, Base)
           = {Placed(a, Base, k), Placed(b, Base + 4, m), Placed(c, Base + 6, n)}
<1>1. Base \in Nat
    BY DEF Base
<1>2. Base + 0 = Base /\ Base + (4 + 2) = Base + 6
    BY <1>1
<1> QED
    BY <1>2 DEF Placed, Later

\* What a peer sends, the other one reads.
LEMMA PeerReads ==
    ASSUME NEW n \in Nat \ {0}
    PROVE  \A c \in DOMAIN BetweenPeers(1) :
               ReadsBack(BetweenPeers(n)[c]) /\ AcceptedDatagram(BetweenPeers(n)[c].message)
<1>1. ReadsBack(BetweenPeers(n).dataRequest) /\ AcceptedDatagram(BetweenPeers(n).dataRequest.message)
    <2> DEFINE e == BetweenPeers(n).dataRequest
               rest == <<Field("pieceIndex", 4), Field("blockIndex", 2), Field("blocksCount", 2)>>
               places == {Placed("pieceIndex", 0, 4), Placed("blockIndex", 4, 2), Placed("blocksCount", 4 + 2, 2)}
    <2>1. e.message = Torrent(4 + 2 + 2, rest)
        BY DEF BetweenPeers, Exchange, DataRequest, Uint32, Uint16
    <2>2. e.read = ReadTorrent \cup {Placed("pieceIndex", Base, 4), Placed("blockIndex", Base + 4, 2), Placed("blocksCount", Base + 6, 2)}
        BY Zenon DEF BetweenPeers, Exchange, ReadDataRequest
    <2>3. Later(places, Base) = {Placed("pieceIndex", Base, 4), Placed("blockIndex", Base + 4, 2), Placed("blocksCount", Base + 6, 2)}
        BY LaterThree
    <2>4. Arrives(4 + 2 + 2, rest, places)
        <3>1. "pieceIndex" \in MessageNames /\ "blockIndex" \in MessageNames /\ "blocksCount" \in MessageNames
            BY Names, Zenon
        <3>2. 4 \in Nat /\ 2 \in Nat
            OBVIOUS
        <3> QED
            BY <3>1, <3>2, ThreeArrive, ZenonT(60)
    <2>9. 4 + 2 + 2 \in Nat
        OBVIOUS
    <2> HIDE DEF e, rest, places
    <2>5. ReadsBack(e) /\ AcceptedDatagram(e.message)
        BY <2>1, <2>2, <2>3, <2>4, <2>9, TorrentReads
    <2> QED
        BY <2>5 DEF e
<1>2. ReadsBack(BetweenPeers(n).cancelDataRequest) /\ AcceptedDatagram(BetweenPeers(n).cancelDataRequest.message)
    <2> DEFINE e == BetweenPeers(n).cancelDataRequest
               rest == <<Field("pieceIndex", 4), Field("blockIndex", 2), Field("blocksCount", 2)>>
               places == {Placed("pieceIndex", 0, 4), Placed("blockIndex", 4, 2), Placed("blocksCount", 4 + 2, 2)}
    <2>1. e.message = Torrent(4 + 2 + 2, rest)
        BY DEF BetweenPeers, Exchange, CancelDataRequest, Uint32, Uint16
    <2>2. e.read = ReadTorrent \cup {Placed("pieceIndex", Base, 4), Placed("blockIndex", Base + 4, 2), Placed("blocksCount", Base + 6, 2)}
        BY Zenon DEF BetweenPeers, Exchange, ReadCancelDataRequest
    <2>3. Later(places, Base) = {Placed("pieceIndex", Base, 4), Placed("blockIndex", Base + 4, 2), Placed("blocksCount", Base + 6, 2)}
        BY LaterThree
    <2>4. Arrives(4 + 2 + 2, rest, places)
        <3>1. "pieceIndex" \in MessageNames /\ "blockIndex" \in MessageNames /\ "blocksCount" \in MessageNames
            BY Names, Zenon
        <3>2. 4 \in Nat /\ 2 \in Nat
            OBVIOUS
        <3> QED
            BY <3>1, <3>2, ThreeArrive, ZenonT(60)
    <2>9. 4 + 2 + 2 \in Nat
        OBVIOUS
    <2> HIDE DEF e, rest, places
    <2>5. ReadsBack(e) /\ AcceptedDatagram(e.message)
        BY <2>1, <2>2, <2>3, <2>4, <2>9, TorrentReads
    <2> QED
        BY <2>5 DEF e
<1>3. ReadsBack(BetweenPeers(n).hasPieceUpdate) /\ AcceptedDatagram(BetweenPeers(n).hasPieceUpdate.message)
    <2> DEFINE e == BetweenPeers(n).hasPieceUpdate
               rest == <<Field("pieceIndex", 4)>>
               places == {Placed("pieceIndex", 0, 4)}
    <2>1. e.message = Torrent(4, rest)
        BY DEF BetweenPeers, Exchange, PieceOwnershipUpdate, Uint32
    <2>2. e.read = ReadTorrent \cup {Placed("pieceIndex", Base, 4)}
        BY Zenon DEF BetweenPeers, Exchange, ReadPieceOwnershipUpdate
    <2>3. Later(places, Base) = {Placed("pieceIndex", Base, 4)}
        BY LaterFirst
    <2>4. Arrives(4, rest, places)
        BY OneArrives, Names
    <2>9. 4 \in Nat
        OBVIOUS
    <2> HIDE DEF e, rest, places
    <2>5. ReadsBack(e) /\ AcceptedDatagram(e.message)
        BY <2>1, <2>2, <2>3, <2>4, <2>9, TorrentReads
    <2> QED
        BY <2>5 DEF e
<1>4. ReadsBack(BetweenPeers(n).blockResponse) /\ AcceptedDatagram(BetweenPeers(n).blockResponse.message)
    <2> DEFINE e == BetweenPeers(n).blockResponse
               rest == <<Field("pieceIndex", 4), Field("blockIndex", 2), Field("block", n)>>
               places == {Placed("pieceIndex", 0, 4), Placed("blockIndex", 4, 2), Placed("block", 4 + 2, n)}
    <2>1. e.message = Torrent(4 + 2 + n, rest)
        BY DEF BetweenPeers, Exchange, BlockResponse, Uint32, Uint16
    <2>6. e.message.size = 32 * 2 + 16 + (4 + 2 + n)
        BY <2>1 DEF Torrent, Serialized
    <2>8. e.read = ReadBlockResponse(e.message.size)
        BY Zenon DEF BetweenPeers, Exchange
    <2>2. e.read = ReadTorrent \cup {Placed("pieceIndex", Base, 4), Placed("blockIndex", Base + 4, 2),
                                    Placed("block", Base + 6, n)}
        <3>1. \A s : s - Base - 6 = n =>
                  ReadBlockResponse(s) = ReadTorrent
                      \cup {Placed("pieceIndex", Base, 4), Placed("blockIndex", Base + 4, 2),
                            Placed("block", Base + 6, n)}
            BY Zenon DEF ReadBlockResponse
        <3> HIDE DEF e
        <3>2. e.message.size - Base - 6 = n
            BY <2>6 DEF Base
        <3> QED
            BY <2>8, <3>1, <3>2
    <2>3. Later(places, Base) = {Placed("pieceIndex", Base, 4), Placed("blockIndex", Base + 4, 2), Placed("block", Base + 6, n)}
        BY LaterThree
    <2>4. Arrives(4 + 2 + n, rest, places)
        <3>1. "pieceIndex" \in MessageNames /\ "blockIndex" \in MessageNames /\ "block" \in MessageNames
            BY Names, Zenon
        <3>2. 4 \in Nat /\ 2 \in Nat
            OBVIOUS
        <3> QED
            BY <3>1, <3>2, ThreeArrive, ZenonT(60)
    <2>9. 4 + 2 + n \in Nat
        OBVIOUS
    <2> HIDE DEF e, rest, places
    <2>5. ReadsBack(e) /\ AcceptedDatagram(e.message)
        BY <2>1, <2>2, <2>3, <2>4, <2>9, TorrentReads
    <2> QED
        BY <2>5 DEF e
<1>5. ReadsBack(BetweenPeers(n).bitField) /\ AcceptedDatagram(BetweenPeers(n).bitField.message)
    <2> DEFINE e == BetweenPeers(n).bitField
               rest == <<Field("field", n)>>
               places == {Placed("field", 0, n)}
    <2>1. e.message = Torrent(n, rest)
        BY DEF BetweenPeers, Exchange, FileBitField
    <2>6. e.message.size = 32 * 2 + 16 + n
        BY <2>1 DEF Torrent, Serialized
    <2>8. e.read = ReadFileBitField(e.message.size)
        BY Zenon DEF BetweenPeers, Exchange
    <2>2. e.read = ReadTorrent \cup {Placed("field", Base, n)}
        <3>1. \A s : s - Base = n /\ ~(Base >= s) =>
                  ReadFileBitField(s) = ReadTorrent \cup {Placed("field", Base, n)}
            BY Zenon DEF ReadFileBitField
        <3> HIDE DEF e
        <3>2. e.message.size - Base = n /\ ~(Base >= e.message.size)
            BY <2>6 DEF Base
        <3> QED
            BY <2>8, <3>1, <3>2
    <2>3. Later(places, Base) = {Placed("field", Base, n)}
        BY LaterFirst
    <2>4. Arrives(n, rest, places)
        BY OneArrives, Names
    <2>9. n \in Nat
        OBVIOUS
    <2> HIDE DEF e, rest, places
    <2>5. ReadsBack(e) /\ AcceptedDatagram(e.message)
        BY <2>1, <2>2, <2>3, <2>4, <2>9, TorrentReads
    <2> QED
        BY <2>5 DEF e
<1>6. ReadsBack(TorrentStatus) /\ AcceptedDatagram(TorrentStatus.message)
    <2>1. TorrentStatus.message = Torrent(0, <<>>) /\ TorrentStatus.read = ReadTorrent \cup {}
        BY DEF TorrentStatus, Exchange
    <2>2. Later({}, Base) = {}
        BY DEF Later
    <2> QED
        BY <2>1, <2>2, NoneArrives, TorrentReads
<1>7. BetweenPeers(n).fileInterested = TorrentStatus /\ BetweenPeers(n).keepAliveRes = TorrentStatus
    BY DEF BetweenPeers
<1>8. DOMAIN BetweenPeers(1) = {"fileInterested", "keepAliveRes", "dataRequest", "cancelDataRequest",
                                "hasPieceUpdate", "blockResponse", "bitField"}
    BY DEF BetweenPeers
<1> QED
    BY <1>1, <1>2, <1>3, <1>4, <1>5, <1>6, <1>7, <1>8

-----------------------------------------------------------------------------
\* Data of less than 2^16 bytes is counted as it is.
LEMMA ShortCounted ==
    ASSUME NEW n \in Nat, n < 65536
    PROVE  len(n) = n
    BY DEF len

\* So every message arrives.
LEMMA AllArrive ==
    /\ ArriveAtServer = DOMAIN ToServer(0)
    /\ ArriveAtClient = DOMAIN ToClient(0, 0)
    /\ ArriveAtPeer = DOMAIN BetweenPeers(1)
<1>1. ASSUME NEW n \in Short PROVE n \in Nat /\ len(n) = n
    <2>1. n \in Nat /\ n < 65536
        BY MessagesAssumption DEF Short
    <2> QED
        BY <2>1, ShortCounted
<1>2. ASSUME NEW u \in UserCounts PROVE u \in Nat
    BY MessagesAssumption
<1>3. ASSUME NEW n \in DataLengths \ {0} PROVE n \in Nat \ {0}
    BY MessagesAssumption
<1>4. ArriveAtServer = DOMAIN ToServer(0)
    BY <1>1, ServerReads, Zenon DEF ArriveAtServer
<1>5. ArriveAtClient = DOMAIN ToClient(0, 0)
    BY <1>1, <1>2, ClientReads, Zenon DEF ArriveAtClient
<1>6. ArriveAtPeer = DOMAIN BetweenPeers(1)
    BY <1>3, PeerReads, Zenon DEF ArriveAtPeer
<1> QED
    BY <1>4, <1>5, <1>6

\* So that what is on its way between the peers and the server, and what two
\* connected peers may send each other, is found where it was written,
\* whatever the lengths of the data and of the lists are.
THEOREM MessagesAreRead == Spec => []MessagesArrive
<1>1. UpCode \subseteq ArriveAtServer /\ DownCode \subseteq ArriveAtClient
    BY AllArrive DEF UpCode, DownCode, Reply, Answer, ToServer, ToClient
<1>2. {"Store", "UserListReq", "DebuggingStringMessage"} \subseteq ArriveAtServer
    BY AllArrive DEF ToServer
<1>3. {"NewID", "UserListRes", "StoreSuccess", "StoreFailure"} \subseteq ArriveAtClient
    BY AllArrive DEF ToClient
<1>4. ASSUME NEW C, NEW ids, NEW s \in Seq(MsgsOf(C, ids)) PROVE Codes(s) \subseteq C
    <2>1. ASSUME NEW i \in DOMAIN s PROVE s[i].code \in C
        <3>1. s[i] \in MsgsOf(C, ids)
            OBVIOUS
        <3> QED
            BY <3>1 DEF MsgsOf
    <2> QED
        BY <2>1 DEF Codes
<1>5. SignalTypes => MessagesArrive
    <2> SUFFICES ASSUME SignalTypes, NEW p \in Peer
                 PROVE  /\ Codes(uplink[p]) \subseteq ArriveAtServer
                        /\ Codes(queue[p] \o inbox[p]) \subseteq ArriveAtClient
        BY <1>2, <1>3, AllArrive DEF MessagesArrive
    <2>1. /\ uplink[p] \in Seq(MsgsOf(UpCode, Id))
          /\ queue[p] \o inbox[p] \in Seq(MsgsOf(DownCode, Id))
        BY DEF SignalTypes
    <2>2. Codes(uplink[p]) \subseteq UpCode /\ Codes(queue[p] \o inbox[p]) \subseteq DownCode
        BY <1>4, <2>1
    <2> QED
        BY <1>1, <2>2
<1> QED
    BY <1>5, SignalingTypes, PTL
=============================================================================
