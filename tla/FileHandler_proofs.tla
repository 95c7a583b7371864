------------------------- MODULE FileHandler_proofs -------------------------
(***************************************************************************)
(* Theorems about a file handler. Its queues: however often the file is    *)
(* stopped and started, and however many threads of earlier starts are     *)
(* still at work, no request is answered twice and none for data is lost.  *)
(* What it knows of the other peers' pieces: who is asked, and who sends   *)
(* an update, is in the chooser's map, but for the peers on their way into *)
(* it and those whose own interest was answered (UsedAreKnown); a piece is *)
(* never counted for fewer peers than are known to have it (CountsCover);  *)
(* and what a peer has is known, announced or coming in a bitfield, unless *)
(* something disturbed it (NothingIsMissed).                               *)
(***************************************************************************)
EXTENDS FileHandlerLifecycle, PeerBitfields, FiniteSetTheorems, TLAPS

-----------------------------------------------------------------------------
(* Requests: the invariant.                                                *)

ThreadState == {"none", "test", "ended", "drain", "handle", "choose", "sleep",
                "wait", "blocked", "send"}

QueueTypes ==
    /\ asked \in Seq(Kinds)
    /\ inbox \in Seq(Nat) /\ outbox \in Seq(Nat) /\ wire \in Seq(Nat)
    /\ failed \in SUBSET Nat
    /\ requester \in [Inst -> ThreadState] /\ work \in [Inst -> Nat]
    /\ sender \in [Inst -> ThreadState] /\ hand \in [Inst -> Nat]

InQueue(q, n) == \E i \in DOMAIN q : q[i] = n
Distinct(q) == \A i, j \in DOMAIN q : q[i] = q[j] /\ q[i] # 0 => i = j

\* Where a request can be.
Received(n) == InQueue(inbox, n)
InWork(n) == \E i \in Inst : work[i] = n
ToSend(n) == InQueue(outbox, n)
InHand(n) == \E i \in Inst : sender[i] = "send" /\ hand[i] = n
Gone(n) == InQueue(wire, n)

\* In one of these places at most, if it is a request at all.
OnePlace(n) ==
    /\ Received(n) => ~InWork(n) /\ ~ToSend(n) /\ ~InHand(n) /\ ~Gone(n) /\ n \notin failed
    /\ InWork(n) => ~ToSend(n) /\ ~InHand(n) /\ ~Gone(n) /\ n \notin failed
    /\ ToSend(n) => ~InHand(n) /\ ~Gone(n) /\ n \notin failed
    /\ InHand(n) => ~Gone(n) /\ n \notin failed
    /\ Gone(n) => n \notin failed

SomePlace(n) == Received(n) \/ InWork(n) \/ ToSend(n) \/ InHand(n) \/ Gone(n) \/ n \in failed

\* And there only once.
DistinctInv ==
    /\ Distinct(inbox) /\ Distinct(outbox) /\ Distinct(wire)
    /\ \A i, j \in Inst : work[i] = work[j] /\ work[i] # 0 => i = j
    /\ \A i, j \in Inst : hand[i] = hand[j] /\ hand[i] # 0
                          /\ sender[i] = "send" /\ sender[j] = "send" => i = j
    /\ \A i \in Inst : work[i] # 0 <=> requester[i] = "handle"
    /\ ~Received(0)
    /\ \A i \in Inst : requester[i] = "none" => sender[i] = "none"

PlaceInv ==
    \A n \in Nat \ {0} :
        /\ OnePlace(n)
        /\ SomePlace(n) => n <= Len(asked)
        /\ n <= Len(asked) /\ asked[n] = "dataRequest" => SomePlace(n)

IInv == QueueTypes /\ DistinctInv /\ PlaceInv

-----------------------------------------------------------------------------
(* Queues.                                                                 *)

LEMMA AppendQueue ==
    ASSUME NEW q \in Seq(Nat), NEW n \in Nat
    PROVE  /\ Append(q, n) \in Seq(Nat)
           /\ \A k : InQueue(Append(q, n), k) <=> InQueue(q, k) \/ k = n
           /\ Distinct(q) /\ (n = 0 \/ ~InQueue(q, n)) => Distinct(Append(q, n))
<1>1. /\ Append(q, n) \in Seq(Nat) /\ Len(q) \in Nat /\ DOMAIN q = 1..Len(q)
      /\ DOMAIN Append(q, n) = 1..(Len(q) + 1)
      /\ \A i \in DOMAIN q : Append(q, n)[i] = q[i]
      /\ Append(q, n)[Len(q) + 1] = n
    OBVIOUS
<1> DEFINE a == Append(q, n)
<1> HIDE DEF a
<1>2. /\ DOMAIN a = 1..(Len(q) + 1) /\ a[Len(q) + 1] = n /\ \A i \in DOMAIN q : i \in DOMAIN a /\ a[i] = q[i]
      /\ \A i \in DOMAIN a : i \in DOMAIN q \/ i = Len(q) + 1
    BY <1>1 DEF a
<1>3. \A k : InQueue(a, k) <=> InQueue(q, k) \/ k = n
    <2>1. Len(q) + 1 \in DOMAIN a
        BY <1>1, <1>2
    <2> QED
        BY <1>2, <2>1 DEF InQueue
<1>4. Distinct(q) /\ (n = 0 \/ ~InQueue(q, n)) => Distinct(a)
    BY <1>2 DEF Distinct, InQueue
<1> QED
    BY <1>1, <1>3, <1>4 DEF a

LEMMA TailQueue ==
    ASSUME NEW q \in Seq(Nat), q # <<>>
    PROVE  /\ Tail(q) \in Seq(Nat) /\ Head(q) \in Nat
           /\ \A k : InQueue(q, k) <=> InQueue(Tail(q), k) \/ k = Head(q)
           /\ Distinct(q) => Distinct(Tail(q)) /\ (Head(q) = 0 \/ ~InQueue(Tail(q), Head(q)))
<1>1. /\ Tail(q) \in Seq(Nat) /\ Len(q) \in Nat \ {0} /\ DOMAIN q = 1..Len(q)
      /\ Head(q) = q[1] /\ q[1] \in Nat
      /\ DOMAIN Tail(q) = 1..(Len(q) - 1)
      /\ \A i \in DOMAIN Tail(q) : Tail(q)[i] = q[i + 1]
    OBVIOUS
<1> DEFINE t == Tail(q)
<1> HIDE DEF t
<1>2. /\ 1 \in DOMAIN q
      /\ \A i \in DOMAIN t : i \in Nat /\ i + 1 \in DOMAIN q /\ i + 1 # 1 /\ t[i] = q[i + 1]
      /\ \A i \in DOMAIN q : i = 1 \/ (i - 1 \in DOMAIN t /\ (i - 1) + 1 = i /\ t[i - 1] = q[i])
    BY <1>1 DEF t
<1>3. \A k : InQueue(q, k) <=> InQueue(t, k) \/ k = q[1]
    BY <1>2 DEF InQueue
<1>4. Distinct(q) => Distinct(t) /\ (q[1] = 0 \/ ~InQueue(t, q[1]))
    BY <1>2 DEF Distinct, InQueue
<1> QED
    BY <1>1, <1>3, <1>4 DEF t

-----------------------------------------------------------------------------
(* The steps.                                                              *)

LEMMA Lifecycle_Init == Init => IInv
<1> SUFFICES ASSUME Init PROVE IInv
    OBVIOUS
<1>1. QueueTypes
    BY DEF Init, QueueTypes, ThreadState, Own
<1>2. \A n : ~InQueue(<<>>, n)
    BY DEF InQueue
<1>3. DistinctInv
    BY <1>2 DEF Init, DistinctInv, Distinct, Received, ThreadState
<1>4. \A n \in Nat \ {0} : ~SomePlace(n)
    BY <1>2 DEF Init, SomePlace, Received, InWork, ToSend, InHand, Gone
<1>5. Len(asked) = 0
    BY DEF Init
<1>6. PlaceInv
    BY <1>4, <1>5 DEF PlaceInv, OnePlace, SomePlace
<1> QED
    BY <1>1, <1>3, <1>6 DEF IInv

\* A request stays where it is.
Stays(n) ==
    /\ Received(n)' <=> Received(n)
    /\ InWork(n)' <=> InWork(n)
    /\ ToSend(n)' <=> ToSend(n)
    /\ InHand(n)' <=> InHand(n)
    /\ Gone(n)' <=> Gone(n)
    /\ n \in failed' <=> n \in failed

\* One request moves at most.
LEMMA OneMoves ==
    ASSUME PlaceInv, UNCHANGED asked, NEW m \in Nat,
           \A n \in Nat \ {0} : n # m => Stays(n),
           m # 0 => /\ OnePlace(m)' /\ SomePlace(m)
                    /\ asked[m] = "dataRequest" => SomePlace(m)'
    PROVE  PlaceInv'
<1>1. ASSUME NEW n \in Nat \ {0}, n # m
      PROVE  OnePlace(n)' /\ (SomePlace(n)' <=> SomePlace(n))
    BY <1>1 DEF PlaceInv, Stays, OnePlace, SomePlace
<1> QED
    BY <1>1 DEF PlaceInv

\* A step that moves no request.
MovesNone ==
    /\ UNCHANGED <<asked, inbox, work, outbox, hand, wire, failed>>
    /\ requester' \in [Inst -> ThreadState] /\ sender' \in [Inst -> ThreadState]
    /\ \A i \in Inst : /\ requester'[i] = "handle" <=> requester[i] = "handle"
                       /\ sender'[i] = "send" <=> sender[i] = "send"
                       /\ requester'[i] = "none" => sender'[i] = "none"

LEMMA NoneMoves ==
    ASSUME IInv, MovesNone
    PROVE  IInv'
<1> USE DEF IInv, MovesNone
<1>1. QueueTypes'
    BY DEF QueueTypes
<1>2. DistinctInv'
    BY DEF DistinctInv, Received
<1>3. ASSUME NEW n PROVE Stays(n)
    BY DEF Stays, Received, InWork, ToSend, InHand, Gone
<1>4. PlaceInv'
    BY <1>3, OneMoves
<1> QED
    BY <1>1, <1>2, <1>4

\* Notified changes no sender but one that is blocked.
LEMMA NotifiedSender ==
    ASSUME QueueTypes, sender' \in Notified
    PROVE  /\ sender' \in [Inst -> ThreadState]
           /\ \A i \in Inst : /\ sender'[i] = "send" <=> sender[i] = "send"
                              /\ sender[i] = "none" => sender'[i] = "none"
<1>1. CASE sender' = sender
    BY <1>1 DEF QueueTypes
<1>2. CASE \E i \in Inst : sender[i] = "blocked" /\ sender' = [sender EXCEPT ![i] = "wait"]
    BY <1>2 DEF QueueTypes, ThreadState
<1> QED
    BY <1>1, <1>2 DEF Notified

LEMMA Step_AddMessage ==
    ASSUME IInv, NEW kind \in Kinds, AddMessage(kind)
    PROVE  IInv'
<1> USE DEF IInv
<1> DEFINE m == Len(asked) + 1
<1>1. /\ asked' = Append(asked, kind) /\ inbox' = Append(inbox, m)
      /\ UNCHANGED <<requester, work, outbox, sender, hand, wire, failed>>
    BY DEF AddMessage, sending
<1>2. /\ asked' \in Seq(Kinds) /\ Len(asked) \in Nat /\ Len(asked') = m /\ m \in Nat
      /\ \A n \in 1..Len(asked) : asked'[n] = asked[n]
    BY <1>1 DEF QueueTypes
<1>3. ~SomePlace(m)
    BY <1>2 DEF PlaceInv
<1> HIDE DEF m
<1>4. /\ inbox' \in Seq(Nat)
      /\ \A k : InQueue(inbox', k) <=> InQueue(inbox, k) \/ k = m
      /\ Distinct(inbox')
    <2>1. Distinct(inbox) /\ ~InQueue(inbox, m)
        BY <1>3 DEF DistinctInv, SomePlace, Received
    <2> QED
        BY <1>1, <1>2, <2>1, AppendQueue DEF QueueTypes
<1>5. QueueTypes'
    BY <1>1, <1>2, <1>4 DEF QueueTypes
<1>6. DistinctInv'
    BY <1>1, <1>2, <1>4 DEF DistinctInv, Received, m
<1>7. \A n : /\ Received(n)' <=> Received(n) \/ n = m
             /\ InWork(n)' <=> InWork(n)
             /\ ToSend(n)' <=> ToSend(n)
             /\ InHand(n)' <=> InHand(n)
             /\ Gone(n)' <=> Gone(n)
             /\ n \in failed' <=> n \in failed
    BY <1>1, <1>4 DEF Received, InWork, ToSend, InHand, Gone
<1>8. ASSUME NEW n \in Nat \ {0}
      PROVE  /\ OnePlace(n)'
             /\ SomePlace(n)' => n <= Len(asked')
             /\ n <= Len(asked') /\ asked'[n] = "dataRequest" => SomePlace(n)'
    <2>1. CASE n = m
        BY <1>2, <1>3, <1>7, <2>1 DEF OnePlace, SomePlace
    <2>2. CASE n # m
        <3>1. OnePlace(n)' /\ (SomePlace(n)' <=> SomePlace(n))
            BY <1>7, <2>2 DEF PlaceInv, OnePlace, SomePlace
        <3>2. n <= Len(asked') => n <= Len(asked) /\ n \in 1..Len(asked)
            BY <1>2, <2>2 DEF m
        <3>3. Len(asked) <= Len(asked')
            BY <1>2 DEF m
        <3> QED
            BY <1>2, <3>1, <3>2, <3>3 DEF PlaceInv
    <2> QED
        BY <2>1, <2>2
<1>9. PlaceInv'
    BY <1>8 DEF PlaceInv
<1> QED
    BY <1>5, <1>6, <1>9

LEMMA Step_TakeRequest ==
    ASSUME IInv, NEW i \in Inst, TakeRequest(i)
    PROVE  IInv'
<1> USE DEF IInv
<1>1. requester[i] = "drain" /\ UNCHANGED <<asked, outbox, sender, hand, wire, failed>>
    BY DEF TakeRequest, sending
<1>2. CASE inbox = <<>>
    <2>1. requester' = [requester EXCEPT ![i] = "test"] /\ UNCHANGED <<inbox, work>>
        BY <1>2 DEF TakeRequest
    <2>2. MovesNone
        BY <1>1, <2>1 DEF MovesNone, QueueTypes, DistinctInv, ThreadState
    <2> QED
        BY <2>2, NoneMoves
<1>3. CASE inbox # <<>>
    <2>1. PICK m : m = Head(inbox)
        OBVIOUS
    <2>2. /\ requester' = [requester EXCEPT ![i] = "handle"] /\ work' = [work EXCEPT ![i] = m]
          /\ inbox' = Tail(inbox)
        BY <1>3, <2>1 DEF TakeRequest
    <2>3. /\ inbox' \in Seq(Nat) /\ m \in Nat
          /\ \A k : InQueue(inbox, k) <=> InQueue(inbox', k) \/ k = m
          /\ Distinct(inbox') /\ (m = 0 \/ ~InQueue(inbox', m))
        BY <1>3, <2>2, <2>1, TailQueue DEF QueueTypes, DistinctInv
    <2>4. Received(m) /\ m # 0 /\ m \in Nat
        BY <2>3 DEF DistinctInv, Received
    <2>5. QueueTypes'
        BY <1>1, <2>2, <2>3 DEF QueueTypes, ThreadState
    <2>6. ~InWork(m) /\ work[i] = 0
        BY <1>1, <2>4 DEF PlaceInv, OnePlace, DistinctInv
    <2>7. /\ \A j \in Inst : j # i => work'[j] = work[j] /\ requester'[j] = requester[j]
          /\ work'[i] = m /\ requester'[i] = "handle"
        BY <2>2 DEF QueueTypes
    <2>8. DistinctInv'
        BY <1>1, <2>3, <2>4, <2>6, <2>7 DEF DistinctInv, InWork, Received
    <2>9. ASSUME NEW n, n # 0
          PROVE  /\ Received(n)' <=> Received(n) /\ n # m
                 /\ InWork(n)' <=> InWork(n) \/ n = m
                 /\ (ToSend(n)' <=> ToSend(n)) /\ (InHand(n)' <=> InHand(n))
                 /\ (Gone(n)' <=> Gone(n)) /\ (n \in failed' <=> n \in failed)
        <3>1. InWork(n)' <=> InWork(n) \/ n = m
            BY <2>6, <2>7, <2>9 DEF InWork
        <3> QED
            BY <1>1, <2>3, <2>4, <3>1 DEF Received, ToSend, InHand, Gone
    <2>10. \A n \in Nat \ {0} : n # m => Stays(n)
        BY <2>9 DEF Stays
    <2>11. OnePlace(m)' /\ SomePlace(m) /\ SomePlace(m)'
        <3>1. OnePlace(m)
            BY <2>4 DEF PlaceInv
        <3> QED
            BY <2>4, <2>9, <3>1 DEF OnePlace, SomePlace
    <2> QED
        BY <1>1, <2>4, <2>5, <2>8, <2>10, <2>11, OneMoves
<1> QED
    BY <1>2, <1>3

LEMMA Step_HandleRequest ==
    ASSUME IInv, NEW i \in Inst, HandleRequest(i)
    PROVE  IInv'
<1> USE DEF IInv
<1>1. PICK m : m = work[i]
    OBVIOUS
<1>2. /\ requester[i] = "handle" /\ UNCHANGED <<asked, inbox, hand, wire, failed>>
      /\ requester' = [requester EXCEPT ![i] = "drain"] /\ work' = [work EXCEPT ![i] = 0]
    BY DEF HandleRequest
<1>3. m \in Nat \ {0} /\ InWork(m)
    BY <1>1, <1>2 DEF QueueTypes, DistinctInv, InWork
<1>4. /\ sender' \in [Inst -> ThreadState]
      /\ \A j \in Inst : /\ sender'[j] = "send" <=> sender[j] = "send"
                         /\ sender[j] = "none" => sender'[j] = "none"
    <2>1. CASE sender' \in Notified
        BY <2>1, NotifiedSender
    <2>2. CASE UNCHANGED sender
        BY <2>2 DEF QueueTypes
    <2> QED
        BY <2>1, <2>2 DEF HandleRequest
<1>5. /\ \A j \in Inst : j # i => work'[j] = work[j] /\ requester'[j] = requester[j]
      /\ work'[i] = 0 /\ requester'[i] = "drain"
      /\ requester' \in [Inst -> ThreadState] /\ work' \in [Inst -> Nat]
    BY <1>2 DEF QueueTypes, ThreadState
<1>6. ASSUME NEW n, n # 0
      PROVE  /\ Received(n)' <=> Received(n)
             /\ InWork(n)' <=> InWork(n) /\ n # m
             /\ (InHand(n)' <=> InHand(n)) /\ (Gone(n)' <=> Gone(n))
             /\ n \in failed' <=> n \in failed
    <2>1. InWork(n)' <=> InWork(n) /\ n # m
        BY <1>1, <1>3, <1>5, <1>6 DEF InWork, DistinctInv
    <2>2. InHand(n)' <=> InHand(n)
        BY <1>2, <1>4 DEF InHand
    <2> QED
        BY <1>2, <2>1, <2>2 DEF Received, Gone
<1>7. OnePlace(m) /\ SomePlace(m)
    BY <1>3 DEF PlaceInv, SomePlace
<1>8. CASE asked[m] \in Answered
    <2>1. outbox' = Append(outbox, m)
        BY <1>1, <1>8 DEF HandleRequest
    <2>2. /\ outbox' \in Seq(Nat) /\ Distinct(outbox')
          /\ \A k : InQueue(outbox', k) <=> InQueue(outbox, k) \/ k = m
        <3>1. Distinct(outbox) /\ ~InQueue(outbox, m)
            BY <1>3, <1>7 DEF DistinctInv, OnePlace, ToSend
        <3> QED
            BY <1>3, <2>1, <3>1, AppendQueue DEF QueueTypes
    <2>3. QueueTypes'
        BY <1>2, <1>4, <1>5, <2>2 DEF QueueTypes
    <2>4. DistinctInv'
        BY <1>2, <1>4, <1>5, <2>2 DEF DistinctInv, Received
    <2>5. \A n : ToSend(n)' <=> ToSend(n) \/ n = m
        BY <2>2 DEF ToSend
    <2>6. \A n \in Nat \ {0} : n # m => Stays(n)
        BY <1>6, <2>5 DEF Stays
    <2>7. OnePlace(m)' /\ SomePlace(m)'
        BY <1>3, <1>6, <1>7, <2>5 DEF OnePlace, SomePlace
    <2> QED
        BY <1>2, <1>3, <1>7, <2>3, <2>4, <2>6, <2>7, OneMoves
<1>9. CASE asked[m] \notin Answered
    <2>1. UNCHANGED outbox
        BY <1>1, <1>9 DEF HandleRequest
    <2>2. QueueTypes'
        BY <1>2, <1>4, <1>5, <2>1 DEF QueueTypes
    <2>3. DistinctInv'
        BY <1>2, <1>4, <1>5, <2>1 DEF DistinctInv, Received
    <2>4. \A n : ToSend(n)' <=> ToSend(n)
        BY <2>1 DEF ToSend
    <2>5. \A n \in Nat \ {0} : n # m => Stays(n)
        BY <1>6, <2>4 DEF Stays
    <2>6. OnePlace(m)' /\ asked[m] # "dataRequest"
        BY <1>3, <1>6, <1>7, <1>9, <2>4 DEF OnePlace, Answered
    <2> QED
        BY <1>2, <1>3, <1>7, <2>2, <2>3, <2>5, <2>6, OneMoves
<1> QED
    BY <1>8, <1>9

LEMMA Step_Choose ==
    ASSUME IInv, NEW i \in Inst, Choose(i)
    PROVE  IInv'
<1> USE DEF IInv
<1>1. UNCHANGED <<asked, inbox, requester, work, hand, wire, failed>>
    BY DEF Choose, requesting
<1>2. CASE UNCHANGED <<outbox, sender>>
    <2>1. MovesNone
        BY <1>1, <1>2 DEF MovesNone, QueueTypes, DistinctInv
    <2> QED
        BY <2>1, NoneMoves
<1>3. CASE outbox' = Append(outbox, Own) /\ sender' \in Notified
    <2>1. /\ outbox' \in Seq(Nat) /\ Distinct(outbox')
          /\ \A k : InQueue(outbox', k) <=> InQueue(outbox, k) \/ k = 0
        BY <1>3, AppendQueue DEF QueueTypes, DistinctInv, Own
    <2>2. /\ sender' \in [Inst -> ThreadState]
          /\ \A j \in Inst : /\ sender'[j] = "send" <=> sender[j] = "send"
                             /\ sender[j] = "none" => sender'[j] = "none"
        BY <1>3, NotifiedSender
    <2>3. QueueTypes'
        BY <1>1, <2>1, <2>2 DEF QueueTypes
    <2>4. DistinctInv'
        BY <1>1, <2>1, <2>2 DEF DistinctInv, Received
    <2>5. \A n \in Nat \ {0} : Stays(n)
        BY <1>1, <2>1, <2>2 DEF Stays, Received, InWork, ToSend, InHand, Gone
    <2>6. PlaceInv'
        <3>1. \A n \in Nat \ {0} : n # 0 => Stays(n)
            BY <2>5
        <3> QED
            BY <1>1, <3>1, OneMoves
    <2> QED
        BY <2>3, <2>4, <2>6
<1> QED
    BY <1>2, <1>3 DEF Choose

LEMMA Step_TakeMessage ==
    ASSUME IInv, NEW i \in Inst, TakeMessage(i)
    PROVE  IInv'
<1> USE DEF IInv
<1>1. PICK m : m = Head(outbox)
    OBVIOUS
<1>2. /\ sender[i] = "drain" /\ outbox # <<>> /\ outbox' = Tail(outbox)
      /\ hand' = [hand EXCEPT ![i] = m] /\ sender' = [sender EXCEPT ![i] = "send"]
      /\ UNCHANGED <<asked, inbox, requester, work, wire, failed>>
    BY <1>1 DEF TakeMessage, requesting
<1>3. /\ outbox' \in Seq(Nat) /\ m \in Nat
      /\ \A k : InQueue(outbox, k) <=> InQueue(outbox', k) \/ k = m
      /\ Distinct(outbox') /\ (m = 0 \/ ~InQueue(outbox', m))
    BY <1>1, <1>2, TailQueue DEF QueueTypes, DistinctInv
<1>4. /\ \A j \in Inst : j # i => hand'[j] = hand[j] /\ sender'[j] = sender[j]
      /\ hand'[i] = m /\ sender'[i] = "send"
    BY <1>2 DEF QueueTypes
<1>5. m # 0 => ToSend(m) /\ OnePlace(m) /\ SomePlace(m) /\ ~InHand(m)
    BY <1>3 DEF ToSend, PlaceInv, OnePlace, SomePlace
<1>6. QueueTypes'
    BY <1>2, <1>3 DEF QueueTypes, ThreadState
<1>7. DistinctInv'
    <2>1. ASSUME NEW j \in Inst, NEW k \in Inst, hand'[j] = hand'[k], hand'[j] # 0,
                 sender'[j] = "send", sender'[k] = "send"
          PROVE  j = k
        <3>1. CASE j # i /\ k # i
            BY <1>4, <2>1, <3>1 DEF DistinctInv
        <3>2. CASE j = i \/ k = i
            BY <1>4, <1>5, <2>1, <3>2 DEF InHand
        <3> QED
            BY <3>1, <3>2
    <2> QED
        BY <1>2, <1>3, <2>1 DEF DistinctInv, Received
<1>8. ASSUME NEW n, n # 0
      PROVE  /\ Received(n)' <=> Received(n)
             /\ InWork(n)' <=> InWork(n)
             /\ ToSend(n)' <=> ToSend(n) /\ n # m
             /\ InHand(n)' <=> InHand(n) \/ n = m
             /\ (Gone(n)' <=> Gone(n)) /\ (n \in failed' <=> n \in failed)
    <2>1. InHand(n)' <=> InHand(n) \/ n = m
        BY <1>2, <1>4 DEF InHand
    <2>2. ToSend(n)' <=> ToSend(n) /\ n # m
        BY <1>3, <1>8 DEF ToSend
    <2> QED
        BY <1>2, <2>1, <2>2 DEF Received, InWork, Gone
<1>9. \A n \in Nat \ {0} : n # m => Stays(n)
    BY <1>8 DEF Stays
<1>10. m # 0 => OnePlace(m)' /\ SomePlace(m)'
    BY <1>5, <1>8 DEF OnePlace, SomePlace
<1> QED
    BY <1>2, <1>3, <1>5, <1>6, <1>7, <1>9, <1>10, OneMoves

\* A sender that sent its message, or failed to, has none.
LEMMA Sent ==
    ASSUME IInv, NEW i \in Inst, NEW m, m = hand[i], sender[i] = "send",
           sender' = [sender EXCEPT ![i] = "drain"], UNCHANGED hand
    PROVE  /\ m \in Nat /\ sender' \in [Inst -> ThreadState]
           /\ \A n : n # 0 => (InHand(n)' <=> InHand(n) /\ n # m)
           /\ \A j \in Inst : /\ sender'[j] = "send" => sender[j] = "send"
                              /\ sender[j] = "none" => sender'[j] = "none"
           /\ m # 0 => InHand(m) /\ OnePlace(m)
<1> USE DEF IInv
<1>1. /\ \A j \in Inst : j # i => sender'[j] = sender[j]
      /\ sender'[i] = "drain"
      /\ m \in Nat /\ sender' \in [Inst -> ThreadState]
    BY DEF QueueTypes, ThreadState
<1>2. m # 0 => InHand(m) /\ OnePlace(m)
    BY <1>1 DEF InHand, PlaceInv
<1>3. ASSUME NEW n, n # 0 PROVE InHand(n)' <=> InHand(n) /\ n # m
    BY <1>1, <1>3 DEF InHand, DistinctInv
<1> QED
    BY <1>1, <1>2, <1>3

LEMMA Step_Send ==
    ASSUME IInv, NEW i \in Inst, Send(i)
    PROVE  IInv'
<1> USE DEF IInv
<1>1. PICK m : m = hand[i]
    OBVIOUS
<1>2. /\ sender[i] = "send" /\ wire' = Append(wire, m)
      /\ sender' = [sender EXCEPT ![i] = "drain"]
      /\ UNCHANGED <<asked, inbox, requester, work, outbox, hand, failed>>
    BY <1>1 DEF Send, requesting
<1>3. /\ m \in Nat /\ sender' \in [Inst -> ThreadState]
      /\ \A n : n # 0 => (InHand(n)' <=> InHand(n) /\ n # m)
      /\ \A j \in Inst : /\ sender'[j] = "send" => sender[j] = "send"
                         /\ sender[j] = "none" => sender'[j] = "none"
      /\ m # 0 => InHand(m) /\ OnePlace(m)
    BY <1>1, <1>2, Sent
<1>4. /\ wire' \in Seq(Nat) /\ Distinct(wire')
      /\ \A k : InQueue(wire', k) <=> InQueue(wire, k) \/ k = m
    <2>1. Distinct(wire) /\ (m = 0 \/ ~InQueue(wire, m))
        BY <1>3 DEF DistinctInv, OnePlace, Gone
    <2> QED
        BY <1>2, <1>3, <2>1, AppendQueue DEF QueueTypes
<1>5. QueueTypes'
    BY <1>2, <1>3, <1>4 DEF QueueTypes
<1>6. DistinctInv'
    BY <1>2, <1>3, <1>4 DEF DistinctInv, Received
<1>7. ASSUME NEW n, n # 0
      PROVE  /\ (Received(n)' <=> Received(n)) /\ (InWork(n)' <=> InWork(n))
             /\ ToSend(n)' <=> ToSend(n)
             /\ InHand(n)' <=> InHand(n) /\ n # m
             /\ Gone(n)' <=> Gone(n) \/ n = m
             /\ n \in failed' <=> n \in failed
    BY <1>2, <1>3, <1>4, <1>7 DEF Received, InWork, ToSend, Gone
<1>8. \A n \in Nat \ {0} : n # m => Stays(n)
    BY <1>7 DEF Stays
<1>9. m # 0 => OnePlace(m)' /\ SomePlace(m) /\ SomePlace(m)'
    BY <1>3, <1>7 DEF OnePlace, SomePlace
<1> QED
    BY <1>2, <1>3, <1>5, <1>6, <1>8, <1>9, OneMoves

LEMMA Step_SendFails ==
    ASSUME IInv, NEW i \in Inst, SendFails(i)
    PROVE  IInv'
<1> USE DEF IInv
<1>1. PICK m : m = hand[i]
    OBVIOUS
<1>2. /\ sender[i] = "send" /\ failed' = failed \cup {m}
      /\ sender' = [sender EXCEPT ![i] = "drain"]
      /\ UNCHANGED <<asked, inbox, requester, work, outbox, hand, wire>>
    BY <1>1 DEF SendFails, requesting
<1>3. /\ m \in Nat /\ sender' \in [Inst -> ThreadState]
      /\ \A n : n # 0 => (InHand(n)' <=> InHand(n) /\ n # m)
      /\ \A j \in Inst : /\ sender'[j] = "send" => sender[j] = "send"
                         /\ sender[j] = "none" => sender'[j] = "none"
      /\ m # 0 => InHand(m) /\ OnePlace(m)
    BY <1>1, <1>2, Sent
<1>4. QueueTypes'
    BY <1>2, <1>3 DEF QueueTypes
<1>5. DistinctInv'
    BY <1>2, <1>3 DEF DistinctInv, Received
<1>6. ASSUME NEW n, n # 0
      PROVE  /\ (Received(n)' <=> Received(n)) /\ (InWork(n)' <=> InWork(n))
             /\ (ToSend(n)' <=> ToSend(n)) /\ (Gone(n)' <=> Gone(n))
             /\ InHand(n)' <=> InHand(n) /\ n # m
             /\ n \in failed' <=> n \in failed \/ n = m
    BY <1>2, <1>3, <1>6 DEF Received, InWork, ToSend, Gone
<1>7. \A n \in Nat \ {0} : n # m => Stays(n)
    BY <1>6 DEF Stays
<1>8. m # 0 => OnePlace(m)' /\ SomePlace(m) /\ SomePlace(m)'
    BY <1>3, <1>6 DEF OnePlace, SomePlace
<1> QED
    BY <1>2, <1>3, <1>4, <1>5, <1>7, <1>8, OneMoves

LEMMA Lifecycle_Step ==
    ASSUME IInv, [Next]_vars
    PROVE  IInv'
<1>1. QueueTypes /\ \A i \in Inst : requester[i] = "none" => sender[i] = "none"
    BY DEF IInv, DistinctInv
<1>2. ASSUME UNCHANGED <<requesting, outbox, sending>> PROVE IInv'
    <2>1. MovesNone
        BY <1>1, <1>2 DEF MovesNone, requesting, sending, QueueTypes
    <2> QED
        BY <2>1, NoneMoves
<1>3. CASE Stop \/ UNCHANGED vars
    BY <1>2, <1>3 DEF Stop, vars
<1>4. ASSUME NEW autoStart \in BOOLEAN, AddNewFileHandler(autoStart) PROVE IInv'
    <2>1. UNCHANGED <<asked, inbox, work, outbox, hand, wire, failed>>
        BY <1>4 DEF AddNewFileHandler
    <2>2. CASE UNCHANGED <<requester, downloader, sender>>
        <3>1. MovesNone
            BY <1>1, <2>1, <2>2 DEF MovesNone, QueueTypes
        <3> QED
            BY <3>1, NoneMoves
    <2>3. CASE StartThreads
        <3>1. PICK i \in Inst : /\ requester[i] = "none"
                                /\ requester' = [requester EXCEPT ![i] = "test"]
                                /\ sender' = [sender EXCEPT ![i] = "test"]
            BY <2>3 DEF StartThreads
        <3>2. sender[i] = "none"
            BY <1>1, <3>1
        <3>3. MovesNone
            BY <1>1, <2>1, <3>1, <3>2 DEF MovesNone, QueueTypes, ThreadState
        <3> QED
            BY <3>3, NoneMoves
    <2> QED
        BY <1>4, <2>2, <2>3 DEF AddNewFileHandler, Construct, Resume
<1>5. ASSUME NEW kind \in Kinds, AddMessage(kind) PROVE IInv'
    BY <1>5, Step_AddMessage
<1>6. ASSUME NEW i \in Inst, TestRequests(i) PROVE IInv'
    <2>1. PICK pc \in {"drain", "ended"} : requester' = [requester EXCEPT ![i] = pc]
        BY <1>6 DEF TestRequests
    <2>2. /\ requester[i] = "test"
          /\ UNCHANGED <<asked, inbox, work, outbox, sender, hand, wire, failed>>
        BY <1>6 DEF TestRequests, sending
    <2>3. MovesNone
        BY <1>1, <2>1, <2>2 DEF MovesNone, QueueTypes, ThreadState
    <2> QED
        BY <2>3, NoneMoves
<1>7. ASSUME NEW i \in Inst, TakeRequest(i) \/ HandleRequest(i) \/ Choose(i) PROVE IInv'
    BY <1>7, Step_TakeRequest, Step_HandleRequest, Step_Choose
<1>8. ASSUME NEW i \in Inst, TestDownload(i) \/ Sleep(i) PROVE IInv'
    BY <1>2, <1>8 DEF TestDownload, Sleep
<1>9. ASSUME NEW i \in Inst, TestSender(i) \/ Wait(i) \/ EndDrain(i) PROVE IInv'
    <2>1. PICK pc \in {"wait", "ended", "drain", "blocked", "test"} :
              sender' = [sender EXCEPT ![i] = pc]
        BY <1>9 DEF TestSender, Wait, EndDrain
    <2>2. /\ sender[i] \notin {"none", "send"}
          /\ UNCHANGED <<asked, inbox, requester, work, outbox, hand, wire, failed>>
        BY <1>9 DEF TestSender, Wait, EndDrain, requesting
    <2>3. MovesNone
        BY <1>1, <2>1, <2>2 DEF MovesNone, QueueTypes, ThreadState
    <2> QED
        BY <2>3, NoneMoves
<1>10. ASSUME NEW i \in Inst, TakeMessage(i) \/ Send(i) \/ SendFails(i) PROVE IInv'
    BY <1>10, Step_TakeMessage, Step_Send, Step_SendFails
<1> QED
    BY <1>3, <1>4, <1>5, <1>6, <1>7, <1>8, <1>9, <1>10
    DEF Next, RequesterStep, DownloaderStep, SenderStep

LEMMA Invariant == Spec => []IInv
<1>1. Init => IInv
    BY Lifecycle_Init
<1>2. IInv /\ [Next]_vars => IInv'
    BY Lifecycle_Step
<1> QED
    BY <1>1, <1>2, PTL DEF Spec

-----------------------------------------------------------------------------
(* The theorem.                                                            *)

\* The threads of every start share the queues: through any number of stops
\* and starts a request is in one place at most, and one for data in one, be
\* it a queue, a thread, the wire or among those that could not be sent.
THEOREM RequestsAnsweredOnce == Spec => []AnsweredOnce
<1>1. ASSUME IInv PROVE AnsweredOnce
    <2>1. QueueTypes /\ DistinctInv /\ PlaceInv
        BY <1>1 DEF IInv
    <2>2. DOMAIN asked = 1..Len(asked) /\ Len(asked) \in Nat
        BY <2>1 DEF QueueTypes
    <2>3. SUFFICES ASSUME NEW n \in DOMAIN asked
                   PROVE  /\ \A a, b \in Places(n) : a = b
                          /\ asked[n] = "dataRequest" => Places(n) # {}
        BY DEF AnsweredOnce
    <2>4. n \in Nat \ {0} /\ n <= Len(asked)
        BY <2>2
    <2>5. OnePlace(n) /\ (asked[n] = "dataRequest" => SomePlace(n))
        BY <2>1, <2>4 DEF PlaceInv
    <2>6. \A a \in Places(n) :
              \/ \E i \in DOMAIN inbox : inbox[i] = n /\ a = <<"inbox", i>>
              \/ \E i \in Inst : work[i] = n /\ a = <<"work", i>>
              \/ \E i \in DOMAIN outbox : outbox[i] = n /\ a = <<"outbox", i>>
              \/ \E i \in Inst : sender[i] = "send" /\ hand[i] = n /\ a = <<"hand", i>>
              \/ \E i \in DOMAIN wire : wire[i] = n /\ a = <<"wire", i>>
              \/ n \in failed /\ a = <<"failed", n>>
        BY DEF Places
    <2>7. /\ \A i, j \in DOMAIN inbox : inbox[i] = n /\ inbox[j] = n => i = j
          /\ \A i, j \in DOMAIN outbox : outbox[i] = n /\ outbox[j] = n => i = j
          /\ \A i, j \in DOMAIN wire : wire[i] = n /\ wire[j] = n => i = j
        BY <2>1, <2>4 DEF DistinctInv, Distinct
    <2>8. /\ \A i, j \in Inst : work[i] = n /\ work[j] = n => i = j
          /\ \A i, j \in Inst : /\ sender[i] = "send" /\ hand[i] = n
                                /\ sender[j] = "send" /\ hand[j] = n
                                => i = j
        BY <2>1, <2>4 DEF DistinctInv
    <2>9. \A a, b \in Places(n) : a = b
        <3>1. CASE Received(n)
            BY <2>5, <2>6, <2>7, <3>1 DEF OnePlace, Received, InWork, ToSend, InHand, Gone, InQueue
        <3>2. CASE InWork(n)
            BY <2>5, <2>6, <2>8, <3>2 DEF OnePlace, Received, InWork, ToSend, InHand, Gone, InQueue
        <3>3. CASE ToSend(n)
            BY <2>5, <2>6, <2>7, <3>3 DEF OnePlace, Received, InWork, ToSend, InHand, Gone, InQueue
        <3>4. CASE InHand(n)
            BY <2>5, <2>6, <2>8, <3>4 DEF OnePlace, Received, InWork, ToSend, InHand, Gone, InQueue
        <3>5. CASE Gone(n)
            BY <2>5, <2>6, <2>7, <3>5 DEF OnePlace, Received, InWork, ToSend, InHand, Gone, InQueue
        <3>6. CASE ~Received(n) /\ ~InWork(n) /\ ~ToSend(n) /\ ~InHand(n) /\ ~Gone(n)
            BY <2>6, <3>6 DEF Received, InWork, ToSend, InHand, Gone, InQueue
        <3> QED
            BY <3>1, <3>2, <3>3, <3>4, <3>5, <3>6
    <2>10. SomePlace(n) => Places(n) # {}
        BY DEF Places, SomePlace, Received, InWork, ToSend, InHand, Gone, InQueue
    <2> QED
        BY <2>5, <2>9, <2>10
<1> QED
    BY <1>1, Invariant, PTL

-----------------------------------------------------------------------------
(* The bitfields of the peers: what the state is made of.                  *)

UpdateMessage == [from : Peer, piece : Piece]
FieldMessage == [from : Peer, field : SUBSET Piece]

BitfieldsTypes ==
    /\ has \in [Peer -> SUBSET Piece] /\ fresh \in [Peer -> SUBSET Piece]
    /\ fields \in [Peer -> Seq(FieldMessage)]
    /\ channel \in [Peer -> Seq(FieldMessage \cup UpdateMessage)]
    /\ asks \in [Peer -> Nat]
    /\ newPeers \in Seq(Peer) /\ (adding = {} \/ \E q \in Peer : adding = {q})
    /\ requests \in Seq(UpdateMessage) /\ responses \in Seq(FieldMessage)
    /\ DOMAIN bitfields \subseteq Peer /\ \A q \in DOMAIN bitfields : bitfields[q] \subseteq Piece
    /\ rarity \in [Piece -> Int]
    /\ step \in 1..4 /\ (step > 1 => responses # <<>>)

\* What is on its way from a peer names it.
FromInv ==
    \A q \in Peer :
        /\ \A k \in DOMAIN fields[q] : fields[q][k].from = q
        /\ \A k \in DOMAIN channel[q] : channel[q][k].from = q

\* A message is told to be a bitfield by what it is made of.
LEMMA MessageKinds ==
    /\ \A m \in FieldMessage : IsField(m)
    /\ \A m \in UpdateMessage : ~IsField(m)
    BY DEF FieldMessage, UpdateMessage, IsField

\* Bitfields and updates are messages of their peer.
LEMMA NewMessages ==
    ASSUME NEW q \in Peer
    PROVE  /\ \A f \in SUBSET Piece : Field(q, f) \in FieldMessage /\ Field(q, f).from = q /\ Field(q, f).field = f
           /\ \A i \in Piece : Update(q, i) \in UpdateMessage /\ Update(q, i).from = q /\ Update(q, i).piece = i
    BY DEF FieldMessage, UpdateMessage, Field, Update

\* What a queue is with a message at its end.
LEMMA AppendIs ==
    ASSUME NEW S, NEW s \in Seq(S), NEW m \in S
    PROVE  /\ Append(s, m) \in Seq(S) /\ Append(s, m) # <<>>
           /\ Len(s) \in Nat /\ DOMAIN s = 1..Len(s) /\ DOMAIN Append(s, m) = 1..(Len(s) + 1)
           /\ \A k \in DOMAIN s : Append(s, m)[k] = s[k]
           /\ Append(s, m)[Len(s) + 1] = m
    OBVIOUS

\* What a queue is without its first message.
LEMMA TailIs ==
    ASSUME NEW S, NEW s \in Seq(S), s # <<>>
    PROVE  /\ Tail(s) \in Seq(S) /\ Head(s) = s[1] /\ s[1] \in S /\ 1 \in DOMAIN s
           /\ Len(s) \in Nat \ {0} /\ DOMAIN s = 1..Len(s) /\ DOMAIN Tail(s) = 1..(Len(s) - 1)
           /\ \A k \in DOMAIN Tail(s) : Tail(s)[k] = s[k + 1]
    OBVIOUS

\* What the chooser knows when it has stored a bitfield.
LEMMA StoredIs ==
    ASSUME NEW q \in Peer, NEW f \in SUBSET Piece, bitfields' = Stored(q, f)
    PROVE  /\ DOMAIN bitfields' = DOMAIN bitfields \cup {q}
           /\ bitfields'[q] = f
           /\ \A p \in DOMAIN bitfields : p # q => bitfields'[p] = bitfields[p]
    BY DEF Stored

\* At the start nothing is known and nothing is on its way.
LEMMA Bitfields_Init == BitfieldsInit => BitfieldsTypes /\ FromInv
<1> SUFFICES ASSUME BitfieldsInit PROVE BitfieldsTypes /\ FromInv
    OBVIOUS
<1>1. DOMAIN bitfields = {}
    BY DEF BitfieldsInit
<1>2. \A q \in Peer : fields[q] = <<>> /\ channel[q] = <<>>
    BY DEF BitfieldsInit
<1>3. fields \in [Peer -> Seq(FieldMessage)] /\ channel \in [Peer -> Seq(FieldMessage \cup UpdateMessage)]
    BY DEF BitfieldsInit
<1>4. /\ has \in [Peer -> SUBSET Piece] /\ fresh \in [Peer -> SUBSET Piece] /\ asks \in [Peer -> Nat]
      /\ newPeers = <<>> /\ adding = {} /\ requests = <<>> /\ responses = <<>> /\ step = 1
      /\ rarity \in [Piece -> Int]
    BY DEF BitfieldsInit
<1>5. newPeers \in Seq(Peer) /\ requests \in Seq(UpdateMessage) /\ responses \in Seq(FieldMessage)
    BY <1>4
<1>6. BitfieldsTypes
    <2>1. DOMAIN bitfields \subseteq Peer /\ \A q \in DOMAIN bitfields : bitfields[q] \subseteq Piece
        BY <1>1
    <2>2. step \in 1..4 /\ (step > 1 => responses # <<>>)
        BY <1>4
    <2> QED
        BY <2>1, <2>2, <1>3, <1>4, <1>5 DEF BitfieldsTypes
<1>7. FromInv
    BY <1>2 DEF FromInv
<1> QED
    BY <1>6, <1>7

-----------------------------------------------------------------------------
(* What each step does to the queues.                                      *)

\* The second half of handle(fileInterested), on the queues.
LEMMA TakeBitfieldIs ==
    ASSUME BitfieldsTypes, NEW q \in Peer, TakeBitfield(q)
    PROVE  /\ fields' \in [Peer -> Seq(FieldMessage)]
           /\ fields'[q] = Append(fields[q], Field(q, has[q]))
           /\ \A p \in Peer : p # q => fields'[p] = fields[p]
<1>1. Field(q, has[q]) \in FieldMessage
    BY NewMessages DEF BitfieldsTypes
<1>2. Append(fields[q], Field(q, has[q])) \in Seq(FieldMessage)
    BY <1>1, AppendIs DEF BitfieldsTypes
<1> QED
    BY <1>2 DEF BitfieldsTypes, TakeBitfield

\* sendMessages, on the queues.
LEMMA SendFieldIs ==
    ASSUME BitfieldsTypes, NEW q \in Peer, SendField(q)
    PROVE  /\ fields' \in [Peer -> Seq(FieldMessage)] /\ channel' \in [Peer -> Seq(FieldMessage \cup UpdateMessage)]
           /\ fields[q] # <<>> /\ Head(fields[q]) \in FieldMessage /\ fields'[q] = Tail(fields[q])
           /\ channel'[q] = channel[q] \/ channel'[q] = Append(channel[q], Head(fields[q]))
           /\ q \in connected => channel'[q] = Append(channel[q], Head(fields[q]))
           /\ \A p \in Peer : p # q => fields'[p] = fields[p] /\ channel'[p] = channel[p]
<1>1. fields[q] # <<>> /\ fields[q] \in Seq(FieldMessage)
    BY DEF BitfieldsTypes, SendField
<1>2. Tail(fields[q]) \in Seq(FieldMessage) /\ Head(fields[q]) \in FieldMessage
    BY <1>1, TailIs
<1>3. Append(channel[q], Head(fields[q])) \in Seq(FieldMessage \cup UpdateMessage)
    BY <1>2, AppendIs DEF BitfieldsTypes
<1>4. /\ fields' \in [Peer -> Seq(FieldMessage)] /\ fields'[q] = Tail(fields[q])
      /\ \A p \in Peer : p # q => fields'[p] = fields[p]
    BY <1>2 DEF BitfieldsTypes, SendField
<1>5. /\ channel' \in [Peer -> Seq(FieldMessage \cup UpdateMessage)]
      /\ channel'[q] = channel[q] \/ channel'[q] = Append(channel[q], Head(fields[q]))
      /\ q \in connected => channel'[q] = Append(channel[q], Head(fields[q]))
      /\ \A p \in Peer : p # q => channel'[p] = channel[p]
    BY <1>3 DEF BitfieldsTypes, SendField
<1> QED
    BY <1>1, <1>2, <1>4, <1>5

\* The update of a verified piece, on the queues.
LEMMA SendUpdateIs ==
    ASSUME BitfieldsTypes, NEW q \in Peer, SendUpdate(q)
    PROVE  \E i \in Piece :
           /\ i \in fresh[q] /\ fresh' = [fresh EXCEPT ![q] = @ \ {i}]
           /\ channel' \in [Peer -> Seq(FieldMessage \cup UpdateMessage)]
           /\ Update(q, i) \in UpdateMessage
           /\ channel'[q] = channel[q] \/ channel'[q] = Append(channel[q], Update(q, i))
           /\ q \in told /\ q \in connected => channel'[q] = Append(channel[q], Update(q, i))
           /\ q \notin told => channel'[q] = channel[q]
           /\ \A p \in Peer : p # q => channel'[p] = channel[p]
<1>1. PICK i \in fresh[q] :
        /\ fresh' = [fresh EXCEPT ![q] = @ \ {i}]
        /\ channel' = IF q \in Listeners \cap connected
                      THEN [channel EXCEPT ![q] = Append(@, Update(q, i))]
                      ELSE channel
    BY DEF SendUpdate
<1>2. i \in Piece
    BY DEF BitfieldsTypes
<1>3. Update(q, i) \in UpdateMessage
    BY <1>2, NewMessages
<1>4. Append(channel[q], Update(q, i)) \in Seq(FieldMessage \cup UpdateMessage)
    BY <1>3, AppendIs DEF BitfieldsTypes
<1>5. /\ channel' \in [Peer -> Seq(FieldMessage \cup UpdateMessage)]
      /\ channel'[q] = channel[q] \/ channel'[q] = Append(channel[q], Update(q, i))
      /\ q \in told /\ q \in connected => channel'[q] = Append(channel[q], Update(q, i))
      /\ q \notin told => channel'[q] = channel[q]
      /\ \A p \in Peer : p # q => channel'[p] = channel[p]
    BY <1>1, <1>4 DEF BitfieldsTypes, Listeners
<1> QED
    BY <1>1, <1>2, <1>3, <1>5

\* A connection that is lost, on the queues.
LEMMA LoseConnectionIs ==
    ASSUME BitfieldsTypes, NEW q \in Peer, LoseConnection(q)
    PROVE  /\ channel' \in [Peer -> Seq(FieldMessage \cup UpdateMessage)]
           /\ channel'[q] = <<>> /\ \A p \in Peer : p # q => channel'[p] = channel[p]
           /\ asks' \in [Peer -> Nat] /\ asks'[q] = 0 /\ \A p \in Peer : p # q => asks'[p] = asks[p]
    BY DEF BitfieldsTypes, LoseConnection

\* addMessage, on the queues.
LEMMA ArriveIs ==
    ASSUME BitfieldsTypes, NEW q \in Peer, Arrive(q)
    PROVE  /\ channel' \in [Peer -> Seq(FieldMessage \cup UpdateMessage)]
           /\ channel[q] # <<>> /\ channel'[q] = Tail(channel[q])
           /\ \A p \in Peer : p # q => channel'[p] = channel[p]
           /\ \/ /\ Head(channel[q]) \in FieldMessage
                 /\ responses' = Append(responses, Head(channel[q])) /\ requests' = requests
              \/ /\ Head(channel[q]) \in UpdateMessage
                 /\ requests' = Append(requests, Head(channel[q])) /\ responses' = responses
           /\ responses' \in Seq(FieldMessage) /\ requests' \in Seq(UpdateMessage)
<1>1. channel[q] # <<>> /\ channel[q] \in Seq(FieldMessage \cup UpdateMessage)
    BY DEF BitfieldsTypes, Arrive
<1>2. Tail(channel[q]) \in Seq(FieldMessage \cup UpdateMessage) /\ Head(channel[q]) \in FieldMessage \cup UpdateMessage
    BY <1>1, TailIs
<1>3. /\ channel' \in [Peer -> Seq(FieldMessage \cup UpdateMessage)]
      /\ channel'[q] = Tail(channel[q]) /\ \A p \in Peer : p # q => channel'[p] = channel[p]
    BY <1>2 DEF BitfieldsTypes, Arrive
<1>4. \/ /\ Head(channel[q]) \in FieldMessage
         /\ responses' = Append(responses, Head(channel[q])) /\ requests' = requests
      \/ /\ Head(channel[q]) \in UpdateMessage
         /\ requests' = Append(requests, Head(channel[q])) /\ responses' = responses
    BY <1>2, MessageKinds DEF Arrive
<1>5. responses' \in Seq(FieldMessage) /\ requests' \in Seq(UpdateMessage)
    <2>1. responses \in Seq(FieldMessage) /\ requests \in Seq(UpdateMessage)
        BY DEF BitfieldsTypes
    <2>2. CASE Head(channel[q]) \in FieldMessage /\ responses' = Append(responses, Head(channel[q])) /\ requests' = requests
        BY <2>1, <2>2, AppendIs
    <2>3. CASE Head(channel[q]) \in UpdateMessage /\ requests' = Append(requests, Head(channel[q])) /\ responses' = responses
        BY <2>1, <2>3, AppendIs
    <2> QED
        BY <1>4, <2>2, <2>3
<1> QED
    BY <1>1, <1>3, <1>4, <1>5

\* downloadFile with a peer of the list, on its tables.
LEMMA TellPeerIs ==
    ASSUME BitfieldsTypes, TellPeer
    PROVE  \E q \in Peer :
           /\ newPeers # <<>> /\ q = newPeers[1] /\ newPeers' = Tail(newPeers) /\ newPeers' \in Seq(Peer)
           /\ adding = {} /\ adding' = {q}
           /\ asks' \in [Peer -> Nat] /\ \A p \in Peer : p # q => asks'[p] = asks[p]
           /\ asks'[q] >= asks[q]
           /\ q \in connected => asks'[q] > 0
           /\ q \notin connected => asks'[q] = asks[q]
           /\ disturbed' = disturbed \ ({q} \cap connected)
<1>1. newPeers # <<>> /\ newPeers \in Seq(Peer)
    BY DEF BitfieldsTypes, TellPeer
<1>2. PICK q \in Peer : q = Head(newPeers) /\ q = newPeers[1]
    BY <1>1, TailIs
<1>3. Tail(newPeers) \in Seq(Peer)
    BY <1>1, TailIs
<1>4. /\ asks' \in [Peer -> Nat] /\ \A p \in Peer : p # q => asks'[p] = asks[p]
      /\ asks'[q] >= asks[q]
      /\ q \in connected => asks'[q] > 0
      /\ q \notin connected => asks'[q] = asks[q]
    BY <1>2 DEF BitfieldsTypes, TellPeer
<1> QED
    BY <1>1, <1>2, <1>3, <1>4 DEF TellPeer

\* handle(hasPieceUpdate), on the tables of the chooser.
LEMMA GotPieceIs ==
    ASSUME BitfieldsTypes, GotPiece
    PROVE  \E q \in Peer, i \in Piece :
           /\ requests # <<>> /\ requests[1].from = q /\ requests[1].piece = i
           /\ requests' = Tail(requests) /\ requests' \in Seq(UpdateMessage)
           /\ q \notin DOMAIN bitfields => crashed' = {q} /\ UNCHANGED chooserVars
           /\ q \in DOMAIN bitfields =>
                /\ bitfields' = Stored(q, bitfields[q] \cup {i})
                /\ rarity' = IF i \in bitfields[q] THEN rarity ELSE [rarity EXCEPT ![i] = @ + 1]
                /\ disturbed' = IF \E f \in Pending(q) : i \notin f.field THEN disturbed \cup {q} ELSE disturbed
                /\ overlapped' = (overlapped \/ AtWork(q))
                /\ crashed' = crashed
<1>1. requests # <<>> /\ requests \in Seq(UpdateMessage)
    BY DEF BitfieldsTypes, GotPiece
<1>2. /\ Head(requests) = requests[1] /\ requests[1] \in UpdateMessage /\ Tail(requests) \in Seq(UpdateMessage)
    BY <1>1, TailIs
<1>3. requests[1].from \in Peer /\ requests[1].piece \in Piece
    BY <1>2 DEF UpdateMessage
<1>4. PICK q \in Peer, i \in Piece : requests[1].from = q /\ requests[1].piece = i
    BY <1>3
<1>5. requests' = Tail(requests)
    BY DEF GotPiece
<1>6. ASSUME q \notin DOMAIN bitfields PROVE crashed' = {q} /\ UNCHANGED chooserVars
    BY <1>2, <1>4, <1>6 DEF GotPiece
<1>7. ASSUME q \in DOMAIN bitfields
      PROVE  /\ bitfields' = Stored(q, bitfields[q] \cup {i})
             /\ rarity' = IF i \in bitfields[q] THEN rarity ELSE [rarity EXCEPT ![i] = @ + 1]
             /\ disturbed' = IF \E f \in Pending(q) : i \notin f.field THEN disturbed \cup {q} ELSE disturbed
             /\ overlapped' = (overlapped \/ AtWork(q))
             /\ crashed' = crashed
    <2>1. /\ bitfields' = [bitfields EXCEPT ![q] = @ \cup {i}]
          /\ rarity' = IF i \in bitfields[q] THEN rarity ELSE [rarity EXCEPT ![i] = @ + 1]
          /\ disturbed' = IF \E f \in Pending(q) : i \notin f.field THEN disturbed \cup {q} ELSE disturbed
          /\ overlapped' = (overlapped \/ AtWork(q))
          /\ crashed' = crashed
        BY <1>2, <1>4, <1>7 DEF GotPiece
    <2>2. DOMAIN bitfields \cup {q} = DOMAIN bitfields
        BY <1>7
    <2>3. [bitfields EXCEPT ![q] = @ \cup {i}] = Stored(q, bitfields[q] \cup {i})
        BY <2>2 DEF Stored
    <2> QED
        BY <2>1, <2>3
<1> QED
    BY <1>1, <1>2, <1>4, <1>5, <1>6, <1>7

\* The steps of handleResponses with a bitfield.
Removes == step = 1 /\ step' = 2 /\ responses' = responses /\ bitfields' = bitfields
           /\ UNCHANGED <<states, described>>
           /\ rarity' = IF responses[1].from \in DOMAIN bitfields THEN Without(responses[1].from) ELSE rarity
Stores == step = 2 /\ step' = 3 /\ responses' = responses /\ rarity' = rarity
          /\ UNCHANGED <<states, described>>
          /\ bitfields' = Stored(responses[1].from, responses[1].field)
Adds == step = 3 /\ step' = 4 /\ responses' = responses /\ bitfields' = bitfields
        /\ UNCHANGED <<states, described>>
        /\ rarity' = With(responses[1].field)
Reports == step = 4 /\ step' = 1 /\ responses' = Tail(responses) /\ bitfields' = bitfields /\ rarity' = rarity
           /\ described' = described \cup {responses[1].from}

\* The order in which handleResponses works on a bitfield.
LEMMA StepsAre ==
    /\ Len(Steps) = 4
    /\ Steps[1] = "remove" /\ Steps[2] = "store" /\ Steps[3] = "add" /\ Steps[4] = "state"
    BY DEF Steps

\* handleResponses takes one of its steps with the first bitfield.
LEMMA HandleFieldIs ==
    ASSUME BitfieldsTypes, HandleField
    PROVE  /\ responses # <<>> /\ responses[1] \in FieldMessage
           /\ responses[1].from \in Peer /\ responses[1].field \in SUBSET Piece
           /\ Removes \/ Stores \/ Adds \/ Reports
<1>1. responses # <<>> /\ responses \in Seq(FieldMessage)
    BY DEF BitfieldsTypes, HandleField
<1>2. Head(responses) = responses[1] /\ responses[1] \in FieldMessage
    BY <1>1, TailIs
<1>3. responses[1].from \in Peer /\ responses[1].field \in SUBSET Piece
    BY <1>2 DEF FieldMessage
<1>4. /\ step' = (step % 4) + 1
      /\ responses' = IF step = 4 THEN Tail(responses) ELSE responses
    BY StepsAre DEF HandleField
<1>5. step \in 1..4
    BY DEF BitfieldsTypes
<1>6. CASE step = 1
    <2>1. /\ rarity' = IF responses[1].from \in DOMAIN bitfields THEN Without(responses[1].from) ELSE rarity
          /\ UNCHANGED <<bitfields, states, described>>
        BY <1>2, <1>6, StepsAre DEF HandleField
    <2> QED
        BY <1>1, <1>2, <1>3, <1>4, <1>6, <2>1 DEF Removes
<1>7. CASE step = 2
    <2>1. bitfields' = Stored(responses[1].from, responses[1].field) /\ UNCHANGED <<rarity, states, described>>
        BY <1>2, <1>7, StepsAre DEF HandleField
    <2> QED
        BY <1>1, <1>2, <1>3, <1>4, <1>7, <2>1 DEF Stores
<1>8. CASE step = 3
    <2>1. rarity' = With(responses[1].field) /\ UNCHANGED <<bitfields, states, described>>
        BY <1>2, <1>8, StepsAre DEF HandleField
    <2> QED
        BY <1>1, <1>2, <1>3, <1>4, <1>8, <2>1 DEF Adds
<1>9. CASE step = 4
    <2>1. described' = described \cup {responses[1].from} /\ UNCHANGED <<bitfields, rarity>>
        BY <1>2, <1>9, StepsAre DEF HandleField
    <2> QED
        BY <1>1, <1>2, <1>3, <1>4, <1>9, <2>1 DEF Reports
<1> QED
    BY <1>5, <1>6, <1>7, <1>8, <1>9

\* What comes from a peer names it.
AllFrom(q, s) == \A k \in DOMAIN s : s[k].from = q

\* Queues of one peer stay so.
LEMMA AllFromQueue ==
    ASSUME NEW S, NEW s \in Seq(S), NEW q, AllFrom(q, s)
    PROVE  /\ AllFrom(q, <<>>)
           /\ s # <<>> => s[1].from = q /\ AllFrom(q, Tail(s))
           /\ \A m \in S : m.from = q => AllFrom(q, Append(s, m))
<1>1. AllFrom(q, <<>>)
    BY DEF AllFrom
<1>2. ASSUME s # <<>> PROVE s[1].from = q /\ AllFrom(q, Tail(s))
    BY <1>2, TailIs DEF AllFrom
<1>3. ASSUME NEW m \in S, m.from = q PROVE AllFrom(q, Append(s, m))
    BY <1>3, AppendIs DEF AllFrom
<1> QED
    BY <1>1, <1>2, <1>3

\* The queues of one peer change.
LEMMA FromStep ==
    ASSUME FromInv, BitfieldsTypes, NEW q \in Peer,
           \A p \in Peer : p # q => fields'[p] = fields[p] /\ channel'[p] = channel[p],
           AllFrom(q, fields'[q]), AllFrom(q, channel'[q])
    PROVE  FromInv'
    BY DEF FromInv, AllFrom

\* The table of the chooser stays one of bitfields.
LEMMA StoredType ==
    ASSUME BitfieldsTypes, NEW q \in Peer, NEW f \in SUBSET Piece, bitfields' = Stored(q, f)
    PROVE  DOMAIN bitfields' \subseteq Peer /\ \A p \in DOMAIN bitfields' : bitfields'[p] \subseteq Piece
<1>1. DOMAIN bitfields' \subseteq Peer
    BY StoredIs DEF BitfieldsTypes
<1>2. ASSUME NEW p \in DOMAIN bitfields' PROVE bitfields'[p] \subseteq Piece
    <2>1. CASE p = q
        <3>1. bitfields'[p] = f
            BY <2>1, StoredIs
        <3> QED
            BY <3>1
    <2>2. CASE p # q
        <3>1. p \in DOMAIN bitfields /\ bitfields'[p] = bitfields[p]
            BY <1>2, <2>2, StoredIs
        <3> QED
            BY <3>1 DEF BitfieldsTypes
    <2> QED
        BY <2>1, <2>2
<1> QED
    BY <1>1, <1>2

\* Every step keeps the types, and the senders of the messages.
LEMMA Bitfields_Types ==
    ASSUME BitfieldsTypes, FromInv, [BitfieldsNext]_bitfieldsVars
    PROVE  BitfieldsTypes' /\ FromInv'
<1> DEFINE AllMessages == FieldMessage \cup UpdateMessage
<1>1. ASSUME NEW q \in Peer
      PROVE  /\ fields[q] \in Seq(FieldMessage) /\ channel[q] \in Seq(AllMessages)
             /\ AllFrom(q, fields[q]) /\ AllFrom(q, channel[q])
    BY DEF BitfieldsTypes, FromInv, AllFrom
<1>2. CASE UNCHANGED <<has, fresh, fields, channel, asks, newPeers, adding, requests, responses, bitfields, rarity, step>>
    BY <1>2 DEF BitfieldsTypes, FromInv
<1>3. ASSUME UNCHANGED <<fields, channel>> PROVE FromInv'
    BY <1>3 DEF FromInv
<1>4. ASSUME NEW q \in Peer, TakeInterest(q) PROVE BitfieldsTypes' /\ FromInv'
    <2>1. asks' \in [Peer -> Nat]
        BY <1>4 DEF BitfieldsTypes, TakeInterest
    <2> QED
        BY <1>3, <1>4, <2>1 DEF BitfieldsTypes, TakeInterest, managerVars, chooserVars, threadVars
<1>5. ASSUME NEW q \in Peer, TakeBitfield(q) PROVE BitfieldsTypes' /\ FromInv'
    <2>1. /\ fields' \in [Peer -> Seq(FieldMessage)]
          /\ fields'[q] = Append(fields[q], Field(q, has[q]))
          /\ \A p \in Peer : p # q => fields'[p] = fields[p]
        BY <1>5, TakeBitfieldIs
    <2>2. Field(q, has[q]) \in FieldMessage /\ Field(q, has[q]).from = q
        BY NewMessages DEF BitfieldsTypes
    <2>3. AllFrom(q, fields'[q])
        BY <1>1, <2>1, <2>2, AllFromQueue
    <2>4. UNCHANGED channel
        BY <1>5 DEF TakeBitfield, netVars
    <2>5. FromInv'
        BY <1>1, <2>1, <2>3, <2>4, FromStep
    <2> QED
        BY <1>5, <2>1, <2>5 DEF BitfieldsTypes, TakeBitfield, netVars, managerVars, chooserVars, threadVars
<1>6. ASSUME NEW q \in Peer, SendField(q) PROVE BitfieldsTypes' /\ FromInv'
    <2>1. /\ fields' \in [Peer -> Seq(FieldMessage)] /\ channel' \in [Peer -> Seq(AllMessages)]
          /\ fields[q] # <<>> /\ Head(fields[q]) \in FieldMessage /\ fields'[q] = Tail(fields[q])
          /\ channel'[q] = channel[q] \/ channel'[q] = Append(channel[q], Head(fields[q]))
          /\ \A p \in Peer : p # q => fields'[p] = fields[p] /\ channel'[p] = channel[p]
        BY <1>6, SendFieldIs
    <2>2. Head(fields[q]).from = q /\ AllFrom(q, fields'[q])
        BY <1>1, <2>1, AllFromQueue, TailIs
    <2>3. AllFrom(q, channel'[q])
        <3>1. Head(fields[q]) \in AllMessages
            BY <2>1
        <3>2. AllFrom(q, Append(channel[q], Head(fields[q])))
            BY <1>1, <2>2, <3>1, AllFromQueue
        <3> QED
            BY <1>1, <2>1, <3>2
    <2>4. FromInv'
        BY <2>1, <2>2, <2>3, FromStep
    <2> QED
        BY <1>6, <2>1, <2>4 DEF BitfieldsTypes, SendField, managerVars, chooserVars, threadVars
<1>7. ASSUME NEW q \in Peer, NEW i \in Piece, Verify(q, i) PROVE BitfieldsTypes' /\ FromInv'
    <2>1. has' \in [Peer -> SUBSET Piece] /\ fresh' \in [Peer -> SUBSET Piece]
        BY <1>7 DEF BitfieldsTypes, Verify
    <2> QED
        BY <1>3, <1>7, <2>1 DEF BitfieldsTypes, Verify, netVars, managerVars, chooserVars, threadVars
<1>8. ASSUME NEW q \in Peer, SendUpdate(q) PROVE BitfieldsTypes' /\ FromInv'
    <2>1. PICK i \in Piece :
          /\ fresh' = [fresh EXCEPT ![q] = @ \ {i}]
          /\ channel' \in [Peer -> Seq(AllMessages)]
          /\ Update(q, i) \in UpdateMessage
          /\ channel'[q] = channel[q] \/ channel'[q] = Append(channel[q], Update(q, i))
          /\ \A p \in Peer : p # q => channel'[p] = channel[p]
        BY <1>8, SendUpdateIs
    <2>2. Update(q, i).from = q
        BY NewMessages
    <2>3. AllFrom(q, channel'[q])
        <3>1. Update(q, i) \in AllMessages
            BY <2>1
        <3>2. AllFrom(q, Append(channel[q], Update(q, i)))
            BY <1>1, <2>2, <3>1, AllFromQueue
        <3> QED
            BY <1>1, <2>1, <3>2
    <2>4. FromInv'
        BY <1>1, <1>8, <2>1, <2>3, FromStep DEF SendUpdate
    <2>5. fresh' \in [Peer -> SUBSET Piece]
        BY <2>1 DEF BitfieldsTypes
    <2> QED
        BY <1>8, <2>1, <2>4, <2>5 DEF BitfieldsTypes, SendUpdate, managerVars, chooserVars, threadVars
<1>9. ASSUME NEW q \in Peer, FindPeer(q) PROVE BitfieldsTypes' /\ FromInv'
    <2>1. newPeers' \in Seq(Peer)
        BY <1>9, AppendIs DEF FindPeer, BitfieldsTypes
    <2> QED
        BY <1>3, <1>9, <2>1 DEF BitfieldsTypes, FindPeer, otherVars, chooserVars, threadVars
<1>10. ASSUME NEW q \in Peer, AnswerInterest(q) PROVE BitfieldsTypes' /\ FromInv'
    <2>1. asks' \in [Peer -> Nat]
        BY <1>10 DEF BitfieldsTypes, AnswerInterest
    <2> QED
        BY <1>3, <1>10, <2>1 DEF BitfieldsTypes, AnswerInterest, otherVars, threadVars
<1>11. ASSUME NEW q \in Peer, LoseConnection(q) PROVE BitfieldsTypes' /\ FromInv'
    <2>1. /\ channel' \in [Peer -> Seq(AllMessages)]
          /\ channel'[q] = <<>> /\ \A p \in Peer : p # q => channel'[p] = channel[p]
          /\ asks' \in [Peer -> Nat]
        BY <1>11, LoseConnectionIs
    <2>2. AllFrom(q, channel'[q])
        BY <2>1 DEF AllFrom
    <2>3. FromInv'
        BY <1>1, <1>11, <2>1, <2>2, FromStep DEF LoseConnection
    <2> QED
        BY <1>11, <2>1, <2>3 DEF BitfieldsTypes, LoseConnection, managerVars, threadVars
<1>12. ASSUME NEW q \in Peer, ErasePeer(q) PROVE BitfieldsTypes' /\ FromInv'
    BY <1>2, <1>12 DEF ErasePeer, otherVars, netVars, chooserVars, threadVars
<1>13. ASSUME NEW q \in Peer, AddPeer(q) PROVE BitfieldsTypes' /\ FromInv'
    <2>1. adding' = {} /\ bitfields' = Stored(q, {})
        BY <1>13 DEF AddPeer
    <2>2. DOMAIN bitfields' \subseteq Peer /\ \A p \in DOMAIN bitfields' : bitfields'[p] \subseteq Piece
        BY <1>13, <2>1, StoredType
    <2> QED
        BY <1>3, <1>13, <2>1, <2>2 DEF BitfieldsTypes, AddPeer, otherVars, netVars, threadVars
<1>14. ASSUME NEW q \in Peer, Arrive(q) PROVE BitfieldsTypes' /\ FromInv'
    <2>1. /\ channel' \in [Peer -> Seq(AllMessages)]
          /\ channel[q] # <<>> /\ channel'[q] = Tail(channel[q])
          /\ \A p \in Peer : p # q => channel'[p] = channel[p]
          /\ responses' \in Seq(FieldMessage) /\ requests' \in Seq(UpdateMessage)
          /\ responses' = responses \/ (\E m \in FieldMessage : responses' = Append(responses, m))
        BY <1>14, ArriveIs
    <2>4. responses' = responses \/ responses' # <<>>
        BY <2>1, AppendIs DEF BitfieldsTypes
    <2>2. AllFrom(q, channel'[q])
        BY <1>1, <2>1, AllFromQueue
    <2>3. FromInv'
        BY <1>1, <1>14, <2>1, <2>2, FromStep DEF Arrive, otherVars
    <2> QED
        BY <1>14, <2>1, <2>3, <2>4 DEF BitfieldsTypes, Arrive, otherVars, managerVars, chooserVars
<1>15. ASSUME TellPeer PROVE BitfieldsTypes' /\ FromInv'
    <2>1. newPeers' \in Seq(Peer) /\ (\E q \in Peer : adding' = {q}) /\ asks' \in [Peer -> Nat]
        BY <1>15, TellPeerIs
    <2> QED
        BY <1>3, <1>15, <2>1 DEF BitfieldsTypes, TellPeer, otherVars, threadVars
<1>16. ASSUME GotPiece PROVE BitfieldsTypes' /\ FromInv'
    <2>1. PICK q \in Peer, i \in Piece :
           /\ requests' \in Seq(UpdateMessage)
           /\ q \notin DOMAIN bitfields => UNCHANGED chooserVars
           /\ q \in DOMAIN bitfields =>
                /\ bitfields' = Stored(q, bitfields[q] \cup {i})
                /\ rarity' = IF i \in bitfields[q] THEN rarity ELSE [rarity EXCEPT ![i] = @ + 1]
        BY <1>16, GotPieceIs
    <2>2. UNCHANGED <<bitfields, rarity>> \/ q \in DOMAIN bitfields
        BY <2>1 DEF chooserVars
    <2>3. rarity' \in [Piece -> Int]
        BY <2>1, <2>2 DEF BitfieldsTypes
    <2>4. DOMAIN bitfields' \subseteq Peer /\ \A p \in DOMAIN bitfields' : bitfields'[p] \subseteq Piece
        <3>1. CASE q \in DOMAIN bitfields
            <4>1. bitfields[q] \cup {i} \in SUBSET Piece
                BY <3>1 DEF BitfieldsTypes
            <4> QED
                BY <2>1, <3>1, <4>1, StoredType
        <3> QED
            BY <2>2, <3>1 DEF BitfieldsTypes
    <2> QED
        BY <1>3, <1>16, <2>1, <2>3, <2>4 DEF BitfieldsTypes, GotPiece, otherVars, netVars, managerVars
<1>17. ASSUME HandleField PROVE BitfieldsTypes' /\ FromInv'
    <2>1. /\ responses # <<>> /\ responses \in Seq(FieldMessage)
          /\ responses[1].from \in Peer /\ responses[1].field \in SUBSET Piece
        BY <1>17, HandleFieldIs DEF BitfieldsTypes
    <2>2. responses' \in Seq(FieldMessage) /\ step' \in 1..4 /\ (step' > 1 => responses' # <<>>)
        BY <1>17, <2>1, HandleFieldIs, TailIs DEF Removes, Stores, Adds, Reports
    <2>3. rarity' \in [Piece -> Int]
        BY <1>17, HandleFieldIs DEF BitfieldsTypes, Removes, Stores, Adds, Reports, Without, With
    <2>4. DOMAIN bitfields' \subseteq Peer /\ \A p \in DOMAIN bitfields' : bitfields'[p] \subseteq Piece
        <3>1. CASE bitfields' = Stored(responses[1].from, responses[1].field)
            BY <2>1, <3>1, StoredType
        <3> QED
            BY <1>17, <3>1, HandleFieldIs DEF BitfieldsTypes, Removes, Stores, Adds, Reports
    <2> QED
        BY <1>3, <1>17, <2>2, <2>3, <2>4 DEF BitfieldsTypes, HandleField, otherVars, netVars
<1>18. CASE UNCHANGED bitfieldsVars
    BY <1>2, <1>18 DEF bitfieldsVars, otherVars, netVars, managerVars, chooserVars, threadVars
<1> QED
    BY <1>4, <1>5, <1>6, <1>7, <1>8, <1>9, <1>10, <1>11, <1>12, <1>13, <1>14, <1>15, <1>16, <1>17, <1>18
    DEF BitfieldsNext

-----------------------------------------------------------------------------
(* Who sends updates is known.                                             *)

Waits(q) == \E k \in DOMAIN newPeers : newPeers[k] = q

\* A peer whose interest is answered, or one that was found.
Origin(q) == q \in answered \/ q \in adding \/ Waits(q) \/ q \in DOMAIN bitfields

\* A peer of which nothing comes and nothing is asked.
Silent(q) ==
    /\ asks[q] = 0 /\ q \notin told /\ q \notin replying
    /\ fields[q] = <<>> /\ channel[q] = <<>>
    /\ \A k \in DOMAIN requests : requests[k].from # q

OriginInv == \A q \in Peer : Origin(q) \/ Silent(q)
CrashInv == \A q \in crashed : Origin(q) /\ q \notin DOMAIN bitfields
DescribedInv ==
    /\ described \subseteq DOMAIN bitfields
    /\ step > 2 => responses[1].from \in DOMAIN bitfields

KnownInv == OriginInv /\ CrashInv /\ DescribedInv

\* The steps of the downloader change its tables while the program runs.
OtherSide == UNCHANGED <<newPeers, adding, bitfields, rarity, answered, described, step, responses, requests,
                         crashed, disturbed, overlapped>>

\* The tables of the downloader are changed while its program runs.
LEMMA OtherSideSteps ==
    ASSUME BitfieldsTypes, [BitfieldsNext]_bitfieldsVars
    PROVE  OtherSide \/ Runs
<1>1. ASSUME NEW q \in Peer,
             \/ TakeInterest(q) \/ TakeBitfield(q) \/ SendField(q) \/ SendUpdate(q)
             \/ \E i \in Piece : Verify(q, i)
      PROVE  OtherSide
    BY <1>1 DEF TakeInterest, TakeBitfield, SendField, Verify, SendUpdate, OtherSide, managerVars, chooserVars, threadVars
<1>2. ASSUME NEW q \in Peer,
             FindPeer(q) \/ AnswerInterest(q) \/ LoseConnection(q) \/ ErasePeer(q) \/ AddPeer(q) \/ Arrive(q)
      PROVE  Runs
    BY <1>2 DEF FindPeer, AnswerInterest, LoseConnection, ErasePeer, AddPeer, Arrive
<1>3. TellPeer \/ GotPiece \/ HandleField => Runs
    BY DEF TellPeer, GotPiece, HandleField
<1>4. UNCHANGED bitfieldsVars => OtherSide
    BY DEF OtherSide, bitfieldsVars, managerVars, chooserVars, threadVars
<1> QED
    BY <1>1, <1>2, <1>3, <1>4 DEF BitfieldsNext

\* The chooser forgets no peer: updateConnectedPeers does not tell it.
LEMMA DomainGrows ==
    ASSUME BitfieldsTypes, [BitfieldsNext]_bitfieldsVars
    PROVE  DOMAIN bitfields \subseteq DOMAIN bitfields'
<1>1. ASSUME NEW q \in Peer, AddPeer(q) PROVE DOMAIN bitfields \subseteq DOMAIN bitfields'
    BY <1>1 DEF AddPeer, Stored
<1>2. ASSUME GotPiece PROVE DOMAIN bitfields \subseteq DOMAIN bitfields'
    <2>1. PICK q \in Peer, i \in Piece :
           /\ q \notin DOMAIN bitfields => UNCHANGED chooserVars
           /\ q \in DOMAIN bitfields => bitfields' = Stored(q, bitfields[q] \cup {i})
        BY <1>2, GotPieceIs
    <2>2. CASE q \in DOMAIN bitfields
        BY <2>1, <2>2 DEF Stored
    <2> QED
        BY <2>1, <2>2 DEF chooserVars
<1>3. ASSUME HandleField PROVE DOMAIN bitfields \subseteq DOMAIN bitfields'
    BY <1>3, HandleFieldIs DEF Removes, Stores, Adds, Reports, Stored
<1>4. UNCHANGED bitfields \/ (\E q \in Peer : AddPeer(q)) \/ GotPiece \/ HandleField
    BY DEF BitfieldsNext, TakeInterest, TakeBitfield, SendField, Verify, SendUpdate, FindPeer, AnswerInterest,
           LoseConnection, ErasePeer, Arrive, TellPeer,
           bitfieldsVars, otherVars, netVars, managerVars, chooserVars, threadVars
<1> QED
    BY <1>1, <1>2, <1>3, <1>4

\* Peers go from the list of new ones to those that are added.
LEMMA OriginKept ==
    ASSUME BitfieldsTypes, [BitfieldsNext]_bitfieldsVars, NEW p, Origin(p)
    PROVE  Origin(p)'
<1>1. DOMAIN bitfields \subseteq DOMAIN bitfields'
    BY DomainGrows
<1>2. answered \subseteq answered'
    BY DEF BitfieldsNext, TakeInterest, TakeBitfield, SendField, Verify, SendUpdate, FindPeer, AnswerInterest,
           LoseConnection, ErasePeer, AddPeer, Arrive, TellPeer, GotPiece, HandleField, bitfieldsVars
<1>3. CASE UNCHANGED <<newPeers, adding>>
    BY <1>1, <1>2, <1>3 DEF Origin, Waits
<1>4. ASSUME NEW q \in Peer, FindPeer(q) PROVE Origin(p)'
    <2>1. newPeers' = Append(newPeers, q) /\ adding' = adding /\ newPeers \in Seq(Peer)
        BY <1>4 DEF FindPeer, BitfieldsTypes
    <2>2. ASSUME Waits(p) PROVE Waits(p)'
        BY <2>1, <2>2, AppendIs DEF Waits
    <2> QED
        BY <1>1, <1>2, <2>1, <2>2 DEF Origin
<1>5. ASSUME TellPeer PROVE Origin(p)'
    <2>1. /\ newPeers # <<>> /\ newPeers \in Seq(Peer) /\ newPeers' = Tail(newPeers)
          /\ adding = {} /\ adding' = {newPeers[1]}
        BY <1>5, TellPeerIs DEF BitfieldsTypes
    <2>2. ASSUME NEW k \in DOMAIN newPeers, newPeers[k] = p, k # 1 PROVE Waits(p)'
        <3>1. k - 1 \in DOMAIN newPeers' /\ newPeers'[k - 1] = p
            BY <2>1, <2>2, TailIs
        <3> QED
            BY <3>1 DEF Waits
    <2>3. ASSUME Waits(p) PROVE p \in adding' \/ Waits(p)'
        BY <2>1, <2>2, <2>3 DEF Waits
    <2> QED
        BY <1>1, <1>2, <2>1, <2>3 DEF Origin
<1>6. ASSUME NEW q \in Peer, AddPeer(q) PROVE Origin(p)'
    <2>1. q \in adding /\ adding' = {} /\ UNCHANGED newPeers /\ q \in DOMAIN bitfields'
        BY <1>6 DEF AddPeer, Stored
    <2>2. \A r \in adding : r = q
        BY <2>1 DEF BitfieldsTypes
    <2> QED
        BY <1>1, <1>2, <2>1, <2>2 DEF Origin, Waits
<1> QED
    BY <1>3, <1>4, <1>5, <1>6
    DEF BitfieldsNext, TakeInterest, TakeBitfield, SendField, Verify, SendUpdate, AnswerInterest,
        LoseConnection, ErasePeer, Arrive, GotPiece, HandleField, bitfieldsVars, otherVars, netVars,
        managerVars, chooserVars, threadVars

\* From a peer that was not asked nothing comes.
LEMMA SilentKept ==
    ASSUME BitfieldsTypes, FromInv, [BitfieldsNext]_bitfieldsVars, NEW p \in Peer, Silent(p), ~Origin(p), ~Origin(p)'
    PROVE  Silent(p)'
<1>1. CASE UNCHANGED <<asks, told, replying, fields, channel, requests>>
    BY <1>1 DEF Silent
<1>2. ASSUME NEW q \in Peer, TakeInterest(q) PROVE Silent(p)'
    <2>1. p # q /\ asks'[p] = asks[p]
        BY <1>2 DEF TakeInterest, Silent, BitfieldsTypes
    <2> QED
        BY <1>2, <2>1 DEF TakeInterest, Silent, threadVars
<1>3. ASSUME NEW q \in Peer, TakeBitfield(q) PROVE Silent(p)'
    <2>1. p # q /\ fields'[p] = fields[p]
        BY <1>3, TakeBitfieldIs DEF TakeBitfield, Silent
    <2> QED
        BY <1>3, <2>1 DEF TakeBitfield, Silent, threadVars, netVars
<1>4. ASSUME NEW q \in Peer, SendField(q) PROVE Silent(p)'
    <2>1. p # q /\ fields'[p] = fields[p] /\ channel'[p] = channel[p]
        BY <1>4, SendFieldIs DEF Silent
    <2> QED
        BY <1>4, <2>1 DEF SendField, Silent, threadVars
<1>5. ASSUME NEW q \in Peer, SendUpdate(q) PROVE Silent(p)'
    <2>1. channel'[p] = channel[p]
        BY <1>5, SendUpdateIs DEF Silent
    <2> QED
        BY <1>5, <2>1 DEF SendUpdate, Silent, threadVars
<1>6. ASSUME NEW q \in Peer, AnswerInterest(q) PROVE Silent(p)'
    <2>1. p # q
        BY <1>6 DEF AnswerInterest, Origin
    <2>2. asks'[p] = asks[p]
        BY <1>6, <2>1 DEF AnswerInterest, BitfieldsTypes
    <2> QED
        BY <1>6, <2>2 DEF AnswerInterest, Silent, threadVars, otherVars
<1>7. ASSUME NEW q \in Peer, LoseConnection(q) PROVE Silent(p)'
    <2>1. asks'[p] = 0 /\ channel'[p] = <<>>
        BY <1>7, LoseConnectionIs DEF Silent
    <2> QED
        BY <1>7, <2>1 DEF LoseConnection, Silent, threadVars
<1>8. ASSUME NEW q \in Peer, Arrive(q) PROVE Silent(p)'
    <2>1. p # q /\ channel'[p] = channel[p]
        BY <1>8, ArriveIs DEF Silent
    <2>2. Head(channel[q]).from = q
        <3>1. channel[q] # <<>> /\ channel[q] \in Seq(FieldMessage \cup UpdateMessage)
            BY <1>8, ArriveIs DEF BitfieldsTypes
        <3> QED
            BY <3>1, TailIs DEF FromInv
    <2>3. requests' = requests \/ (Head(channel[q]) \in UpdateMessage /\ requests' = Append(requests, Head(channel[q])))
        BY <1>8, ArriveIs
    <2>4. \A k \in DOMAIN requests' : requests'[k].from # p
        <3>1. requests \in Seq(UpdateMessage) /\ \A k \in DOMAIN requests : requests[k].from # p
            BY DEF BitfieldsTypes, Silent
        <3> QED
            BY <2>1, <2>2, <2>3, <3>1, AppendIs
    <2> QED
        BY <1>8, <2>1, <2>4 DEF Arrive, Silent, otherVars
<1>9. ASSUME TellPeer PROVE Silent(p)'
    <2>1. PICK q \in Peer : newPeers # <<>> /\ q = newPeers[1] /\ \A r \in Peer : r # q => asks'[r] = asks[r]
        BY <1>9, TellPeerIs
    <2>2. q # p
        BY <2>1, TailIs DEF Origin, Waits, BitfieldsTypes
    <2> QED
        BY <1>9, <2>1, <2>2 DEF TellPeer, Silent, threadVars, otherVars
<1>10. ASSUME GotPiece PROVE Silent(p)'
    <2>1. requests # <<>> /\ requests' = Tail(requests) /\ requests \in Seq(UpdateMessage)
        BY <1>10, GotPieceIs DEF BitfieldsTypes
    <2>2. \A k \in DOMAIN requests' : requests'[k].from # p
        BY <2>1, TailIs DEF Silent
    <2> QED
        BY <1>10, <2>2 DEF GotPiece, Silent, otherVars, netVars
<1> QED
    BY <1>1, <1>2, <1>3, <1>4, <1>5, <1>6, <1>7, <1>8, <1>9, <1>10
    DEF BitfieldsNext, Verify, FindPeer, ErasePeer, AddPeer, HandleField, bitfieldsVars, otherVars, netVars,
        managerVars, chooserVars, threadVars

\* At the start nothing was asked, so nothing comes.
LEMMA Known_Init == BitfieldsInit => KnownInv
    BY DEF BitfieldsInit, KnownInv, OriginInv, CrashInv, DescribedInv, Silent

\* Every step keeps what is known of those who send updates.
LEMMA Known_Step ==
    ASSUME BitfieldsTypes, FromInv, KnownInv, [BitfieldsNext]_bitfieldsVars
    PROVE  KnownInv'
<1>1. OriginInv'
    <2> SUFFICES ASSUME NEW p \in Peer, ~Origin(p)' PROVE Silent(p)'
        BY DEF OriginInv
    <2>1. ~Origin(p)
        BY OriginKept
    <2> QED
        BY <2>1, SilentKept DEF KnownInv, OriginInv
<1>2. CrashInv'
    <2>1. CASE OtherSide
        BY <2>1, OriginKept DEF KnownInv, CrashInv, OtherSide
    <2>2. ASSUME Runs, GotPiece PROVE CrashInv'
        <3>1. PICK q \in Peer, i \in Piece :
               /\ requests # <<>> /\ requests[1].from = q
               /\ q \notin DOMAIN bitfields => crashed' = {q} /\ UNCHANGED chooserVars
               /\ q \in DOMAIN bitfields => crashed' = crashed
            BY <2>2, GotPieceIs
        <3>2. 1 \in DOMAIN requests
            BY <3>1, TailIs DEF BitfieldsTypes
        <3>3. Origin(q)
            BY <3>1, <3>2 DEF KnownInv, OriginInv, Silent
        <3>4. Origin(q)'
            BY <3>3, OriginKept
        <3> QED
            BY <2>2, <3>1, <3>4 DEF Runs, CrashInv, chooserVars
    <2>3. ASSUME Runs, ~GotPiece PROVE CrashInv'
        <3>1. crashed' = {}
            BY <2>3 DEF Runs, BitfieldsNext, TakeInterest, TakeBitfield, SendField, Verify, SendUpdate, FindPeer,
                        AnswerInterest, LoseConnection, ErasePeer, AddPeer, Arrive, TellPeer, HandleField,
                        bitfieldsVars, threadVars
        <3> QED
            BY <3>1 DEF CrashInv
    <2> QED
        BY <2>1, <2>2, <2>3, OtherSideSteps
<1>3. DescribedInv'
    <2>1. DOMAIN bitfields \subseteq DOMAIN bitfields'
        BY DomainGrows
    <2>2. ASSUME HandleField PROVE DescribedInv'
        <3>1. CASE Removes
            BY <3>1 DEF KnownInv, DescribedInv, Removes
        <3>2. CASE Stores
            BY <2>1, <3>2 DEF KnownInv, DescribedInv, Stores, Stored
        <3>3. CASE Adds
            BY <3>3 DEF KnownInv, DescribedInv, Adds
        <3>4. CASE Reports
            BY <3>4 DEF KnownInv, DescribedInv, Reports
        <3> QED
            BY <2>2, <3>1, <3>2, <3>3, <3>4, HandleFieldIs
    <2>3. ASSUME NEW q \in Peer, Arrive(q) PROVE DescribedInv'
        <3>1. UNCHANGED <<described, step, bitfields>>
            BY <2>3 DEF Arrive, managerVars, chooserVars
        <3>2. step > 2 => responses'[1] = responses[1]
            <4>1. step > 2 => responses # <<>>
                BY DEF BitfieldsTypes
            <4>2. responses \in Seq(FieldMessage)
                BY DEF BitfieldsTypes
            <4>3. responses # <<>> => responses'[1] = responses[1]
                BY <2>3, <4>2, ArriveIs, AppendIs, TailIs
            <4> QED
                BY <4>1, <4>3
        <3> QED
            BY <3>1, <3>2 DEF KnownInv, DescribedInv
    <2>4. ASSUME ~HandleField, \A q \in Peer : ~Arrive(q) PROVE DescribedInv'
        <3>1. described' \subseteq described /\ UNCHANGED <<step, responses>>
            BY <2>4 DEF BitfieldsNext, TakeInterest, TakeBitfield, SendField, Verify, SendUpdate, FindPeer,
                        AnswerInterest, LoseConnection, ErasePeer, AddPeer, TellPeer, GotPiece,
                        bitfieldsVars, threadVars, managerVars
        <3> QED
            BY <2>1, <3>1 DEF KnownInv, DescribedInv
    <2> QED
        BY <2>2, <2>3, <2>4
<1> QED
    BY <1>1, <1>2, <1>3 DEF KnownInv

\* Whoever is asked for pieces is in the chooser's map, where its bitfield was
\* stored before the manager was told of it; and an update, which only comes
\* from peers that were asked, is of one that is in the map, or whose own
\* interest was answered, or that is about to be added.
THEOREM UsedAreKnown == BitfieldsSpec => []KnownBeforeUse
<1> DEFINE Inv == BitfieldsTypes /\ FromInv /\ KnownInv
<1>1. BitfieldsInit => Inv
    BY Bitfields_Init, Known_Init
<1>2. Inv /\ [BitfieldsNext]_bitfieldsVars => Inv'
    BY Bitfields_Types, Known_Step
<1>3. Inv => KnownBeforeUse
    BY DEF KnownInv, CrashInv, DescribedInv, Origin, Waits, KnownBeforeUse, Requestable, ToSet
<1> QED
    BY <1>1, <1>2, <1>3, PTL DEF BitfieldsSpec

-----------------------------------------------------------------------------
(* The counts.                                                             *)

\* While a peer's bitfield is replaced it is not among those that are counted,
\* and after that the new one is still to be added, with what has come since
\* and is not in it.
Replaced(q) == step \in {2, 3} /\ q = responses[1].from
Counted(i) == {q \in Have(i) : ~Replaced(q)}
Extra(i) == step = 3 /\ i \in bitfields[responses[1].from] /\ i \notin responses[1].field

RarityInv ==
    \A i \in Piece :
        /\ rarity[i] >= Cardinality(Counted(i))
        /\ Extra(i) => rarity[i] >= Cardinality(Counted(i)) + 1
        /\ ~overlapped => rarity[i] = Cardinality(Counted(i))
StoredInv == step = 3 /\ ~overlapped => bitfields[responses[1].from] = responses[1].field
CountInv == RarityInv /\ StoredInv

\* The peers counted for a piece are finitely many.
LEMMA CountedFinite ==
    ASSUME BitfieldsTypes, NEW i
    PROVE  IsFiniteSet(Counted(i)) /\ Cardinality(Counted(i)) \in Nat
<1>1. Counted(i) \subseteq Peer /\ IsFiniteSet(Peer)
    BY BitfieldsAssumption DEF Counted, Have, BitfieldsTypes
<1> QED
    BY <1>1, FS_Subset, FS_CardinalityType

\* One peer more is counted.
LEMMA CountMore ==
    ASSUME BitfieldsTypes, NEW i, NEW q, q \notin Counted(i), Counted(i)' = Counted(i) \cup {q}
    PROVE  Cardinality(Counted(i))' = Cardinality(Counted(i)) + 1
    BY CountedFinite, FS_AddElement

\* One peer less is counted.
LEMMA CountLess ==
    ASSUME BitfieldsTypes, NEW i, NEW q, q \in Counted(i), Counted(i)' = Counted(i) \ {q}
    PROVE  Cardinality(Counted(i))' = Cardinality(Counted(i)) - 1
    BY CountedFinite, FS_RemoveElement

\* The counts stay as they are when the tables of the chooser do.
LEMMA CountSame ==
    ASSUME CountInv, UNCHANGED <<bitfields, rarity, overlapped, step>>, step > 1 => responses'[1] = responses[1]
    PROVE  CountInv'
<1>1. /\ \A q : Replaced(q)' = Replaced(q)
      /\ \A i : Extra(i)' = Extra(i)
    BY DEF Replaced, Extra
<1>2. \A i : Have(i)' = Have(i)
    BY DEF Have
<1>3. \A i : Counted(i)' = Counted(i)
    BY <1>1, <1>2 DEF Counted
<1>4. \A i : Cardinality(Counted(i))' = Cardinality(Counted(i))
    BY <1>3
<1>5. RarityInv'
    BY <1>1, <1>4 DEF CountInv, RarityInv
<1>6. StoredInv'
    BY DEF CountInv, StoredInv
<1> QED
    BY <1>5, <1>6 DEF CountInv

\* At the start nothing is counted.
LEMMA Count_Init == BitfieldsInit => CountInv
<1> SUFFICES ASSUME BitfieldsInit PROVE CountInv
    OBVIOUS
<1>1. step = 1 /\ DOMAIN bitfields = {} /\ rarity = [i \in Piece |-> 0]
    BY DEF BitfieldsInit
<1>2. \A i : Counted(i) = {} /\ ~Extra(i)
    BY <1>1 DEF Counted, Have, Extra
<1>3. Cardinality({}) = 0
    BY FS_EmptySet
<1>4. RarityInv
    BY <1>1, <1>2, <1>3 DEF RarityInv
<1> QED
    BY <1>1, <1>4 DEF CountInv, StoredInv

\* A known peer is added again, or a new one.
LEMMA Count_AddPeer ==
    ASSUME BitfieldsTypes, DescribedInv, CountInv, NEW q \in Peer, AddPeer(q)
    PROVE  CountInv'
<1>1. /\ bitfields' = Stored(q, {}) /\ UNCHANGED <<rarity, step, responses>>
      /\ overlapped' = (overlapped \/ AtWork(q) \/ \E p \in {q} \cap DOMAIN bitfields : bitfields[p] # {})
    BY DEF AddPeer, threadVars
<1>2. /\ DOMAIN bitfields' = DOMAIN bitfields \cup {q} /\ bitfields'[q] = {}
      /\ \A p \in DOMAIN bitfields : p # q => bitfields'[p] = bitfields[p]
    BY <1>1 DEF Stored
<1>3. \A p : Replaced(p)' = Replaced(p)
    BY <1>1 DEF Replaced
<1>4. \A i : Counted(i)' = Counted(i) \ {q}
    BY <1>2, <1>3 DEF Counted, Have
<1>5. ASSUME NEW i \in Piece, Extra(i)' PROVE Extra(i)
    <2>1. step = 3 /\ i \in bitfields'[responses[1].from] /\ i \notin responses[1].field
        BY <1>1, <1>5 DEF Extra
    <2>2. responses[1].from \in DOMAIN bitfields
        BY <2>1 DEF DescribedInv
    <2> QED
        BY <1>2, <2>1, <2>2 DEF Extra
<1>6. ASSUME NEW i \in Piece
      PROVE  /\ Cardinality(Counted(i))' \in Nat /\ Cardinality(Counted(i)) \in Nat
             /\ Cardinality(Counted(i))' <= Cardinality(Counted(i))
             /\ ~overlapped' => Cardinality(Counted(i))' = Cardinality(Counted(i))
    <2>1. CASE q \in Counted(i)
        <3>1. q \in DOMAIN bitfields /\ i \in bitfields[q]
            BY <2>1 DEF Counted, Have
        <3>2. overlapped'
            BY <1>1, <3>1
        <3>3. Cardinality(Counted(i))' = Cardinality(Counted(i)) - 1
            BY <1>4, <2>1, CountLess
        <3>4. IsFiniteSet(Counted(i)) /\ Cardinality(Counted(i)) \in Nat
            BY CountedFinite
        <3>5. Cardinality(Counted(i)) # 0
            BY <2>1, <3>4, FS_EmptySet
        <3> QED
            BY <3>2, <3>3, <3>4, <3>5
    <2>2. CASE q \notin Counted(i)
        <3>1. Counted(i)' = Counted(i)
            BY <1>4, <2>2
        <3>2. Cardinality(Counted(i))' = Cardinality(Counted(i))
            BY <3>1
        <3> QED
            BY <3>2, CountedFinite
    <2> QED
        BY <2>1, <2>2
<1>7. RarityInv'
    <2> SUFFICES ASSUME NEW i \in Piece
                 PROVE  /\ rarity'[i] >= Cardinality(Counted(i))'
                        /\ Extra(i)' => rarity'[i] >= Cardinality(Counted(i))' + 1
                        /\ ~overlapped' => rarity'[i] = Cardinality(Counted(i))'
        BY DEF RarityInv
    <2>1. rarity'[i] = rarity[i] /\ rarity[i] \in Int
        BY <1>1 DEF BitfieldsTypes
    <2>2. ~overlapped' => ~overlapped
        BY <1>1
    <2>3. /\ rarity[i] >= Cardinality(Counted(i))
          /\ Extra(i) => rarity[i] >= Cardinality(Counted(i)) + 1
          /\ ~overlapped => rarity[i] = Cardinality(Counted(i))
        BY DEF CountInv, RarityInv
    <2> QED
        BY <1>5, <1>6, <2>1, <2>2, <2>3
<1>8. StoredInv'
    <2> SUFFICES ASSUME step = 3, ~overlapped' PROVE bitfields'[responses[1].from] = responses[1].field
        BY <1>1 DEF StoredInv
    <2>1. ~overlapped /\ ~AtWork(q)
        BY <1>1
    <2>2. responses \in Seq(FieldMessage) /\ responses # <<>>
        BY DEF BitfieldsTypes
    <2>3. responses[1].from # q
        BY <2>1, <2>2, TailIs DEF AtWork
    <2>4. responses[1].from \in DOMAIN bitfields
        BY DEF DescribedInv
    <2> QED
        BY <1>2, <2>1, <2>3, <2>4 DEF CountInv, StoredInv
<1> QED
    BY <1>7, <1>8 DEF CountInv

\* A piece is announced.
LEMMA Count_GotPiece ==
    ASSUME BitfieldsTypes, DescribedInv, CountInv, GotPiece
    PROVE  CountInv'
<1>1. PICK q \in Peer, j \in Piece :
        /\ q \notin DOMAIN bitfields => UNCHANGED chooserVars
        /\ q \in DOMAIN bitfields =>
             /\ bitfields' = Stored(q, bitfields[q] \cup {j})
             /\ rarity' = IF j \in bitfields[q] THEN rarity ELSE [rarity EXCEPT ![j] = @ + 1]
             /\ overlapped' = (overlapped \/ AtWork(q))
    BY GotPieceIs
<1>2. UNCHANGED <<step, responses>>
    BY DEF GotPiece
<1>3. CASE q \notin DOMAIN bitfields
    BY <1>1, <1>2, <1>3, CountSame DEF chooserVars
<1>4. CASE q \in DOMAIN bitfields
    <2>1. /\ DOMAIN bitfields' = DOMAIN bitfields /\ bitfields'[q] = bitfields[q] \cup {j}
          /\ \A p \in DOMAIN bitfields : p # q => bitfields'[p] = bitfields[p]
        BY <1>1, <1>4 DEF Stored
    <2>2. \A p : Replaced(p)' = Replaced(p)
        BY <1>2 DEF Replaced
    <2>3. responses \in Seq(FieldMessage) /\ (step > 1 => responses # <<>>)
        BY DEF BitfieldsTypes
    <2>4. step \in {2, 3} /\ ~overlapped' => ~Replaced(q)
        <3>1. step > 1 => Head(responses) = responses[1]
            BY <2>3, TailIs
        <3>2. overlapped' = (overlapped \/ AtWork(q))
            BY <1>1, <1>4
        <3>3. ~overlapped' => ~AtWork(q)
            BY <3>2
        <3> QED
            BY <3>1, <3>3 DEF AtWork, Replaced
    <2>5. step = 3 => responses[1].from \in DOMAIN bitfields
        BY DEF DescribedInv
    <2>6. StoredInv'
        BY <1>1, <1>2, <1>4, <2>1, <2>4, <2>5 DEF CountInv, StoredInv, Replaced
    <2>7. RarityInv'
        <3> SUFFICES ASSUME NEW i \in Piece
                     PROVE  /\ rarity'[i] >= Cardinality(Counted(i))'
                            /\ Extra(i)' => rarity'[i] >= Cardinality(Counted(i))' + 1
                            /\ ~overlapped' => rarity'[i] = Cardinality(Counted(i))'
            BY DEF RarityInv
        <3>1. /\ rarity[i] \in Int /\ Cardinality(Counted(i)) \in Nat
              /\ rarity[i] >= Cardinality(Counted(i))
              /\ Extra(i) => rarity[i] >= Cardinality(Counted(i)) + 1
              /\ ~overlapped => rarity[i] = Cardinality(Counted(i))
            BY CountedFinite DEF BitfieldsTypes, CountInv, RarityInv
        <3>2. ~overlapped' => ~overlapped
            BY <1>1, <1>4
        <3>3. CASE i # j \/ i \in bitfields[q]
            <4>1. rarity'[i] = rarity[i]
                BY <1>1, <1>4, <3>3 DEF BitfieldsTypes
            <4>2. \A p \in DOMAIN bitfields : i \in bitfields'[p] <=> i \in bitfields[p]
                BY <2>1, <3>3
            <4>3. Counted(i)' = Counted(i)
                BY <2>1, <2>2, <4>2 DEF Counted, Have
            <4>4. Cardinality(Counted(i))' = Cardinality(Counted(i))
                BY <4>3
            <4>5. Extra(i)' => Extra(i)
                BY <1>2, <2>5, <4>2 DEF Extra
            <4> QED
                BY <3>1, <3>2, <4>1, <4>4, <4>5
        <3>4. CASE i = j /\ i \notin bitfields[q]
            <4>1. rarity'[i] = rarity[i] + 1
                BY <1>1, <1>4, <3>4 DEF BitfieldsTypes
            <4>2. \A p \in DOMAIN bitfields : i \in bitfields'[p] <=> i \in bitfields[p] \/ p = q
                BY <2>1, <3>4
            <4>3. CASE Replaced(q)
                <5>1. overlapped'
                    BY <2>4, <4>3 DEF Replaced
                <5>2. Counted(i)' = Counted(i)
                    BY <2>1, <2>2, <4>2, <4>3 DEF Counted, Have
                <5>3. Cardinality(Counted(i))' = Cardinality(Counted(i))
                    BY <5>2
                <5> QED
                    BY <3>1, <4>1, <5>1, <5>3
            <4>4. CASE ~Replaced(q)
                <5>1. q \notin Counted(i) /\ Counted(i)' = Counted(i) \cup {q}
                    BY <1>4, <2>1, <2>2, <3>4, <4>2, <4>4 DEF Counted, Have
                <5>2. Cardinality(Counted(i))' = Cardinality(Counted(i)) + 1
                    BY <5>1, CountMore
                <5>3. Extra(i)' => Extra(i)
                    BY <1>2, <2>5, <4>2, <4>4 DEF Extra, Replaced
                <5> QED
                    BY <3>1, <3>2, <4>1, <5>2, <5>3
            <4> QED
                BY <4>3, <4>4
        <3> QED
            BY <3>3, <3>4
    <2> QED
        BY <2>6, <2>7 DEF CountInv
<1> QED
    BY <1>3, <1>4

\* A bitfield replaces the one before.
LEMMA Count_HandleField ==
    ASSUME BitfieldsTypes, DescribedInv, CountInv, HandleField
    PROVE  CountInv'
<1>1. PICK h \in Peer : h = responses[1].from
    BY HandleFieldIs
<1>2. PICK f \in SUBSET Piece : f = responses[1].field
    BY HandleFieldIs
<1>3. overlapped' = overlapped
    BY DEF HandleField
<1>4. ASSUME NEW i \in Piece
      PROVE  /\ rarity[i] \in Int /\ Cardinality(Counted(i)) \in Nat
             /\ rarity[i] >= Cardinality(Counted(i))
             /\ Extra(i) => rarity[i] >= Cardinality(Counted(i)) + 1
             /\ ~overlapped => rarity[i] = Cardinality(Counted(i))
    BY CountedFinite DEF BitfieldsTypes, CountInv, RarityInv
<1> DEFINE Good(i) == /\ rarity'[i] >= Cardinality(Counted(i))'
                      /\ Extra(i)' => rarity'[i] >= Cardinality(Counted(i))' + 1
                      /\ ~overlapped' => rarity'[i] = Cardinality(Counted(i))'
<1>5. CASE Removes
    <2>1. step = 1 /\ step' = 2 /\ responses' = responses /\ bitfields' = bitfields
        BY <1>5 DEF Removes
    <2>2. StoredInv'
        BY <2>1 DEF StoredInv
    <2>3. ASSUME NEW i \in Piece PROVE Good(i)
        <3>1. Counted(i)' = Counted(i) \ {h} /\ ~Extra(i)' /\ Counted(i) = Have(i)
            BY <1>1, <2>1 DEF Counted, Have, Replaced, Extra
        <3>2. CASE h \in Counted(i)
            <4>1. rarity'[i] = rarity[i] - 1
                BY <1>1, <1>5, <3>1, <3>2 DEF Removes, Without, Have
            <4>2. Cardinality(Counted(i))' = Cardinality(Counted(i)) - 1
                BY <3>1, <3>2, CountLess
            <4> QED
                BY <1>3, <1>4, <3>1, <4>1, <4>2
        <3>3. CASE h \notin Counted(i)
            <4>1. rarity'[i] = rarity[i]
                BY <1>1, <1>5, <3>1, <3>3 DEF Removes, Without, Have
            <4>2. Counted(i)' = Counted(i)
                BY <3>1, <3>3
            <4>3. Cardinality(Counted(i))' = Cardinality(Counted(i))
                BY <4>2
            <4> QED
                BY <1>3, <1>4, <3>1, <4>1, <4>3
        <3> QED
            BY <3>2, <3>3
    <2> QED
        BY <2>2, <2>3 DEF CountInv, RarityInv
<1>6. CASE Stores
    <2>1. /\ step = 2 /\ step' = 3 /\ responses' = responses /\ rarity' = rarity
          /\ bitfields' = Stored(h, f)
        BY <1>1, <1>2, <1>6 DEF Stores
    <2>2. /\ DOMAIN bitfields' = DOMAIN bitfields \cup {h} /\ bitfields'[h] = f
          /\ \A p \in DOMAIN bitfields : p # h => bitfields'[p] = bitfields[p]
        BY <2>1 DEF Stored
    <2>3. StoredInv'
        BY <1>1, <1>2, <2>1, <2>2 DEF StoredInv
    <2>4. ASSUME NEW i \in Piece PROVE Good(i)
        <3>1. Counted(i)' = Counted(i)
            BY <1>1, <2>1, <2>2 DEF Counted, Have, Replaced
        <3>2. Cardinality(Counted(i))' = Cardinality(Counted(i))
            BY <3>1
        <3>3. ~Extra(i)'
            BY <1>1, <1>2, <2>1, <2>2 DEF Extra
        <3> QED
            BY <1>3, <1>4, <2>1, <3>2, <3>3
    <2> QED
        BY <2>3, <2>4 DEF CountInv, RarityInv
<1>7. CASE Adds
    <2>1. step = 3 /\ step' = 4 /\ responses' = responses /\ bitfields' = bitfields /\ rarity' = With(f)
        BY <1>2, <1>7 DEF Adds
    <2>2. h \in DOMAIN bitfields
        BY <1>1, <2>1 DEF DescribedInv
    <2>3. ~overlapped => bitfields[h] = f
        BY <1>1, <1>2, <2>1 DEF CountInv, StoredInv
    <2>4. StoredInv'
        BY <2>1 DEF StoredInv
    <2>5. ASSUME NEW i \in Piece PROVE Good(i)
        <3>1. rarity'[i] = IF i \in f THEN rarity[i] + 1 ELSE rarity[i]
            BY <2>1 DEF With
        <3>2. ~Extra(i)' /\ h \notin Counted(i)
            BY <1>1, <2>1 DEF Extra, Counted, Replaced
        <3>3. CASE i \in bitfields[h]
            <4>1. Counted(i)' = Counted(i) \cup {h}
                BY <1>1, <2>1, <2>2, <3>3 DEF Counted, Have, Replaced
            <4>2. Cardinality(Counted(i))' = Cardinality(Counted(i)) + 1
                BY <3>2, <4>1, CountMore
            <4>3. i \in f \/ Extra(i)
                BY <1>1, <1>2, <2>1, <3>3 DEF Extra
            <4>4. ~overlapped => i \in f
                BY <2>3, <3>3
            <4> QED
                BY <1>3, <1>4, <3>1, <3>2, <4>2, <4>3, <4>4
        <3>4. CASE i \notin bitfields[h]
            <4>1. Counted(i)' = Counted(i)
                BY <1>1, <2>1, <2>2, <3>4 DEF Counted, Have, Replaced
            <4>2. Cardinality(Counted(i))' = Cardinality(Counted(i))
                BY <4>1
            <4>3. ~overlapped => i \notin f
                BY <2>3, <3>4
            <4> QED
                BY <1>3, <1>4, <3>1, <3>2, <4>2, <4>3
        <3> QED
            BY <3>3, <3>4
    <2> QED
        BY <2>4, <2>5 DEF CountInv, RarityInv
<1>8. CASE Reports
    <2>1. step = 4 /\ step' = 1 /\ bitfields' = bitfields /\ rarity' = rarity
        BY <1>8 DEF Reports
    <2>2. StoredInv'
        BY <2>1 DEF StoredInv
    <2>3. ASSUME NEW i \in Piece PROVE Good(i)
        <3>1. Counted(i)' = Counted(i) /\ ~Extra(i)'
            BY <2>1 DEF Counted, Have, Replaced, Extra
        <3>2. Cardinality(Counted(i))' = Cardinality(Counted(i))
            BY <3>1
        <3> QED
            BY <1>3, <1>4, <2>1, <3>1, <3>2
    <2> QED
        BY <2>2, <2>3 DEF CountInv, RarityInv
<1> QED
    BY <1>5, <1>6, <1>7, <1>8, HandleFieldIs

\* Every step keeps the counts.
LEMMA Count_Step ==
    ASSUME BitfieldsTypes, KnownInv, CountInv, [BitfieldsNext]_bitfieldsVars
    PROVE  CountInv'
<1>1. DescribedInv
    BY DEF KnownInv
<1>2. ASSUME NEW q \in Peer, Arrive(q) PROVE CountInv'
    <2>1. UNCHANGED <<bitfields, rarity, overlapped, step>>
        BY <1>2 DEF Arrive, chooserVars
    <2>2. responses \in Seq(FieldMessage) /\ (step > 1 => responses # <<>>)
        BY DEF BitfieldsTypes
    <2>3. step > 1 => responses'[1] = responses[1]
        BY <1>2, <2>2, ArriveIs, AppendIs, TailIs
    <2> QED
        BY <2>1, <2>3, CountSame
<1>3. CASE UNCHANGED <<bitfields, rarity, overlapped, step, responses>>
    BY <1>3, CountSame
<1> QED
    BY <1>1, <1>2, <1>3, Count_AddPeer, Count_GotPiece, Count_HandleField
    DEF BitfieldsNext, TakeInterest, TakeBitfield, SendField, Verify, SendUpdate, FindPeer, AnswerInterest,
        LoseConnection, ErasePeer, TellPeer, bitfieldsVars, chooserVars, threadVars

\* A piece is never counted for fewer peers than the chooser knows to have it,
\* whatever the threads change while a bitfield is replaced, and for just as
\* many while none does: what a bitfield that is replaced loses and gains is
\* taken off and added, and what comes in between is counted once more.
THEOREM CountsCover == BitfieldsSpec => []RarityCovers
<1> DEFINE Inv == BitfieldsTypes /\ FromInv /\ KnownInv /\ CountInv
<1>1. BitfieldsInit => Inv
    BY Bitfields_Init, Known_Init, Count_Init
<1>2. Inv /\ [BitfieldsNext]_bitfieldsVars => Inv'
    BY Bitfields_Types, Known_Step, Count_Step
<1>3. Inv => RarityCovers
    <2> SUFFICES ASSUME Inv, Steps[step] \in {"remove", "state"}, NEW i \in Piece
                 PROVE  /\ rarity[i] >= Cardinality(Have(i))
                        /\ ~overlapped => rarity[i] = Cardinality(Have(i))
        BY DEF RarityCovers
    <2>1. step \notin {2, 3}
        BY StepsAre DEF BitfieldsTypes
    <2>2. Counted(i) = Have(i)
        BY <2>1 DEF Counted, Replaced
    <2> QED
        BY <2>2 DEF CountInv, RarityInv
<1> QED
    BY <1>1, <1>2, <1>3, PTL DEF BitfieldsSpec

-----------------------------------------------------------------------------
(* Queues of bitfields and updates.                                        *)

AllMessages == FieldMessage \cup UpdateMessage

\* A bitfield, or a piece, of a peer is in a queue.
HasField(s, q, f) == \E k \in DOMAIN s : s[k] \in FieldMessage /\ s[k].from = q /\ s[k].field = f
HasPiece(s, q, i) == \E k \in DOMAIN s : s[k] \in UpdateMessage /\ s[k].from = q /\ s[k].piece = i

\* The bitfields of a peer in a queue only grow.
Ordered(s, q) ==
    \A k, l \in DOMAIN s :
        k < l /\ s[k] \in FieldMessage /\ s[l] \in FieldMessage /\ s[k].from = q /\ s[l].from = q
        => s[k].field \subseteq s[l].field

\* Nothing is in an empty queue.
LEMMA EmptyQueue ==
    ASSUME NEW q
    PROVE  /\ Ordered(<<>>, q)
           /\ \A f : ~HasField(<<>>, q, f)
           /\ \A i : ~HasPiece(<<>>, q, i)
    BY DEF Ordered, HasField, HasPiece

\* The first message of a queue, and the others.
LEMMA QueueTail ==
    ASSUME NEW s \in Seq(AllMessages), s # <<>>, NEW q
    PROVE  /\ s[1] \in AllMessages
           /\ \A f : HasField(s, q, f) <=> \/ s[1] \in FieldMessage /\ s[1].from = q /\ s[1].field = f
                                           \/ HasField(Tail(s), q, f)
           /\ \A i : HasPiece(s, q, i) <=> \/ s[1] \in UpdateMessage /\ s[1].from = q /\ s[1].piece = i
                                           \/ HasPiece(Tail(s), q, i)
           /\ Ordered(s, q) => Ordered(Tail(s), q)
           /\ Ordered(s, q) /\ s[1] \in FieldMessage /\ s[1].from = q =>
                \A f : HasField(Tail(s), q, f) => s[1].field \subseteq f
<1>1. /\ Tail(s) \in Seq(AllMessages) /\ s[1] \in AllMessages /\ 1 \in DOMAIN s
      /\ Len(s) \in Nat \ {0} /\ DOMAIN s = 1..Len(s) /\ DOMAIN Tail(s) = 1..(Len(s) - 1)
      /\ \A k \in DOMAIN Tail(s) : Tail(s)[k] = s[k + 1]
    BY TailIs
<1>2. \A k \in DOMAIN s : k = 1 \/ (k - 1 \in DOMAIN Tail(s) /\ Tail(s)[k - 1] = s[k])
    BY <1>1
<1>3. \A k \in DOMAIN Tail(s) : k + 1 \in DOMAIN s /\ k + 1 > 1
    BY <1>1
<1>4. ASSUME NEW f
      PROVE  HasField(s, q, f) <=> \/ s[1] \in FieldMessage /\ s[1].from = q /\ s[1].field = f
                                   \/ HasField(Tail(s), q, f)
    BY <1>1, <1>2, <1>3 DEF HasField
<1>5. ASSUME NEW i
      PROVE  HasPiece(s, q, i) <=> \/ s[1] \in UpdateMessage /\ s[1].from = q /\ s[1].piece = i
                                   \/ HasPiece(Tail(s), q, i)
    BY <1>1, <1>2, <1>3 DEF HasPiece
<1>6. ASSUME Ordered(s, q) PROVE Ordered(Tail(s), q)
    BY <1>1, <1>3, <1>6 DEF Ordered
<1>7. ASSUME Ordered(s, q), s[1] \in FieldMessage /\ s[1].from = q, NEW f, HasField(Tail(s), q, f)
      PROVE  s[1].field \subseteq f
    BY <1>1, <1>3, <1>7 DEF Ordered, HasField
<1> QED
    BY <1>1, <1>4, <1>5, <1>6, <1>7

\* A message at the end of a queue of bitfields, which has all that is before.
LEMMA QueueAppend ==
    ASSUME NEW s \in Seq(AllMessages), NEW m \in AllMessages, NEW q
    PROVE  /\ \A f : HasField(Append(s, m), q, f) <=> \/ m \in FieldMessage /\ m.from = q /\ m.field = f
                                                      \/ HasField(s, q, f)
           /\ \A i : HasPiece(Append(s, m), q, i) <=> \/ m \in UpdateMessage /\ m.from = q /\ m.piece = i
                                                      \/ HasPiece(s, q, i)
           /\ /\ Ordered(s, q)
              /\ m \in FieldMessage /\ m.from = q => \A f \in SUBSET Piece : HasField(s, q, f) => f \subseteq m.field
              => Ordered(Append(s, m), q)
<1> DEFINE a == Append(s, m)
<1>1. /\ a \in Seq(AllMessages)
      /\ Len(s) \in Nat /\ DOMAIN s = 1..Len(s) /\ DOMAIN a = 1..(Len(s) + 1)
      /\ \A k \in DOMAIN s : a[k] = s[k]
      /\ a[Len(s) + 1] = m
    BY AppendIs
<1>2. \A k \in DOMAIN a : (k \in DOMAIN s /\ a[k] = s[k]) \/ (k = Len(s) + 1 /\ a[k] = m)
    BY <1>1
<1>3. Len(s) + 1 \in DOMAIN a /\ DOMAIN s \subseteq DOMAIN a
    BY <1>1
<1> HIDE DEF a
<1>4. ASSUME NEW f
      PROVE  HasField(a, q, f) <=> \/ m \in FieldMessage /\ m.from = q /\ m.field = f
                                   \/ HasField(s, q, f)
    BY <1>1, <1>2, <1>3 DEF HasField
<1>5. ASSUME NEW i
      PROVE  HasPiece(a, q, i) <=> \/ m \in UpdateMessage /\ m.from = q /\ m.piece = i
                                   \/ HasPiece(s, q, i)
    BY <1>1, <1>2, <1>3 DEF HasPiece
<1>6. ASSUME Ordered(s, q),
             m \in FieldMessage /\ m.from = q => \A f \in SUBSET Piece : HasField(s, q, f) => f \subseteq m.field
      PROVE  Ordered(a, q)
    <2> SUFFICES ASSUME NEW k \in DOMAIN a, NEW l \in DOMAIN a, k < l,
                        a[k] \in FieldMessage, a[l] \in FieldMessage, a[k].from = q, a[l].from = q
                 PROVE  a[k].field \subseteq a[l].field
        BY DEF Ordered
    <2>1. k \in DOMAIN s /\ a[k] = s[k]
        BY <1>1, <1>2
    <2>2. CASE l \in DOMAIN s /\ a[l] = s[l]
        BY <1>6, <2>1, <2>2 DEF Ordered
    <2>3. CASE a[l] = m
        <3>1. a[k].field \in SUBSET Piece /\ HasField(s, q, a[k].field)
            BY <2>1 DEF FieldMessage, HasField
        <3> QED
            BY <1>6, <2>3, <3>1
    <2> QED
        BY <1>2, <2>2, <2>3
<1> QED
    BY <1>4, <1>5, <1>6 DEF a

\* The first message leaves a queue to whose end another comes.
LEMMA TailAppend ==
    ASSUME NEW S, NEW s \in Seq(S), NEW m \in S, s # <<>>
    PROVE  Tail(Append(s, m)) = Append(Tail(s), m)
    OBVIOUS

-----------------------------------------------------------------------------
(* What is known of a peer's pieces.                                       *)

\* The bitfields that are still to be stored.
Rest == IF step < 3 THEN responses ELSE Tail(responses)

Knows(q) == IF q \in DOMAIN bitfields THEN bitfields[q] ELSE {}
Coming(q, f) == HasField(Rest, q, f) \/ HasField(channel[q], q, f) \/ HasField(fields[q], q, f)
Announce(q, i) == i \in fresh[q] \/ HasPiece(channel[q], q, i) \/ HasPiece(requests, q, i)

\* From the oldest to the newest, the bitfields of a peer grow.
OrderOf(q) ==
    /\ Ordered(Rest, q) /\ Ordered(channel[q], q) /\ Ordered(fields[q], q)
    /\ \A f, g \in SUBSET Piece :
        /\ HasField(Rest, q, f) /\ (HasField(channel[q], q, g) \/ HasField(fields[q], q, g)) => f \subseteq g
        /\ HasField(channel[q], q, f) /\ HasField(fields[q], q, g) => f \subseteq g

\* Nothing is known or said of a peer that is not so.
TruthOf(q) ==
    /\ Knows(q) \subseteq has[q]
    /\ \A f \in SUBSET Piece : Coming(q, f) => f \subseteq has[q]
    /\ \A i \in Piece : Announce(q, i) => i \in has[q]

\* A peer that was found and has no connection has lost it.
NetOf(q) == q \in told \/ q \in adding \/ Waits(q) \/ asks[q] > 0 => q \in connected \/ q \in disturbed

\* A peer that was told of the interest, with nothing disturbed and nothing
\* asked again.
Quiet(q) == q \in told /\ q \notin disturbed /\ q \notin crashed /\ asks[q] = 0 /\ q \notin replying

\* What it has is known, announced or coming; and what is known is in what
\* replaces it.
NewsOf(q) ==
    Quiet(q) =>
        /\ \A i \in has[q] : i \in Knows(q) \/ Announce(q, i) \/ \E f \in SUBSET Piece : Coming(q, f) /\ i \in f
        /\ \A f \in SUBSET Piece : Coming(q, f) =>
               \A i \in Knows(q) : \E g \in SUBSET Piece : Coming(q, g) /\ i \in g

PeerInv(q) == OrderOf(q) /\ TruthOf(q) /\ NetOf(q) /\ NewsOf(q)
NewsInv == \A q \in Peer : PeerInv(q)

\* The queues are queues of bitfields and updates.
LEMMA BitfieldQueues ==
    ASSUME BitfieldsTypes
    PROVE  /\ Rest \in Seq(AllMessages) /\ responses \in Seq(AllMessages) /\ requests \in Seq(AllMessages)
           /\ \A q \in Peer : fields[q] \in Seq(AllMessages) /\ channel[q] \in Seq(AllMessages)
           /\ Rest \in Seq(FieldMessage) /\ step \in 1..4
<1>1. Seq(FieldMessage) \subseteq Seq(AllMessages) /\ Seq(UpdateMessage) \subseteq Seq(AllMessages)
    BY DEF AllMessages
<1>2. Rest \in Seq(FieldMessage)
    <2>1. CASE step < 3
        BY <2>1 DEF Rest, BitfieldsTypes
    <2>2. CASE ~(step < 3)
        <3>1. responses \in Seq(FieldMessage) /\ responses # <<>>
            BY <2>2 DEF BitfieldsTypes
        <3> QED
            BY <2>2, <3>1, TailIs DEF Rest
    <2> QED
        BY <2>1, <2>2
<1> QED
    BY <1>1, <1>2 DEF BitfieldsTypes, AllMessages

\* At the start nobody was told of the interest.
LEMMA News_Init == BitfieldsInit => NewsInv
<1> SUFFICES ASSUME BitfieldsInit, NEW q \in Peer PROVE PeerInv(q)
    BY DEF NewsInv
<1>1. /\ Rest = <<>> /\ channel[q] = <<>> /\ fields[q] = <<>> /\ requests = <<>> /\ fresh[q] = {}
      /\ Knows(q) = {} /\ told = {} /\ adding = {} /\ newPeers = <<>>
    BY DEF BitfieldsInit, Rest, Knows
<1>2. OrderOf(q)
    <2>1. Ordered(Rest, q) /\ Ordered(channel[q], q) /\ Ordered(fields[q], q)
        BY <1>1, EmptyQueue
    <2>2. \A f : ~HasField(Rest, q, f) /\ ~HasField(channel[q], q, f)
        BY <1>1, EmptyQueue
    <2> QED
        BY <2>1, <2>2 DEF OrderOf
<1>3. TruthOf(q)
    BY <1>1, EmptyQueue DEF TruthOf, Coming, Announce
<1>4. NetOf(q) /\ NewsOf(q)
    BY <1>1 DEF NetOf, NewsOf, Quiet, Waits, BitfieldsInit
<1> QED
    BY <1>2, <1>3, <1>4 DEF PeerInv

\* What a step may leave of a peer.
SameRest(q) ==
    /\ Ordered(Rest, q) => Ordered(Rest, q)'
    /\ \A f : HasField(Rest, q, f)' <=> HasField(Rest, q, f)
SameRequests(q) == \A i : HasPiece(requests, q, i)' <=> HasPiece(requests, q, i)
SameQueues(q) == SameRest(q) /\ SameRequests(q) /\ channel'[q] = channel[q] /\ fields'[q] = fields[q]
SameNet(q) ==
    /\ q \in told' => q \in told
    /\ q \in adding' => q \in adding \/ Waits(q)
    /\ Waits(q)' => Waits(q)
    /\ asks'[q] > 0 => asks[q] > 0
    /\ q \in connected \/ q \in disturbed => q \in connected' \/ q \in disturbed'

\* The bitfields still to be stored stay.
LEMMA RestStays ==
    ASSUME NEW q, UNCHANGED <<responses, step>>
    PROVE  SameRest(q)
<1>1. Rest' = Rest
    BY DEF Rest
<1> QED
    BY <1>1 DEF SameRest, Ordered, HasField

\* The updates not yet seen stay.
LEMMA RequestsStay ==
    ASSUME NEW q, UNCHANGED requests
    PROVE  SameRequests(q)
    BY DEF SameRequests, HasPiece

\* With the same queues, the same bitfields are coming.
LEMMA SameComing ==
    ASSUME NEW q, SameQueues(q)
    PROVE  \A f : Coming(q, f)' <=> Coming(q, f)
    BY DEF SameQueues, SameRest, Coming, HasField

\* With the same queues, the same pieces are announced.
LEMMA SameAnnounce ==
    ASSUME NEW q, SameQueues(q), fresh'[q] = fresh[q]
    PROVE  \A i : Announce(q, i)' <=> Announce(q, i)
    BY DEF SameQueues, SameRequests, Announce, HasPiece

\* With the same queues, the bitfields grow as before.
LEMMA SameOrder ==
    ASSUME NEW q, SameQueues(q), OrderOf(q)
    PROVE  OrderOf(q)'
<1>1. /\ Ordered(Rest, q)' /\ Ordered(channel[q], q)' /\ Ordered(fields[q], q)'
    BY DEF SameQueues, SameRest, OrderOf, Ordered
<1>2. \A f : /\ HasField(Rest, q, f)' <=> HasField(Rest, q, f)
             /\ HasField(channel[q], q, f)' <=> HasField(channel[q], q, f)
             /\ HasField(fields[q], q, f)' <=> HasField(fields[q], q, f)
    BY DEF SameQueues, SameRest, HasField
<1> QED
    BY <1>1, <1>2 DEF OrderOf

\* A step of which the peer, but for what it is asked, takes no part.
LEMMA Untouched ==
    ASSUME NEW q \in Peer, PeerInv(q), SameQueues(q), SameNet(q) \/ NetOf(q)', Knows(q)' = Knows(q),
           has'[q] = has[q], fresh'[q] = fresh[q], Quiet(q)' => Quiet(q)
    PROVE  PeerInv(q)'
<1>1. OrderOf(q)'
    BY SameOrder DEF PeerInv
<1>2. /\ \A f : Coming(q, f)' <=> Coming(q, f)
      /\ \A i : Announce(q, i)' <=> Announce(q, i)
    BY SameComing, SameAnnounce
<1>3. TruthOf(q)'
    BY <1>2 DEF PeerInv, TruthOf
<1>4. NetOf(q)'
    BY DEF PeerInv, NetOf, SameNet
<1>5. NewsOf(q)'
    BY <1>2 DEF PeerInv, NewsOf
<1> QED
    BY <1>1, <1>3, <1>4, <1>5 DEF PeerInv

-----------------------------------------------------------------------------
(* The steps of the other peers.                                           *)

\* A peer is asked, or takes no part.
LEMMA News_Aside ==
    ASSUME BitfieldsTypes, NewsInv, UNCHANGED <<responses, step, requests, channel, fields, bitfields, has, fresh>>,
           \A p \in Peer : SameNet(p) \/ NetOf(p)', \A p \in Peer : Quiet(p)' => Quiet(p)
    PROVE  NewsInv'
<1> SUFFICES ASSUME NEW p \in Peer PROVE PeerInv(p)'
    BY DEF NewsInv
<1>1. SameQueues(p)
    BY RestStays, RequestsStay DEF SameQueues
<1>2. Knows(p)' = Knows(p)
    BY DEF Knows
<1> QED
    BY <1>1, <1>2, Untouched DEF NewsInv

\* A peer that has still to give its bitfield is not quiet.
LEMMA News_TakeInterest ==
    ASSUME BitfieldsTypes, NewsInv, NEW q \in Peer, TakeInterest(q)
    PROVE  NewsInv'
<1>1. UNCHANGED <<responses, step, requests, channel, fields, bitfields, has, fresh, adding, newPeers, connected, disturbed, crashed>>
    BY DEF TakeInterest, managerVars, chooserVars, threadVars
<1>2. told' = told \cup {q} /\ replying' = replying \cup {q} /\ asks' = [asks EXCEPT ![q] = @ - 1]
    BY DEF TakeInterest
<1>3. ASSUME NEW p \in Peer PROVE Quiet(p)' => Quiet(p)
    BY <1>1, <1>2 DEF Quiet, BitfieldsTypes
<1>4. \A p \in Peer : SameQueues(p) /\ Knows(p)' = Knows(p)
    BY <1>1, RestStays, RequestsStay DEF SameQueues, Knows
<1>5. ASSUME NEW p \in Peer, p # q PROVE PeerInv(p)'
    <2>1. SameNet(p)
        BY <1>1, <1>2, <1>5 DEF SameNet, Waits, BitfieldsTypes
    <2> QED
        BY <1>1, <1>3, <1>4, <2>1, Untouched DEF NewsInv
<1>6. PeerInv(q)'
    <2>1. OrderOf(q)'
        BY <1>4, SameOrder DEF NewsInv, PeerInv
    <2>2. /\ \A f : Coming(q, f)' <=> Coming(q, f)
          /\ \A i : Announce(q, i)' <=> Announce(q, i)
        BY <1>1, <1>4, SameComing, SameAnnounce
    <2>3. TruthOf(q)'
        BY <1>1, <1>4, <2>2 DEF NewsInv, PeerInv, TruthOf
    <2>4. NewsOf(q)'
        BY <1>2 DEF NewsOf, Quiet
    <2>5. asks[q] > 0
        BY DEF TakeInterest
    <2>6. NetOf(q)'
        BY <1>1, <2>5 DEF NewsInv, PeerInv, NetOf
    <2> QED
        BY <2>1, <2>3, <2>4, <2>6 DEF PeerInv
<1> QED
    BY <1>5, <1>6 DEF NewsInv

\* The bitfield that is queued is the newest, and has all.
LEMMA News_TakeBitfield ==
    ASSUME BitfieldsTypes, NewsInv, NEW q \in Peer, TakeBitfield(q)
    PROVE  NewsInv'
<1>1. UNCHANGED <<responses, step, requests, channel, bitfields, has, fresh, adding, newPeers, connected,
                  disturbed, crashed, told, asks>>
    BY DEF TakeBitfield, netVars, managerVars, chooserVars, threadVars
<1>2. /\ fields'[q] = Append(fields[q], Field(q, has[q]))
      /\ \A p \in Peer : p # q => fields'[p] = fields[p]
    BY TakeBitfieldIs
<1>3. replying' = replying \ {q}
    BY DEF TakeBitfield
<1>4. \A p \in Peer : Knows(p)' = Knows(p) /\ SameRest(p) /\ SameRequests(p) /\ SameNet(p)
    BY <1>1, RestStays, RequestsStay DEF Knows, SameNet, Waits
<1>5. ASSUME NEW p \in Peer, p # q PROVE PeerInv(p)'
    <2>1. SameQueues(p)
        BY <1>1, <1>2, <1>4, <1>5 DEF SameQueues
    <2>2. Quiet(p)' => Quiet(p)
        BY <1>1, <1>3, <1>5 DEF Quiet
    <2> QED
        BY <1>1, <1>4, <2>1, <2>2, Untouched DEF NewsInv
<1>6. PeerInv(q)'
    <2> DEFINE m == Field(q, has[q])
    <2>1. m \in FieldMessage /\ m.from = q /\ m.field = has[q] /\ has[q] \in SUBSET Piece /\ m \in AllMessages
        BY NewMessages DEF BitfieldsTypes, AllMessages
    <2>2. OrderOf(q) /\ TruthOf(q) /\ NetOf(q)
        BY DEF NewsInv, PeerInv
    <2>3. \A f \in SUBSET Piece : Coming(q, f) => f \subseteq has[q]
        BY <2>2 DEF TruthOf
    <2>4. fields[q] \in Seq(AllMessages)
        BY BitfieldQueues
    <2>5. \A f : HasField(Append(fields[q], m), q, f) <=> f = has[q] \/ HasField(fields[q], q, f)
        BY <2>1, <2>4, QueueAppend
    <2>6. \A f : HasField(fields[q], q, f)' <=> f = has[q] \/ HasField(fields[q], q, f)
        <3>1. \A f : HasField(fields[q], q, f)' <=> HasField(fields'[q], q, f)
            BY DEF HasField
        <3> QED
            BY <1>2, <2>5, <3>1
    <2>7. \A f : /\ HasField(Rest, q, f)' <=> HasField(Rest, q, f)
                 /\ HasField(channel[q], q, f)' <=> HasField(channel[q], q, f)
        BY <1>1, <1>4 DEF SameRest, HasField
    <2>8. Ordered(Append(fields[q], m), q)
        BY <2>1, <2>2, <2>3, <2>4, QueueAppend DEF OrderOf, Coming
    <2>9. Ordered(Rest, q)' /\ Ordered(channel[q], q)' /\ Ordered(fields[q], q)'
        BY <1>1, <1>2, <1>4, <2>2, <2>8 DEF SameRest, OrderOf, Ordered
    <2>10. OrderOf(q)'
        BY <2>2, <2>3, <2>6, <2>7, <2>9 DEF OrderOf, Coming
    <2>11. \A f : Coming(q, f)' <=> f = has[q] \/ Coming(q, f)
        BY <2>6, <2>7 DEF Coming
    <2>12. \A i : Announce(q, i)' <=> Announce(q, i)
        BY <1>1, <1>4 DEF Announce, HasPiece, SameRequests
    <2>13. TruthOf(q)'
        BY <1>1, <1>4, <2>2, <2>3, <2>11, <2>12 DEF TruthOf
    <2>14. NetOf(q)'
        BY <1>4, <2>2 DEF NetOf, SameNet
    <2>15. Coming(q, has[q])'
        BY <1>1, <2>11
    <2>16. NewsOf(q)'
        BY <1>1, <1>4, <2>1, <2>2, <2>15 DEF NewsOf, TruthOf, Coming
    <2> QED
        BY <2>10, <2>13, <2>14, <2>16 DEF PeerInv
<1> QED
    BY <1>5, <1>6 DEF NewsInv

\* A bitfield goes from one queue to the next, or is lost with the connection.
LEMMA News_SendField ==
    ASSUME BitfieldsTypes, FromInv, NewsInv, NEW q \in Peer, SendField(q)
    PROVE  NewsInv'
<1>1. UNCHANGED <<responses, step, requests, bitfields, has, fresh, adding, newPeers, connected,
                  disturbed, crashed, told, asks, replying>>
    BY DEF SendField, managerVars, chooserVars, threadVars
<1>2. /\ fields[q] # <<>> /\ fields'[q] = Tail(fields[q])
      /\ channel'[q] = channel[q] \/ channel'[q] = Append(channel[q], Head(fields[q]))
      /\ q \in connected => channel'[q] = Append(channel[q], Head(fields[q]))
      /\ \A p \in Peer : p # q => fields'[p] = fields[p] /\ channel'[p] = channel[p]
    BY SendFieldIs
<1>3. \A p \in Peer : /\ Knows(p)' = Knows(p) /\ SameRest(p) /\ SameRequests(p) /\ SameNet(p)
                      /\ Quiet(p)' <=> Quiet(p)
    BY <1>1, RestStays, RequestsStay DEF Knows, SameNet, Waits, Quiet
<1>4. ASSUME NEW p \in Peer, p # q PROVE PeerInv(p)'
    <2>1. SameQueues(p)
        BY <1>1, <1>2, <1>3, <1>4 DEF SameQueues
    <2> QED
        BY <1>1, <1>3, <2>1, Untouched DEF NewsInv
<1>5. PeerInv(q)'
    <2>1. fields[q] \in Seq(FieldMessage) /\ fields[q] \in Seq(AllMessages) /\ channel[q] \in Seq(AllMessages)
        BY BitfieldQueues DEF BitfieldsTypes
    <2>2. PICK m \in FieldMessage : m = Head(fields[q]) /\ m = fields[q][1]
        BY <1>2, <2>1, TailIs
    <2>3. m.from = q /\ m.field \in SUBSET Piece /\ m \in AllMessages /\ m \notin UpdateMessage
        BY <1>2, <2>1, <2>2, TailIs, MessageKinds DEF FromInv, FieldMessage, AllMessages
    <2>4. OrderOf(q) /\ TruthOf(q) /\ NetOf(q)
        BY DEF NewsInv, PeerInv
    <2>5. /\ \A f : HasField(fields[q], q, f) <=> m.field = f \/ HasField(Tail(fields[q]), q, f)
          /\ Ordered(Tail(fields[q]), q)
          /\ \A f : HasField(Tail(fields[q]), q, f) => m.field \subseteq f
        BY <1>2, <2>1, <2>2, <2>3, <2>4, QueueTail DEF OrderOf
    <2>6. \A f \in SUBSET Piece : HasField(channel[q], q, f) => f \subseteq m.field
        BY <2>3, <2>4, <2>5 DEF OrderOf
    <2>7. /\ \A f : HasField(Append(channel[q], m), q, f) <=> m.field = f \/ HasField(channel[q], q, f)
          /\ \A i : HasPiece(Append(channel[q], m), q, i) <=> HasPiece(channel[q], q, i)
          /\ Ordered(Append(channel[q], m), q)
        BY <2>1, <2>2, <2>3, <2>4, <2>6, QueueAppend DEF OrderOf
    <2>8. /\ \A f : HasField(Rest, q, f)' <=> HasField(Rest, q, f)
          /\ Ordered(Rest, q)'
        BY <1>3, <2>4 DEF SameRest, OrderOf
    <2>9. /\ \A f : HasField(fields[q], q, f)' <=> HasField(Tail(fields[q]), q, f)
          /\ Ordered(fields[q], q)'
        BY <1>2, <2>5 DEF HasField, Ordered
    <2>10. /\ \A f : HasField(channel[q], q, f)' => m.field = f \/ HasField(channel[q], q, f)
           /\ q \in connected => \A f : HasField(channel[q], q, f)' <=> m.field = f \/ HasField(channel[q], q, f)
           /\ \A i : HasPiece(channel[q], q, i)' <=> HasPiece(channel[q], q, i)
           /\ Ordered(channel[q], q)'
        <3>1. CASE channel'[q] = channel[q] /\ q \notin connected
            BY <2>4, <3>1 DEF HasField, HasPiece, Ordered, OrderOf
        <3>2. CASE channel'[q] = Append(channel[q], m)
            <4>1. /\ \A f : HasField(channel[q], q, f)' <=> HasField(Append(channel[q], m), q, f)
                  /\ \A i : HasPiece(channel[q], q, i)' <=> HasPiece(Append(channel[q], m), q, i)
                  /\ Ordered(channel[q], q)' <=> Ordered(Append(channel[q], m), q)
                BY <3>2 DEF HasField, HasPiece, Ordered
            <4> QED
                BY <2>7, <4>1
        <3> QED
            BY <1>2, <2>2, <3>1, <3>2
    <2>11. OrderOf(q)'
        BY <2>3, <2>4, <2>5, <2>6, <2>8, <2>9, <2>10 DEF OrderOf
    <2>12. /\ \A f : Coming(q, f)' => Coming(q, f)
           /\ q \in connected => \A f : Coming(q, f)' <=> Coming(q, f)
        BY <2>5, <2>8, <2>9, <2>10 DEF Coming
    <2>13. \A i : Announce(q, i)' <=> Announce(q, i)
        BY <1>1, <1>3, <2>10 DEF Announce, SameRequests
    <2>14. TruthOf(q)'
        BY <1>1, <1>3, <2>4, <2>12, <2>13 DEF TruthOf
    <2>15. NetOf(q)'
        BY <1>3, <2>4 DEF NetOf, SameNet
    <2>16. NewsOf(q)'
        <3>1. Quiet(q) => q \in connected
            BY <2>4 DEF Quiet, NetOf
        <3> QED
            BY <1>1, <1>3, <2>12, <2>13, <3>1 DEF NewsOf, NewsInv, PeerInv
    <2> QED
        BY <2>11, <2>14, <2>15, <2>16 DEF PeerInv
<1> QED
    BY <1>4, <1>5 DEF NewsInv

\* The queues of bitfields, of which no more than before lies in the channel.
LEMMA ChannelOrder ==
    ASSUME NEW q, OrderOf(q), SameRest(q), fields'[q] = fields[q], Ordered(channel'[q], q),
           \A f : HasField(channel'[q], q, f) => HasField(channel[q], q, f)
    PROVE  OrderOf(q)'
<1>1. /\ Ordered(Rest, q)' /\ Ordered(channel[q], q)' /\ Ordered(fields[q], q)'
    BY DEF SameRest, OrderOf, Ordered
<1>2. \A f : /\ HasField(Rest, q, f)' <=> HasField(Rest, q, f)
             /\ HasField(channel[q], q, f)' => HasField(channel[q], q, f)
             /\ HasField(fields[q], q, f)' <=> HasField(fields[q], q, f)
    BY DEF SameRest, HasField
<1> QED
    BY <1>1, <1>2 DEF OrderOf

\* An update is sent to those who were told of the interest.
LEMMA News_SendUpdate ==
    ASSUME BitfieldsTypes, NewsInv, NEW q \in Peer, SendUpdate(q)
    PROVE  NewsInv'
<1>1. UNCHANGED <<responses, step, requests, bitfields, has, fields, adding, newPeers, connected,
                  disturbed, crashed, told, asks, replying>>
    BY DEF SendUpdate, managerVars, chooserVars, threadVars
<1>2. PICK i \in Piece :
           /\ i \in fresh[q] /\ fresh' = [fresh EXCEPT ![q] = @ \ {i}]
           /\ Update(q, i) \in UpdateMessage
           /\ channel'[q] = channel[q] \/ channel'[q] = Append(channel[q], Update(q, i))
           /\ q \in told /\ q \in connected => channel'[q] = Append(channel[q], Update(q, i))
           /\ \A p \in Peer : p # q => channel'[p] = channel[p]
    BY SendUpdateIs
<1>3. \A p \in Peer : /\ Knows(p)' = Knows(p) /\ SameRest(p) /\ SameRequests(p) /\ SameNet(p)
                      /\ Quiet(p)' <=> Quiet(p)
    BY <1>1, RestStays, RequestsStay DEF Knows, SameNet, Waits, Quiet
<1>4. fresh'[q] = fresh[q] \ {i} /\ \A p \in Peer : p # q => fresh'[p] = fresh[p]
    BY <1>2 DEF BitfieldsTypes
<1>5. ASSUME NEW p \in Peer, p # q PROVE PeerInv(p)'
    <2>1. SameQueues(p)
        BY <1>1, <1>2, <1>3, <1>5 DEF SameQueues
    <2> QED
        BY <1>1, <1>3, <1>4, <1>5, <2>1, Untouched DEF NewsInv
<1>6. PeerInv(q)'
    <2> DEFINE m == Update(q, i)
    <2>1. m \in UpdateMessage /\ m.from = q /\ m.piece = i /\ m \in AllMessages /\ m \notin FieldMessage
        BY <1>2, NewMessages, MessageKinds DEF AllMessages
    <2>2. OrderOf(q) /\ TruthOf(q) /\ NetOf(q) /\ channel[q] \in Seq(AllMessages)
        BY BitfieldQueues DEF NewsInv, PeerInv
    <2>3. /\ \A f : HasField(Append(channel[q], m), q, f) <=> HasField(channel[q], q, f)
          /\ \A j : HasPiece(Append(channel[q], m), q, j) <=> j = i \/ HasPiece(channel[q], q, j)
          /\ Ordered(Append(channel[q], m), q)
        BY <2>1, <2>2, QueueAppend DEF OrderOf
    <2>4. /\ \A f : HasField(channel'[q], q, f) <=> HasField(channel[q], q, f)
          /\ \A j : HasPiece(channel'[q], q, j) => j = i \/ HasPiece(channel[q], q, j)
          /\ q \in told /\ q \in connected =>
                \A j : HasPiece(channel'[q], q, j) <=> j = i \/ HasPiece(channel[q], q, j)
          /\ Ordered(channel'[q], q)
        <3>1. CASE channel'[q] = channel[q] /\ ~(q \in told /\ q \in connected)
            BY <2>2, <3>1 DEF OrderOf
        <3>2. CASE channel'[q] = Append(channel[q], m)
            BY <2>3, <3>2
        <3> QED
            BY <1>2, <3>1, <3>2
    <2>5. OrderOf(q)'
        BY <1>1, <1>3, <2>2, <2>4, ChannelOrder
    <2>6. \A f : Coming(q, f)' <=> Coming(q, f)
        <3>1. \A f : /\ HasField(Rest, q, f)' <=> HasField(Rest, q, f)
                     /\ HasField(channel[q], q, f)' <=> HasField(channel'[q], q, f)
                     /\ HasField(fields[q], q, f)' <=> HasField(fields[q], q, f)
            BY <1>1, <1>3 DEF SameRest, HasField
        <3> QED
            BY <2>4, <3>1 DEF Coming
    <2>7. /\ \A j : Announce(q, j)' => j = i \/ Announce(q, j)
          /\ q \in told /\ q \in connected => \A j : Announce(q, j) => Announce(q, j)'
        <3>1. \A j : /\ HasPiece(requests, q, j)' <=> HasPiece(requests, q, j)
                     /\ HasPiece(channel[q], q, j)' <=> HasPiece(channel'[q], q, j)
            BY <1>3 DEF SameRequests, HasPiece
        <3> QED
            BY <1>4, <2>4, <3>1 DEF Announce
    <2>8. i \in has[q]
        BY <1>2, <2>2 DEF TruthOf, Announce
    <2>9. TruthOf(q)'
        BY <1>1, <1>3, <2>2, <2>6, <2>7, <2>8 DEF TruthOf
    <2>10. NetOf(q)'
        BY <1>3, <2>2 DEF NetOf, SameNet
    <2>11. NewsOf(q)'
        <3>1. Quiet(q) => q \in connected /\ q \in told
            BY <2>2 DEF Quiet, NetOf
        <3> QED
            BY <1>1, <1>3, <2>6, <2>7, <3>1 DEF NewsOf, NewsInv, PeerInv
    <2> QED
        BY <2>5, <2>9, <2>10, <2>11 DEF PeerInv
<1> QED
    BY <1>5, <1>6 DEF NewsInv

\* A piece is verified, and its update is still to be sent.
LEMMA News_Verify ==
    ASSUME BitfieldsTypes, NewsInv, NEW q \in Peer, NEW i \in Piece, Verify(q, i)
    PROVE  NewsInv'
<1>1. UNCHANGED <<responses, step, requests, channel, fields, bitfields, adding, newPeers, connected,
                  disturbed, crashed, told, asks, replying>>
    BY DEF Verify, netVars, managerVars, chooserVars, threadVars
<1>2. /\ has'[q] = has[q] \cup {i} /\ fresh'[q] = {i} /\ fresh[q] = {}
      /\ \A p \in Peer : p # q => has'[p] = has[p] /\ fresh'[p] = fresh[p]
    BY DEF Verify, BitfieldsTypes
<1>3. \A p \in Peer : /\ Knows(p)' = Knows(p) /\ SameRest(p) /\ SameRequests(p) /\ SameNet(p)
                      /\ SameQueues(p) /\ (Quiet(p)' <=> Quiet(p))
    BY <1>1, RestStays, RequestsStay DEF Knows, SameNet, Waits, Quiet, SameQueues
<1>4. ASSUME NEW p \in Peer, p # q PROVE PeerInv(p)'
    BY <1>2, <1>3, <1>4, Untouched DEF NewsInv
<1>5. PeerInv(q)'
    <2>1. OrderOf(q) /\ TruthOf(q) /\ NetOf(q) /\ NewsOf(q)
        BY DEF NewsInv, PeerInv
    <2>2. OrderOf(q)'
        BY <1>3, <2>1, SameOrder
    <2>3. \A f : Coming(q, f)' <=> Coming(q, f)
        BY <1>3, SameComing
    <2>4. \A j : Announce(q, j)' <=> j = i \/ Announce(q, j)
        BY <1>1, <1>2, <1>3 DEF Announce, HasPiece, SameRequests
    <2>5. TruthOf(q)'
        BY <1>2, <1>3, <2>1, <2>3, <2>4 DEF TruthOf
    <2>6. NetOf(q)'
        BY <1>3, <2>1 DEF NetOf, SameNet
    <2>7. NewsOf(q)'
        BY <1>2, <1>3, <2>1, <2>3, <2>4 DEF NewsOf
    <2> QED
        BY <2>2, <2>5, <2>6, <2>7 DEF PeerInv
<1> QED
    BY <1>4, <1>5 DEF NewsInv

-----------------------------------------------------------------------------
(* The steps of the downloader's manager.                                  *)

\* A peer that is found has a connection.
LEMMA News_FindPeer ==
    ASSUME BitfieldsTypes, NewsInv, NEW q \in Peer, FindPeer(q)
    PROVE  NewsInv'
<1>1. UNCHANGED <<responses, step, requests, channel, fields, bitfields, has, fresh, adding,
                  disturbed, crashed, told, asks, replying>>
    BY DEF FindPeer, otherVars, chooserVars, threadVars
<1>2. newPeers' = Append(newPeers, q) /\ connected' = connected \cup {q} /\ newPeers \in Seq(Peer)
    BY DEF FindPeer, BitfieldsTypes
<1>3. ASSUME NEW p \in Peer, p # q PROVE SameNet(p)
    <2>1. Waits(p)' => Waits(p)
        BY <1>2, <1>3, AppendIs DEF Waits
    <2> QED
        BY <1>1, <1>2, <2>1 DEF SameNet
<1>4. NetOf(q)'
    BY <1>2 DEF NetOf
<1>5. \A p \in Peer : Quiet(p)' => Quiet(p)
    BY <1>1 DEF Quiet
<1> QED
    BY <1>1, <1>3, <1>4, <1>5, News_Aside

\* A peer that is asked, for its own interest, is asked over a connection.
LEMMA News_AnswerInterest ==
    ASSUME BitfieldsTypes, NewsInv, NEW q \in Peer, AnswerInterest(q)
    PROVE  NewsInv'
<1>1. UNCHANGED <<responses, step, requests, channel, fields, bitfields, has, fresh, adding, newPeers,
                  crashed, told, replying>>
    BY DEF AnswerInterest, otherVars, threadVars
<1>2. /\ connected' = connected \cup {q}
      /\ \A p \in Peer : p # q => asks'[p] = asks[p]
      /\ \A p : p # q => (p \in disturbed' <=> p \in disturbed)
      /\ asks'[q] > 0 \/ (asks' = asks /\ disturbed' = disturbed)
    BY DEF AnswerInterest, BitfieldsTypes
<1>3. ASSUME NEW p \in Peer, p # q PROVE SameNet(p)
    BY <1>1, <1>2, <1>3 DEF SameNet, Waits
<1>4. NetOf(q)'
    BY <1>2 DEF NetOf
<1>5. \A p \in Peer : Quiet(p)' => Quiet(p)
    BY <1>1, <1>2 DEF Quiet
<1> QED
    BY <1>1, <1>3, <1>4, <1>5, News_Aside

\* What is lost with a connection disturbs the peer.
LEMMA News_LoseConnection ==
    ASSUME BitfieldsTypes, NewsInv, NEW q \in Peer, LoseConnection(q)
    PROVE  NewsInv'
<1>1. UNCHANGED <<responses, step, requests, fields, bitfields, has, fresh, adding, newPeers, crashed, replying>>
    BY DEF LoseConnection, managerVars, threadVars
<1>2. /\ channel'[q] = <<>> /\ \A p \in Peer : p # q => channel'[p] = channel[p]
      /\ asks'[q] = 0 /\ \A p \in Peer : p # q => asks'[p] = asks[p]
    BY LoseConnectionIs
<1>3. /\ connected' = connected \ {q} /\ disturbed' = disturbed \cup {q}
      /\ \A p : p # q => (p \in told' <=> p \in told)
    BY DEF LoseConnection
<1>4. \A p \in Peer : Knows(p)' = Knows(p) /\ SameRest(p) /\ SameRequests(p)
    BY <1>1, RestStays, RequestsStay DEF Knows
<1>5. ASSUME NEW p \in Peer, p # q PROVE PeerInv(p)'
    <2>1. SameQueues(p) /\ SameNet(p)
        BY <1>1, <1>2, <1>3, <1>4, <1>5 DEF SameQueues, SameNet, Waits
    <2>2. Quiet(p)' => Quiet(p)
        BY <1>1, <1>2, <1>3, <1>5 DEF Quiet
    <2> QED
        BY <1>1, <1>4, <2>1, <2>2, Untouched DEF NewsInv
<1>6. PeerInv(q)'
    <2>1. OrderOf(q) /\ TruthOf(q)
        BY DEF NewsInv, PeerInv
    <2>2. Ordered(channel'[q], q) /\ (\A f : ~HasField(channel'[q], q, f)) /\ (\A i : ~HasPiece(channel'[q], q, i))
        BY <1>2, EmptyQueue
    <2>3. OrderOf(q)'
        BY <1>1, <1>4, <2>1, <2>2, ChannelOrder
    <2>4. /\ \A f : ~HasField(channel[q], q, f)'
          /\ \A f : HasField(Rest, q, f)' <=> HasField(Rest, q, f)
          /\ \A f : HasField(fields[q], q, f)' <=> HasField(fields[q], q, f)
        BY <1>1, <1>4, <2>2 DEF HasField, SameRest
    <2>5. \A f : Coming(q, f)' => Coming(q, f)
        BY <2>4 DEF Coming
    <2>6. \A i : Announce(q, i)' => Announce(q, i)
        <3>1. \A i : ~HasPiece(channel[q], q, i)'
            BY <2>2 DEF HasPiece
        <3> QED
            BY <1>1, <1>4, <3>1 DEF Announce, SameRequests
    <2>7. TruthOf(q)'
        BY <1>1, <1>4, <2>1, <2>5, <2>6 DEF TruthOf
    <2>8. NetOf(q)' /\ NewsOf(q)'
        BY <1>3 DEF NetOf, NewsOf, Quiet
    <2> QED
        BY <2>3, <2>7, <2>8 DEF PeerInv
<1> QED
    BY <1>5, <1>6 DEF NewsInv

\* The manager erases a peer, the chooser does not.
LEMMA News_ErasePeer ==
    ASSUME BitfieldsTypes, NewsInv, NEW q \in Peer, ErasePeer(q)
    PROVE  NewsInv'
<1>1. UNCHANGED <<responses, step, requests, channel, fields, bitfields, has, fresh, adding, newPeers, connected,
                  disturbed, crashed, told, asks, replying>>
    BY DEF ErasePeer, otherVars, netVars, chooserVars, threadVars
<1>2. \A p \in Peer : SameNet(p) /\ (Quiet(p)' => Quiet(p))
    BY <1>1 DEF SameNet, Waits, Quiet
<1> QED
    BY <1>1, <1>2, News_Aside

\* A peer that is told is asked, if there is a connection.
LEMMA News_TellPeer ==
    ASSUME BitfieldsTypes, NewsInv, TellPeer
    PROVE  NewsInv'
<1>1. UNCHANGED <<responses, step, requests, channel, fields, bitfields, has, fresh, connected, crashed, told, replying>>
    BY DEF TellPeer, otherVars, threadVars
<1>2. PICK q \in Peer :
           /\ newPeers # <<>> /\ q = newPeers[1] /\ newPeers' = Tail(newPeers)
           /\ adding' = {q}
           /\ \A p \in Peer : p # q => asks'[p] = asks[p]
           /\ q \in connected => asks'[q] > 0
           /\ q \notin connected => asks'[q] = asks[q]
           /\ disturbed' = disturbed \ ({q} \cap connected)
    BY TellPeerIs
<1>3. newPeers \in Seq(Peer)
    BY DEF BitfieldsTypes
<1>4. Waits(q) /\ \A p : Waits(p)' => Waits(p)
    <2>1. Waits(q)
        BY <1>2, <1>3, TailIs DEF Waits
    <2>2. \A k \in DOMAIN newPeers' : k + 1 \in DOMAIN newPeers /\ newPeers'[k] = newPeers[k + 1]
        BY <1>2, <1>3, TailIs
    <2> QED
        BY <2>1, <2>2 DEF Waits
<1>5. ASSUME NEW p \in Peer PROVE SameNet(p) \/ NetOf(p)'
    <2>1. CASE p = q /\ q \in connected
        BY <1>1, <2>1 DEF NetOf
    <2>2. CASE ~(p = q /\ q \in connected)
        BY <1>1, <1>2, <1>4, <2>2 DEF SameNet
    <2> QED
        BY <2>1, <2>2
<1>6. ASSUME NEW p \in Peer PROVE Quiet(p)' => Quiet(p)
    BY <1>1, <1>2 DEF Quiet
<1> QED
    BY <1>1, <1>5, <1>6, News_Aside

\* A peer that is added again loses what was known, and is disturbed.
LEMMA News_AddPeer ==
    ASSUME BitfieldsTypes, NewsInv, NEW q \in Peer, AddPeer(q)
    PROVE  NewsInv'
<1>1. UNCHANGED <<responses, step, requests, channel, fields, has, fresh, newPeers, connected, crashed, told, asks, replying>>
    BY DEF AddPeer, otherVars, netVars, threadVars
<1>2. /\ adding' = {} /\ bitfields' = Stored(q, {})
      /\ disturbed' = disturbed \cup {p \in {q} \cap DOMAIN bitfields : bitfields[p] # {}}
    BY DEF AddPeer
<1>3. /\ DOMAIN bitfields' = DOMAIN bitfields \cup {q} /\ bitfields'[q] = {}
      /\ \A p \in DOMAIN bitfields : p # q => bitfields'[p] = bitfields[p]
    BY <1>2, StoredIs
<1>4. \A p \in Peer : SameQueues(p) /\ SameNet(p) /\ (Quiet(p)' => Quiet(p))
    BY <1>1, <1>2, RestStays, RequestsStay DEF SameQueues, SameNet, Waits, Quiet
<1>5. ASSUME NEW p \in Peer, Knows(p)' = Knows(p) PROVE PeerInv(p)'
    BY <1>1, <1>4, <1>5, Untouched DEF NewsInv
<1>6. \A p : p # q => Knows(p)' = Knows(p)
    BY <1>3 DEF Knows
<1>7. Knows(q)' = {}
    BY <1>3 DEF Knows
<1>8. CASE Knows(q) # {}
    <2>1. q \in disturbed'
        BY <1>2, <1>8 DEF Knows
    <2>2. OrderOf(q) /\ TruthOf(q)
        BY DEF NewsInv, PeerInv
    <2>3. OrderOf(q)'
        BY <1>4, <2>2, SameOrder
    <2>4. /\ \A f : Coming(q, f)' <=> Coming(q, f)
          /\ \A i : Announce(q, i)' <=> Announce(q, i)
        BY <1>1, <1>4, SameComing, SameAnnounce
    <2>5. TruthOf(q)'
        BY <1>1, <1>7, <2>2, <2>4 DEF TruthOf
    <2>6. NetOf(q)' /\ NewsOf(q)'
        BY <2>1 DEF NetOf, NewsOf, Quiet
    <2>7. PeerInv(q)'
        BY <2>3, <2>5, <2>6 DEF PeerInv
    <2> QED
        BY <1>5, <1>6, <2>7 DEF NewsInv
<1> QED
    BY <1>5, <1>6, <1>7, <1>8 DEF NewsInv

-----------------------------------------------------------------------------
(* The steps of the downloader's threads.                                  *)

\* A message goes from the channel to the queue of its thread.
LEMMA News_Arrive ==
    ASSUME BitfieldsTypes, FromInv, NewsInv, NEW q \in Peer, Arrive(q)
    PROVE  NewsInv'
<1> DEFINE m == channel[q][1]
<1>1. UNCHANGED <<step, fields, bitfields, has, fresh, adding, newPeers, connected,
                  disturbed, crashed, told, asks, replying>>
    BY DEF Arrive, otherVars, managerVars, chooserVars
<1>2. channel[q] \in Seq(FieldMessage \cup UpdateMessage) /\ channel[q] # <<>>
    BY ArriveIs DEF BitfieldsTypes
<1>3. /\ m = Head(channel[q]) /\ m \in AllMessages /\ m.from = q
    BY <1>2, TailIs DEF FromInv, AllMessages
<1>4. /\ channel'[q] = Tail(channel[q]) /\ \A p \in Peer : p # q => channel'[p] = channel[p]
      /\ \/ m \in FieldMessage /\ responses' = Append(responses, m) /\ requests' = requests
         \/ m \in UpdateMessage /\ requests' = Append(requests, m) /\ responses' = responses
    BY <1>3, ArriveIs
<1> HIDE DEF m
<1>5. \A p \in Peer : Knows(p)' = Knows(p) /\ SameNet(p) /\ (Quiet(p)' <=> Quiet(p))
    BY <1>1 DEF Knows, SameNet, Waits, Quiet
<1>6. /\ Rest \in Seq(AllMessages) /\ requests \in Seq(AllMessages) /\ channel[q] \in Seq(AllMessages)
      /\ responses \in Seq(AllMessages)
    BY BitfieldQueues
<1>7. OrderOf(q) /\ TruthOf(q) /\ NetOf(q) /\ NewsOf(q)
    BY DEF NewsInv, PeerInv
<1>8. /\ \A f : HasField(channel[q], q, f) <=> \/ m \in FieldMessage /\ m.field = f
                                               \/ HasField(Tail(channel[q]), q, f)
      /\ \A i : HasPiece(channel[q], q, i) <=> \/ m \in UpdateMessage /\ m.piece = i
                                               \/ HasPiece(Tail(channel[q]), q, i)
      /\ Ordered(Tail(channel[q]), q)
      /\ m \in FieldMessage => \A f : HasField(Tail(channel[q]), q, f) => m.field \subseteq f
    BY <1>2, <1>3, <1>6, <1>7, QueueTail DEF OrderOf, m
<1>9. /\ \A f : HasField(channel[q], q, f)' <=> HasField(Tail(channel[q]), q, f)
      /\ \A i : HasPiece(channel[q], q, i)' <=> HasPiece(Tail(channel[q]), q, i)
      /\ Ordered(channel'[q], q) /\ Ordered(channel[q], q)'
    BY <1>4, <1>8 DEF HasField, HasPiece, Ordered
<1>10. CASE m \in FieldMessage /\ responses' = Append(responses, m) /\ requests' = requests
    <2>1. m \notin UpdateMessage /\ m.field \in SUBSET Piece
        BY <1>10, MessageKinds DEF FieldMessage
    <2>2. Rest' = Append(Rest, m)
        <3>1. step >= 3 => responses # <<>>
            BY DEF BitfieldsTypes
        <3>2. CASE step < 3
            BY <1>1, <1>10, <3>2 DEF Rest
        <3>3. CASE ~(step < 3)
            <4>1. responses # <<>>
                BY <3>1, <3>3 DEF BitfieldsTypes
            <4>2. Tail(Append(responses, m)) = Append(Tail(responses), m)
                BY <1>3, <1>6, <4>1, TailAppend
            <4> QED
                BY <1>1, <1>10, <3>3, <4>2 DEF Rest
        <3> QED
            BY <3>2, <3>3
    <2>3. \A p \in Peer : SameRequests(p)
        BY <1>10, RequestsStay
    <2>4. ASSUME NEW p \in Peer, p # q PROVE PeerInv(p)'
        <3>1. /\ \A f : HasField(Append(Rest, m), p, f) <=> HasField(Rest, p, f)
              /\ Ordered(Rest, p) => Ordered(Append(Rest, m), p)
            BY <1>3, <1>6, <2>4, QueueAppend
        <3>2. SameRest(p)
            BY <2>2, <3>1 DEF SameRest, HasField, Ordered
        <3>3. SameQueues(p)
            BY <1>1, <1>4, <2>3, <2>4, <3>2 DEF SameQueues
        <3> QED
            BY <1>1, <1>5, <3>3, Untouched DEF NewsInv
    <2>5. PeerInv(q)'
        <3>1. \A f \in SUBSET Piece : HasField(Rest, q, f) => f \subseteq m.field
            BY <1>7, <1>8, <1>10, <2>1 DEF OrderOf
        <3>2. /\ \A f : HasField(Append(Rest, m), q, f) <=> m.field = f \/ HasField(Rest, q, f)
              /\ Ordered(Append(Rest, m), q)
            BY <1>3, <1>6, <1>7, <1>10, <3>1, QueueAppend DEF OrderOf
        <3>3. /\ \A f : HasField(Rest, q, f)' <=> m.field = f \/ HasField(Rest, q, f)
              /\ Ordered(Rest, q)'
            BY <2>2, <3>2 DEF HasField, Ordered
        <3>4. (\A f : HasField(fields[q], q, f)' <=> HasField(fields[q], q, f)) /\ Ordered(fields[q], q)'
            BY <1>1, <1>7 DEF HasField, Ordered, OrderOf
        <3>5. OrderOf(q)'
            BY <1>7, <1>8, <1>9, <1>10, <2>1, <3>3, <3>4 DEF OrderOf
        <3>6. \A f : Coming(q, f)' <=> Coming(q, f)
            BY <1>8, <1>9, <1>10, <3>3, <3>4 DEF Coming
        <3>7. \A i : Announce(q, i)' <=> Announce(q, i)
            BY <1>1, <1>8, <1>9, <2>1, <2>3 DEF Announce, SameRequests
        <3>8. TruthOf(q)' /\ NetOf(q)' /\ NewsOf(q)'
            BY <1>1, <1>5, <1>7, <3>6, <3>7 DEF TruthOf, NetOf, SameNet, NewsOf
        <3> QED
            BY <3>5, <3>8 DEF PeerInv
    <2> QED
        BY <2>4, <2>5 DEF NewsInv
<1>11. CASE m \in UpdateMessage /\ requests' = Append(requests, m) /\ responses' = responses
    <2>1. m \notin FieldMessage
        BY <1>11, MessageKinds
    <2>2. \A p \in Peer : SameRest(p)
        BY <1>1, <1>11, RestStays
    <2>3. ASSUME NEW p \in Peer, p # q PROVE PeerInv(p)'
        <3>1. \A i : HasPiece(Append(requests, m), p, i) <=> HasPiece(requests, p, i)
            BY <1>3, <1>6, <2>3, QueueAppend
        <3>2. SameRequests(p)
            BY <1>11, <3>1 DEF SameRequests, HasPiece
        <3>3. SameQueues(p)
            BY <1>1, <1>4, <2>2, <2>3, <3>2 DEF SameQueues
        <3> QED
            BY <1>1, <1>5, <3>3, Untouched DEF NewsInv
    <2>4. PeerInv(q)'
        <3>1. \A f : HasField(channel'[q], q, f) <=> HasField(channel[q], q, f)
            BY <1>4, <1>8, <2>1
        <3>2. OrderOf(q)'
            BY <1>1, <1>7, <1>9, <2>2, <3>1, ChannelOrder
        <3>3. \A f : Coming(q, f)' <=> Coming(q, f)
            <4>1. \A f : /\ HasField(Rest, q, f)' <=> HasField(Rest, q, f)
                         /\ HasField(fields[q], q, f)' <=> HasField(fields[q], q, f)
                BY <1>1, <2>2 DEF SameRest, HasField
            <4> QED
                BY <1>8, <1>9, <2>1, <4>1 DEF Coming
        <3>4. \A i : HasPiece(Append(requests, m), q, i) <=> m.piece = i \/ HasPiece(requests, q, i)
            BY <1>3, <1>6, <1>11, QueueAppend
        <3>5. \A i : HasPiece(requests, q, i)' <=> m.piece = i \/ HasPiece(requests, q, i)
            BY <1>11, <3>4 DEF HasPiece
        <3>6. \A i : Announce(q, i)' <=> Announce(q, i)
            BY <1>1, <1>8, <1>9, <1>11, <3>5 DEF Announce
        <3>7. TruthOf(q)' /\ NetOf(q)' /\ NewsOf(q)'
            BY <1>1, <1>5, <1>7, <3>3, <3>6 DEF TruthOf, NetOf, SameNet, NewsOf
        <3> QED
            BY <3>2, <3>7 DEF PeerInv
    <2> QED
        BY <2>3, <2>4 DEF NewsInv
<1> QED
    BY <1>4, <1>10, <1>11

\* What is coming is in a bitfield that is not yet stored.
LEMMA ComingPending ==
    ASSUME BitfieldsTypes, NEW q \in Peer, NEW f, Coming(q, f)
    PROVE  \E c \in Pending(q) : c.field = f
<1>1. ASSUME HasField(Rest, q, f) PROVE HasField(responses, q, f)
    <2>1. CASE step < 3
        BY <1>1, <2>1 DEF Rest
    <2>2. CASE ~(step < 3)
        <3>1. responses # <<>> /\ responses \in Seq(AllMessages)
            BY <2>2, BitfieldQueues DEF BitfieldsTypes
        <3> QED
            BY <1>1, <2>2, <3>1, QueueTail DEF Rest
    <2> QED
        BY <2>1, <2>2
<1>2. ASSUME HasField(responses, q, f) PROVE \E c \in Pending(q) : c.field = f
    BY <1>2 DEF HasField, Pending, ToSet
<1>3. ASSUME HasField(fields[q], q, f) PROVE \E c \in Pending(q) : c.field = f
    BY <1>3 DEF HasField, Pending, ToSet
<1>4. ASSUME HasField(channel[q], q, f) PROVE \E c \in Pending(q) : c.field = f
    BY <1>4, MessageKinds DEF HasField, Pending, ToSet
<1> QED
    BY <1>1, <1>2, <1>3, <1>4 DEF Coming

\* What is announced becomes known, and disturbs when what is coming has it not.
LEMMA News_GotPiece ==
    ASSUME BitfieldsTypes, NewsInv, GotPiece
    PROVE  NewsInv'
<1>1. UNCHANGED <<responses, step, channel, fields, has, fresh, adding, newPeers, connected, told, asks, replying>>
    BY DEF GotPiece, otherVars, netVars, managerVars
<1>2. PICK q \in Peer, i \in Piece :
           /\ requests # <<>> /\ requests[1].from = q /\ requests[1].piece = i
           /\ requests' = Tail(requests) /\ requests' \in Seq(UpdateMessage)
           /\ q \notin DOMAIN bitfields => crashed' = {q} /\ UNCHANGED chooserVars
           /\ q \in DOMAIN bitfields =>
                /\ bitfields' = Stored(q, bitfields[q] \cup {i})
                /\ disturbed' = IF \E f \in Pending(q) : i \notin f.field THEN disturbed \cup {q} ELSE disturbed
                /\ crashed' = crashed
    BY GotPieceIs
<1>3. crashed = {}
    BY DEF GotPiece, Runs
<1>4. requests \in Seq(AllMessages) /\ requests[1] \in UpdateMessage
    BY <1>2, BitfieldQueues, TailIs DEF BitfieldsTypes
<1>5. /\ \A j : HasPiece(requests, q, j) <=> j = i \/ HasPiece(Tail(requests), q, j)
      /\ \A p : p # q => \A j : HasPiece(requests, p, j) <=> HasPiece(Tail(requests), p, j)
    BY <1>2, <1>4, QueueTail
<1>6. /\ \A j : HasPiece(requests, q, j) <=> j = i \/ HasPiece(requests, q, j)'
      /\ \A p : p # q => SameRequests(p)
    <2>1. \A p, j : HasPiece(requests, p, j)' <=> HasPiece(Tail(requests), p, j)
        BY <1>2 DEF HasPiece
    <2> QED
        BY <1>5, <2>1 DEF SameRequests
<1>7. /\ \A p : p # q => Knows(p)' = Knows(p)
      /\ \/ q \in DOMAIN bitfields /\ Knows(q)' = Knows(q) \cup {i}
         \/ q \notin DOMAIN bitfields /\ Knows(q)' = Knows(q) /\ q \in crashed'
    <2>1. CASE q \in DOMAIN bitfields
        <3>1. bitfields[q] \cup {i} \in SUBSET Piece
            BY <2>1 DEF BitfieldsTypes
        <3>2. bitfields' = Stored(q, bitfields[q] \cup {i})
            BY <1>2, <2>1
        <3>3. /\ DOMAIN bitfields' = DOMAIN bitfields \cup {q} /\ bitfields'[q] = bitfields[q] \cup {i}
              /\ \A p \in DOMAIN bitfields : p # q => bitfields'[p] = bitfields[p]
            BY <3>1, <3>2, StoredIs
        <3> QED
            BY <2>1, <3>3 DEF Knows
    <2>2. CASE q \notin DOMAIN bitfields
        BY <1>2, <2>2 DEF Knows, chooserVars
    <2> QED
        BY <2>1, <2>2
<1>8. disturbed \subseteq disturbed' /\ \A p : p # q => (p \in disturbed' <=> p \in disturbed)
    BY <1>2 DEF chooserVars
<1>9. \A p \in Peer : SameRest(p) /\ SameNet(p) /\ (Quiet(p)' => Quiet(p))
    BY <1>1, <1>3, <1>8, RestStays DEF SameNet, Waits, Quiet
<1>10. ASSUME NEW p \in Peer, p # q PROVE PeerInv(p)'
    <2>1. SameQueues(p)
        BY <1>1, <1>6, <1>9, <1>10 DEF SameQueues
    <2> QED
        BY <1>1, <1>7, <1>9, <1>10, <2>1, Untouched DEF NewsInv
<1>11. PeerInv(q)'
    <2>1. OrderOf(q) /\ TruthOf(q) /\ NetOf(q) /\ NewsOf(q)
        BY DEF NewsInv, PeerInv
    <2>2. \A f : /\ HasField(Rest, q, f)' <=> HasField(Rest, q, f)
                 /\ HasField(channel[q], q, f)' <=> HasField(channel[q], q, f)
                 /\ HasField(fields[q], q, f)' <=> HasField(fields[q], q, f)
        BY <1>1, <1>9 DEF SameRest, HasField
    <2>3. OrderOf(q)'
        <3>1. Ordered(Rest, q)' /\ Ordered(channel[q], q)' /\ Ordered(fields[q], q)'
            BY <1>1, <1>9, <2>1 DEF SameRest, Ordered, OrderOf
        <3> QED
            BY <2>1, <2>2, <3>1 DEF OrderOf
    <2>4. \A f : Coming(q, f)' <=> Coming(q, f)
        BY <2>2 DEF Coming
    <2>5. \A j : Announce(q, j) <=> j = i \/ Announce(q, j)'
        <3>1. \A j : HasPiece(channel[q], q, j)' <=> HasPiece(channel[q], q, j)
            BY <1>1 DEF HasPiece
        <3> QED
            BY <1>1, <1>6, <3>1 DEF Announce
    <2>6. i \in has[q]
        BY <2>1, <2>5 DEF TruthOf
    <2>7. TruthOf(q)'
        BY <1>1, <1>7, <2>1, <2>4, <2>5, <2>6 DEF TruthOf
    <2>8. NetOf(q)'
        BY <1>9, <2>1 DEF NetOf, SameNet
    <2>9. ASSUME Quiet(q)' PROVE NewsOf(q)'
        <3>1. q \in DOMAIN bitfields /\ Knows(q)' = Knows(q) \cup {i}
            BY <1>7, <2>9 DEF Quiet
        <3>2. \A c \in Pending(q) : i \in c.field
            BY <1>2, <2>9, <3>1 DEF Quiet
        <3>3. \A f : Coming(q, f) => i \in f
            BY <3>2, ComingPending
        <3>4. Quiet(q)
            BY <1>9, <2>9
        <3> QED
            BY <1>1, <2>1, <2>4, <2>5, <3>1, <3>3, <3>4 DEF NewsOf
    <2> QED
        BY <2>3, <2>7, <2>8, <2>9 DEF PeerInv, NewsOf
<1> QED
    BY <1>10, <1>11 DEF NewsInv

\* The bitfield that is stored replaces what was known: what it has not is in
\* one that comes later.
LEMMA News_HandleField ==
    ASSUME BitfieldsTypes, NewsInv, HandleField
    PROVE  NewsInv'
<1>1. UNCHANGED <<requests, channel, fields, has, fresh, adding, newPeers, connected, disturbed, crashed,
                  told, asks, replying>>
    BY DEF HandleField, otherVars, netVars
<1>2. \A p \in Peer : SameRequests(p) /\ SameNet(p) /\ (Quiet(p)' <=> Quiet(p))
    BY <1>1, RequestsStay DEF SameNet, Waits, Quiet
<1>3. /\ responses # <<>> /\ responses \in Seq(AllMessages) /\ responses[1] \in FieldMessage
      /\ responses[1].from \in Peer /\ responses[1].field \in SUBSET Piece
      /\ Removes \/ Stores \/ Adds \/ Reports
    BY HandleFieldIs, BitfieldQueues
<1>4. ASSUME Rest' = Rest, bitfields' = bitfields PROVE NewsInv'
    <2> SUFFICES ASSUME NEW p \in Peer PROVE PeerInv(p)'
        BY DEF NewsInv
    <2>1. SameRest(p) /\ Knows(p)' = Knows(p)
        BY <1>4 DEF SameRest, Ordered, HasField, Knows
    <2>2. SameQueues(p)
        BY <1>1, <1>2, <2>1 DEF SameQueues
    <2> QED
        BY <1>1, <1>2, <2>1, <2>2, Untouched DEF NewsInv
<1>5. ASSUME Removes \/ Adds \/ Reports PROVE Rest' = Rest /\ bitfields' = bitfields
    <2>1. CASE Removes
        BY <2>1 DEF Removes, Rest
    <2>2. CASE Adds
        BY <2>2 DEF Adds, Rest
    <2>3. CASE Reports
        BY <2>3 DEF Reports, Rest
    <2> QED
        BY <1>5, <2>1, <2>2, <2>3
<1>6. CASE Stores
    <2> DEFINE m == responses[1]
    <2>1. PICK q \in Peer : q = m.from
        BY <1>3
    <2>2. Rest = responses /\ Rest' = Tail(Rest) /\ bitfields' = Stored(q, m.field)
        BY <1>6, <2>1 DEF Stores, Rest
    <2>3. /\ Knows(q)' = m.field /\ \A p : p # q => Knows(p)' = Knows(p)
        <3>1. /\ DOMAIN bitfields' = DOMAIN bitfields \cup {q} /\ bitfields'[q] = m.field
              /\ \A p \in DOMAIN bitfields : p # q => bitfields'[p] = bitfields[p]
            BY <1>3, <2>1, <2>2, StoredIs
        <3> QED
            BY <3>1 DEF Knows
    <2>4. ASSUME NEW p \in Peer, p # q PROVE PeerInv(p)'
        <3>1. /\ \A f : HasField(Rest, p, f) <=> HasField(Tail(Rest), p, f)
              /\ Ordered(Rest, p) => Ordered(Tail(Rest), p)
            BY <1>3, <2>1, <2>2, <2>4, QueueTail
        <3>2. SameRest(p)
            BY <2>2, <3>1 DEF SameRest, HasField, Ordered
        <3>3. SameQueues(p)
            BY <1>1, <1>2, <3>2 DEF SameQueues
        <3> QED
            BY <1>1, <1>2, <2>3, <2>4, <3>3, Untouched DEF NewsInv
    <2>5. PeerInv(q)'
        <3>1. OrderOf(q) /\ TruthOf(q) /\ NetOf(q) /\ NewsOf(q)
            BY DEF NewsInv, PeerInv
        <3>2. /\ \A f : HasField(Rest, q, f) <=> m.field = f \/ HasField(Tail(Rest), q, f)
              /\ Ordered(Tail(Rest), q)
              /\ \A f : HasField(Tail(Rest), q, f) => m.field \subseteq f
            BY <1>3, <2>1, <2>2, <3>1, QueueTail DEF OrderOf
        <3>3. /\ \A f : HasField(Rest, q, f)' <=> HasField(Tail(Rest), q, f)
              /\ \A f : HasField(channel[q], q, f)' <=> HasField(channel[q], q, f)
              /\ \A f : HasField(fields[q], q, f)' <=> HasField(fields[q], q, f)
              /\ Ordered(Rest, q)' /\ Ordered(channel[q], q)' /\ Ordered(fields[q], q)'
            BY <1>1, <2>2, <3>1, <3>2 DEF HasField, Ordered, OrderOf
        <3>4. OrderOf(q)'
            BY <3>1, <3>2, <3>3 DEF OrderOf
        <3>5. \A f : Coming(q, f) <=> f = m.field \/ Coming(q, f)'
            BY <3>2, <3>3 DEF Coming
        <3>6. \A f \in SUBSET Piece : Coming(q, f)' => m.field \subseteq f
            BY <1>3, <3>1, <3>2, <3>3 DEF Coming, OrderOf
        <3>7. \A i : Announce(q, i)' <=> Announce(q, i)
            BY <1>1, <1>2 DEF Announce, HasPiece, SameRequests
        <3>8. TruthOf(q)'
            BY <1>1, <1>3, <2>3, <3>1, <3>5, <3>7 DEF TruthOf
        <3>9. NetOf(q)'
            BY <1>2, <3>1 DEF NetOf, SameNet
        <3>10. ASSUME Quiet(q) PROVE NewsOf(q)'
            <4>1. \A i \in Knows(q) : \E g \in SUBSET Piece : Coming(q, g) /\ i \in g
                BY <1>3, <3>1, <3>5, <3>10 DEF NewsOf
            <4>2. \A i \in has[q] : i \in m.field \/ Announce(q, i) \/ \E f \in SUBSET Piece : Coming(q, f)' /\ i \in f
                BY <3>1, <3>5, <3>10, <4>1 DEF NewsOf
            <4> QED
                BY <1>1, <2>3, <3>6, <3>7, <4>2 DEF NewsOf
        <3> QED
            BY <1>2, <3>4, <3>8, <3>9, <3>10 DEF PeerInv, NewsOf
    <2> QED
        BY <2>4, <2>5 DEF NewsInv
<1> QED
    BY <1>3, <1>4, <1>5, <1>6

\* Every step keeps what is known of the pieces of the peers.
LEMMA News_Step ==
    ASSUME BitfieldsTypes, FromInv, NewsInv, [BitfieldsNext]_bitfieldsVars
    PROVE  NewsInv'
<1>1. ASSUME UNCHANGED bitfieldsVars PROVE NewsInv'
    <2>1. UNCHANGED <<responses, step, requests, channel, fields, bitfields, has, fresh, adding, newPeers, connected,
                      disturbed, crashed, told, asks, replying>>
        BY <1>1 DEF bitfieldsVars, otherVars, netVars, managerVars, chooserVars, threadVars
    <2>2. \A p \in Peer : SameNet(p) /\ (Quiet(p)' => Quiet(p))
        BY <2>1 DEF SameNet, Waits, Quiet
    <2> QED
        BY <2>1, <2>2, News_Aside
<1> QED
    BY <1>1, News_TakeInterest, News_TakeBitfield, News_SendField, News_SendUpdate, News_Verify, News_FindPeer,
       News_AnswerInterest, News_LoseConnection, News_ErasePeer, News_AddPeer, News_Arrive, News_TellPeer,
       News_GotPiece, News_HandleField
    DEF BitfieldsNext

\* Nothing of what is coming or announced is forgotten, so what a peer has
\* beyond what is known of it is on its way, unless the peer was disturbed or
\* will be asked again; and nothing is known of a peer that it has not got.
THEOREM NothingIsMissed == BitfieldsSpec => []NothingMissed
<1> DEFINE Inv == BitfieldsTypes /\ FromInv /\ KnownInv /\ NewsInv
<1>1. BitfieldsInit => Inv
    BY Bitfields_Init, Known_Init, News_Init
<1>2. Inv /\ [BitfieldsNext]_bitfieldsVars => Inv'
    BY Bitfields_Types, Known_Step, News_Step
<1>3. Inv => NothingMissed
    <2> SUFFICES ASSUME Inv, NEW q \in DOMAIN bitfields
                 PROVE  /\ bitfields[q] \subseteq has[q]
                        /\ q \in told /\ q \notin disturbed /\ ~Asked(q) =>
                             \A i \in has[q] : \/ i \in bitfields[q] \/ i \in Announced(q)
                                               \/ \E c \in Pending(q) : i \in c.field
        BY DEF NothingMissed
    <2>1. q \in Peer /\ q \notin crashed /\ PeerInv(q) /\ Knows(q) = bitfields[q]
        BY DEF BitfieldsTypes, KnownInv, CrashInv, NewsInv, Knows
    <2>2. bitfields[q] \subseteq has[q]
        BY <2>1 DEF PeerInv, TruthOf
    <2>3. ASSUME q \in told, q \notin disturbed, ~Asked(q), NEW i \in has[q]
          PROVE  \/ i \in bitfields[q] \/ i \in Announced(q) \/ \E c \in Pending(q) : i \in c.field
        <3>1. Quiet(q)
            BY <2>1, <2>3 DEF Quiet, Asked, BitfieldsTypes
        <3>2. i \in bitfields[q] \/ Announce(q, i) \/ \E f \in SUBSET Piece : Coming(q, f) /\ i \in f
            BY <2>1, <3>1 DEF PeerInv, NewsOf
        <3>3. ASSUME Announce(q, i) PROVE i \in Announced(q)
            BY <3>3, MessageKinds DEF Announce, Announced, HasPiece, ToSet
        <3>4. ASSUME NEW f, Coming(q, f), i \in f PROVE \E c \in Pending(q) : i \in c.field
            BY <2>1, <3>4, ComingPending
        <3> QED
            BY <3>2, <3>3, <3>4
    <2> QED
        BY <2>2, <2>3
<1> QED
    BY <1>1, <1>2, <1>3, PTL DEF BitfieldsSpec
=============================================================================
