--------------------------- MODULE Download_proofs ---------------------------
(***************************************************************************)
(* Theorems about Download, for every file layout, set of peers, window    *)
(* and bound: types, that the table is used as DownloadProgress specifies, *)
(* that no piece is left Downloaded, that what is Verified, announced or   *)
(* seeded is on the disk, that every request is tracked until it is        *)
(* answered, and that undisturbed downloads count exactly and catch a      *)
(* corrupted block.                                                        *)
(***************************************************************************)
EXTENDS Download, DownloadProgress_proofs

-----------------------------------------------------------------------------
(* Finite sets.                                                            *)

\* A peer's outstanding requests are finitely many.
LEMMA OutstandingType ==
    ASSUME RequestTypeOK, NEW q \in Peer
    PROVE  Outstanding(q) \in Nat
<1> DEFINE Of(b) == {<<b, i>> : i \in 1..open[q][b]}
<1> DEFINE All == {Of(b) : b \in Block}
<1>1. \A b \in Block : IsFiniteSet(Of(b))
    <2> SUFFICES ASSUME NEW b \in Block PROVE IsFiniteSet(Of(b))
        OBVIOUS
    <2>1. IsFiniteSet(1..open[q][b])
        BY FS_Interval DEF RequestTypeOK
    <2>2. [i \in 1..open[q][b] |-> <<b, i>>] \in Surjection(1..open[q][b], Of(b))
        BY DEF Surjection
    <2> HIDE DEF Of
    <2> QED
        BY <2>1, <2>2, FS_Surjection
<1>2. [b \in Block |-> Of(b)] \in Surjection(Block, All)
    BY DEF Surjection
<1>3. \A s \in All : IsFiniteSet(s)
    BY <1>1
<1>4. Outstanding(q) = Cardinality(UNION All)
    BY DEF Outstanding
<1> HIDE DEF All
<1>5. IsFiniteSet(All)
    BY <1>2, DownloadAssumption, FS_Surjection
<1> QED
    BY <1>3, <1>4, <1>5, FS_UNION, FS_CardinalityType

\* So are the entries that may time out.
LEMMA UnreceivedFinite ==
    ASSUME RequestTypeOK
    PROVE  IsFiniteSet(Unreceived)
<1> DEFINE Of(r) == {<<r[1], r[2], i>> : i \in 1..Entries(r[1], r[2])}
<1> DEFINE All == {Of(r) : r \in Request}
<1>1. \A r \in Request : IsFiniteSet(Of(r))
    <2> SUFFICES ASSUME NEW r \in Request PROVE IsFiniteSet(Of(r))
        OBVIOUS
    <2> DEFINE n == Entries(r[1], r[2])
    <2>1. n \in Int
        BY DEF RequestTypeOK, Entries, Request
    <2>2. [i \in 1..n |-> <<r[1], r[2], i>>] \in Surjection(1..n, Of(r))
        BY DEF Surjection
    <2> HIDE DEF n, Of
    <2>3. IsFiniteSet(1..n)
        BY <2>1, FS_Interval
    <2> QED
        BY <2>2, <2>3, FS_Surjection
<1>2. [r \in Request |-> Of(r)] \in Surjection(Request, All)
    BY DEF Surjection
<1>3. IsFiniteSet(Request)
    BY DownloadAssumption, FS_Product DEF Request
<1>4. \A s \in All : IsFiniteSet(s)
    BY <1>1
<1>5. Unreceived = UNION All
    BY DEF Unreceived
<1> HIDE DEF All
<1>6. IsFiniteSet(All)
    BY <1>2, <1>3, FS_Surjection
<1> QED
    BY <1>4, <1>5, <1>6, FS_UNION

\* An entry that may time out is numbered within the count for its block.
LEMMA UnreceivedType ==
    ASSUME RequestTypeOK, NEW e \in Unreceived
    PROVE  e \in Peer \X Block \X (Nat \ {0}) /\ e[3] <= Entries(e[1], e[2])
<1>1. PICK r \in Request : e \in {<<r[1], r[2], i>> : i \in 1..Entries(r[1], r[2])}
    BY DEF Unreceived
<1>2. PICK i \in 1..Entries(r[1], r[2]) : e = <<r[1], r[2], i>>
    BY <1>1
<1>3. Entries(r[1], r[2]) \in Int
    BY DEF RequestTypeOK, Entries, Request
<1>4. i \in Nat \ {0} /\ i <= Entries(r[1], r[2])
    BY <1>2, <1>3
<1> QED
    BY <1>2, <1>4 DEF Request

-----------------------------------------------------------------------------
(* Types.  The count of entries for a peer and block stays natural because *)
(* an entry marked received is there to be erased, and a timed out one is  *)
(* numbered no higher than the count.                                      *)

EntriesOK ==
    /\ \A r \in got : open[r[1]][r[2]] > 0
    /\ \A e \in expired : e[3] <= open[e[1]][e[2]]
    /\ Choosing => got = {}

ThreadsOK ==
    /\ pc = "pick" => cur \in Peer
    /\ rpc # "idle" => rpeer \in Peer /\ rblock \in Block

DownloadTypes == /\ ChooserTypeOK /\ RequestTypeOK /\ ResponderTypeOK /\ HandlerTypeOK
                 /\ EntriesOK /\ ThreadsOK

\* The modulus of a uint16_t.
LEMMA WrapType == Wrap \in Nat \ {0}
BY DEF Wrap

\* The initial state has these types.
LEMMA Init_Types == Init => DownloadTypes
<1> SUFFICES ASSUME Init PROVE DownloadTypes
    OBVIOUS
<1> USE DEF Init
<1>1. ChooserTypeOK
    BY WrapType DEF ChooserTypeOK
<1>2. ResponderTypeOK
    BY DEF ResponderTypeOK
<1>3. RequestTypeOK
    BY DownloadAssumption DEF RequestTypeOK
<1>4. HandlerTypeOK
    <2>1. isSeed \in BOOLEAN /\ running \in BOOLEAN
        OBVIOUS
    <2>2. timeouts \in 0..MaxTimeouts /\ corrupt \in 0..MaxCorrupt /\ lost \in 0..MaxLost
        BY DownloadAssumption
    <2> QED
        BY <2>1, <2>2 DEF HandlerTypeOK
<1>5. EntriesOK /\ ThreadsOK
    BY DEF EntriesOK, ThreadsOK
<1> QED
    BY <1>1, <1>2, <1>3, <1>4, <1>5 DEF DownloadTypes

\* The chooser's own variables.
LEMMA Chooser_ChooserTypes ==
    ASSUME ChooserTypeOK, RequestTypeOK, ThreadsOK, ChooserNext
    PROVE  ChooserTypeOK'
<1> USE DEF ChooserTypeOK, ChooserAt
<1>1. CASE Check
    BY <1>1 DEF Check
<1>2. CASE VerifyFile
    BY <1>2 DEF VerifyFile
<1>3. CASE Scan
    BY <1>3 DEF Scan
<1>4. CASE ResetDamaged
    BY <1>4 DEF ResetDamaged
<1>5. CASE EndReset
    BY <1>5 DEF EndReset
<1>6. ASSUME NEW E \in SUBSET Unreceived, BeginRound(E)
      PROVE  ChooserTypeOK'
    <2>1. E \subseteq Peer \X Block \X (Nat \ {0})
        BY UnreceivedType
    <2> QED
        BY <1>6, <2>1 DEF BeginRound
<1>7. CASE Expire
    BY <1>7 DEF Expire
<1>8. CASE CopyDownloading
    BY <1>8 DEF CopyDownloading, EmptyBlocks
<1>9. CASE CopyEmpty
    BY <1>9 DEF CopyEmpty, EmptyBlocks
<1>10. ASSUME NEW q \in Peer, ServePeer(q)
       PROVE  ChooserTypeOK'
    <2>1. window[q] \in Int /\ Outstanding(q) \in Nat
        BY OutstandingType, DownloadAssumption DEF RequestTypeOK
    <2>2. Slots(q) \in 0..(Wrap - 1)
        BY <2>1, WrapType DEF Slots
    <2> QED
        BY <1>10, <2>2 DEF ServePeer
<1>11. ASSUME NEW b \in Block, Pick(b)
       PROVE  ChooserTypeOK'
    BY <1>11, WrapType DEF Pick, ThreadsOK, Copy, CopyName
<1>12. CASE EndPeer
    BY <1>12 DEF EndPeer
<1>13. CASE Send
    BY <1>13, WrapType DEF Send
<1>14. CASE BecomeSeed
    BY <1>14 DEF BecomeSeed
<1>15. CASE ChangeAllStatus
    BY <1>15 DEF ChangeAllStatus
<1>16. CASE TestCompleted("chooser")
    BY <1>16 DEF TestCompleted, chooserVars
<1> QED
    BY <1>1, <1>2, <1>3, <1>4, <1>5, <1>6, <1>7, <1>8, <1>9, <1>10, <1>11, <1>12, <1>13,
       <1>14, <1>15, <1>16 DEF ChooserNext

\* The request table: entries erased were there, entries made are counted.
LEMMA Chooser_Requests ==
    ASSUME ChooserTypeOK, RequestTypeOK, EntriesOK, ThreadsOK, ChooserNext
    PROVE  RequestTypeOK' /\ EntriesOK'
<1> USE DEF ChooserAt, Choosing
<1>1. ASSUME NEW E \in SUBSET Unreceived, BeginRound(E)
      PROVE  RequestTypeOK' /\ EntriesOK'
    <2>1. \A q \in Peer, b \in Block : open'[q][b] = Entries(q, b)
        BY <1>1 DEF BeginRound
    <2>2. \A q \in Peer, b \in Block : Entries(q, b) \in Nat
        BY DEF RequestTypeOK, EntriesOK, Entries
    <2>3. open' \in [Peer -> [Block -> Nat]]
        BY <1>1, <2>2 DEF BeginRound
    <2>4. \A e \in expired' : e[3] <= open'[e[1]][e[2]]
        BY <1>1, <2>1, UnreceivedType DEF BeginRound
    <2> QED
        BY <1>1, <2>3, <2>4 DEF BeginRound, RequestTypeOK, EntriesOK
<1>2. CASE Expire
    <2>1. PICK e \in expired :
              /\ \A f \in expired : <<f[1], f[2]>> = <<e[1], e[2]>> => f[3] <= e[3]
              /\ open' = [open EXCEPT ![e[1]][e[2]] = @ - 1]
              /\ expired' = expired \ {e}
        BY <1>2 DEF Expire
    <2>2. e[1] \in Peer /\ e[2] \in Block /\ e[3] \in Nat \ {0} /\ e[3] <= open[e[1]][e[2]]
        BY DEF ChooserTypeOK, EntriesOK
    <2> DEFINE n == open[e[1]][e[2]]
    <2>3. open' \in [Peer -> [Block -> Nat]]
        <3>1. n \in Nat /\ n - 1 \in Nat
            BY <2>2 DEF RequestTypeOK
        <3>2. open' = [open EXCEPT ![e[1]] = [open[e[1]] EXCEPT ![e[2]] = n - 1]]
            BY <2>1
        <3>3. [open[e[1]] EXCEPT ![e[2]] = n - 1] \in [Block -> Nat]
            BY <2>2, <3>1 DEF RequestTypeOK
        <3> QED
            BY <3>2, <3>3 DEF RequestTypeOK
    <2>4. ASSUME NEW f \in expired'
          PROVE  f[3] <= open'[f[1]][f[2]]
        <3>1. f \in expired /\ f # e /\ f \in Peer \X Block \X (Nat \ {0})
            BY <2>1 DEF ChooserTypeOK
        <3>2. f[3] <= open[f[1]][f[2]]
            BY <3>1 DEF EntriesOK
        <3>3. CASE f[1] = e[1] /\ f[2] = e[2]
            <4>1. f[3] <= e[3] /\ f[3] # e[3]
                BY <2>1, <2>2, <3>1, <3>3 DEF ChooserTypeOK
            <4>2. open'[f[1]][f[2]] = n - 1
                BY <2>1, <2>2, <3>3 DEF RequestTypeOK
            <4>3. n \in Nat /\ f[3] \in Nat
                BY <2>2, <3>1 DEF RequestTypeOK
            <4> HIDE DEF n
            <4>4. e[3] <= n
                BY <2>2 DEF n
            <4> QED
                BY <2>2, <4>1, <4>2, <4>3, <4>4
        <3>4. CASE ~(f[1] = e[1] /\ f[2] = e[2])
            BY <2>1, <2>2, <3>1, <3>2, <3>4 DEF RequestTypeOK
        <3> QED
            BY <3>3, <3>4
    <2>5. got = {} /\ got' = got /\ window' = window
        BY <1>2 DEF Expire, EntriesOK
    <2> QED
        BY <2>3, <2>4, <2>5 DEF RequestTypeOK, EntriesOK
<1>3. ASSUME NEW b \in Block, Pick(b)
      PROVE  RequestTypeOK' /\ EntriesOK'
    <2>1. /\ cur \in Peer /\ got = {}
          /\ open' = [open EXCEPT ![cur][b] = @ + 1]
          /\ UNCHANGED <<expired, got, window>>
        BY <1>3 DEF Pick, ThreadsOK, EntriesOK
    <2>2. open' \in [Peer -> [Block -> Nat]]
        BY <2>1 DEF RequestTypeOK
    <2>3. \A e \in expired : e[3] <= open'[e[1]][e[2]]
        BY <2>1 DEF ChooserTypeOK, RequestTypeOK, EntriesOK
    <2> QED
        BY <2>1, <2>2, <2>3 DEF RequestTypeOK, EntriesOK
<1>4. CASE /\ UNCHANGED <<requestVars, expired>>
           /\ Choosing' => Choosing
    BY <1>4 DEF requestVars, RequestTypeOK, EntriesOK
<1>5. Check \/ VerifyFile \/ Scan \/ ResetDamaged \/ EndReset
        => UNCHANGED <<requestVars, expired>> /\ ~Choosing'
    BY DEF Check, VerifyFile, Scan, ResetDamaged, EndReset
<1>6. CopyDownloading \/ CopyEmpty \/ EndPeer
        => UNCHANGED <<requestVars, expired>> /\ Choosing
    BY DEF CopyDownloading, CopyEmpty, EndPeer
<1>7. (\E q \in Peer : ServePeer(q)) => UNCHANGED <<requestVars, expired>> /\ Choosing
    BY DEF ServePeer
<1>8. Send \/ BecomeSeed \/ ChangeAllStatus => UNCHANGED <<requestVars, expired>> /\ ~Choosing'
    BY DEF Send, BecomeSeed, ChangeAllStatus
<1>9. TestCompleted("chooser") => UNCHANGED <<requestVars, expired>> /\ (Choosing' => Choosing)
    BY DEF TestCompleted, chooserVars
<1> QED
    BY <1>1, <1>2, <1>3, <1>4, <1>5, <1>6, <1>7, <1>8, <1>9 DEF ChooserNext

\* What the chooser shares with the responder, the network and the user.
LEMMA Chooser_Rest ==
    ASSUME ChooserTypeOK, RequestTypeOK, ResponderTypeOK, HandlerTypeOK, ThreadsOK, ChooserNext
    PROVE  ResponderTypeOK' /\ HandlerTypeOK' /\ ThreadsOK'
<1> USE DEF ChooserAt
<1>1. UNCHANGED responderVars
    BY DEF ChooserNext, Check, VerifyFile, Scan, ResetDamaged, EndReset, BeginRound, Expire,
           CopyDownloading, CopyEmpty, ServePeer, Pick, EndPeer, Send, BecomeSeed,
           ChangeAllStatus, TestCompleted
<1>2. ResponderTypeOK'
    BY <1>1 DEF ResponderTypeOK, responderVars
<1>3. ThreadsOK'
    <2>1. ASSUME NEW q \in Peer, ServePeer(q) PROVE pc' = "pick" => cur' \in Peer
        BY <2>1 DEF ServePeer
    <2>2. ASSUME ~(\E q \in Peer : ServePeer(q))
          PROVE  pc' = "pick" => pc = "pick" /\ cur' = cur
        BY <2>2 DEF ChooserNext, Check, VerifyFile, Scan, ResetDamaged, EndReset, BeginRound,
           Expire, CopyDownloading, CopyEmpty, Pick, EndPeer, Send, BecomeSeed,
           ChangeAllStatus, TestCompleted, chooserVars
    <2> QED
        BY <1>1, <2>1, <2>2 DEF ThreadsOK, responderVars
<1>4. HandlerTypeOK'
    <2>1. ASSUME NEW E \in SUBSET Unreceived, BeginRound(E) PROVE HandlerTypeOK'
        <3>1. Cardinality(E \cap Answerable) \in Nat
            BY UnreceivedFinite, FS_Subset, FS_CardinalityType
        <3>2. timeouts' \in 0..MaxTimeouts
            BY <2>1, <3>1, DownloadAssumption DEF BeginRound, HandlerTypeOK
        <3> QED
            BY <2>1, <3>2 DEF BeginRound, HandlerTypeOK, handlerVars
    <2>2. CASE Send
        <3> DEFINE more(q, b) == Cardinality({c \in CopyName : <<q, b, c>> \in picked})
        <3>1. ASSUME NEW q, NEW b
              PROVE  more(q, b) \in Nat
            <4>1. IsFiniteSet({}) /\ CopyName = ({} \cup {"Downloading"}) \cup {"Empty"}
                BY FS_EmptySet DEF CopyName
            <4>2. IsFiniteSet(CopyName)
                BY <4>1, FS_AddElement
            <4> QED
                BY <4>2, FS_Subset, FS_CardinalityType
        <3>2. asked' = [q \in Peer |-> [b \in Block |-> asked[q][b] + more(q, b)]]
            BY <2>2 DEF Send
        <3> HIDE DEF more
        <3>3. \A q \in Peer, b \in Block : asked[q][b] + more(q, b) \in Nat
            BY <3>1 DEF HandlerTypeOK
        <3>4. asked' \in [Peer -> [Block -> Nat]]
            BY <3>2, <3>3
        <3> QED
            BY <2>2, <3>4 DEF Send, HandlerTypeOK, handlerVars, faultVars
    <2>3. CASE BecomeSeed
        BY <2>3 DEF BecomeSeed, HandlerTypeOK, faultVars
    <2>4. ASSUME ~(\E E \in SUBSET Unreceived : BeginRound(E)), ~Send, ~BecomeSeed
          PROVE  UNCHANGED <<disk, announced, handlerVars, asked, faultVars>>
        BY <2>4 DEF ChooserNext, Check, VerifyFile, Scan, ResetDamaged, EndReset,
           Expire, CopyDownloading, CopyEmpty, ServePeer, Pick, EndPeer,
           ChangeAllStatus, TestCompleted
    <2>5. UNCHANGED <<disk, announced, handlerVars, asked, faultVars>> => HandlerTypeOK'
        BY DEF HandlerTypeOK, handlerVars, faultVars
    <2> QED
        BY <2>1, <2>2, <2>3, <2>4, <2>5
<1> QED
    BY <1>2, <1>3, <1>4

\* One request fewer is waiting for its answer.
LEMMA AskedLess ==
    ASSUME HandlerTypeOK, NEW q \in Peer, NEW b \in Block, asked[q][b] > 0
    PROVE  [asked EXCEPT ![q][b] = @ - 1] \in [Peer -> [Block -> Nat]]
<1>1. asked[q][b] \in Nat /\ asked[q][b] - 1 \in Nat
    BY DEF HandlerTypeOK
<1>2. [asked[q] EXCEPT ![b] = asked[q][b] - 1] \in [Block -> Nat]
    BY <1>1 DEF HandlerTypeOK
<1> QED
    BY <1>2 DEF HandlerTypeOK

AnyAnswer == \E q \in Peer, b \in Block, content \in {"good", "bad"} : Answer(q, b, content)
AnyLose == \E q \in Peer, b \in Block : Lose(q, b)
OtherNext == \/ AnyAnswer \/ CountBlock \/ SettlePiece \/ Credit
             \/ TestCompleted("responder") \/ Stop \/ AnyLose

\* Every step but the chooser's keeps the types.
LEMMA Other_Types ==
    ASSUME DownloadTypes, OtherNext
    PROVE  DownloadTypes'
<1> USE DEF DownloadTypes
<1>1. ChooserTypeOK'
    BY DEF OtherNext, AnyAnswer, AnyLose, Answer, CountBlock, SettlePiece, Credit,
           TestCompleted, Stop, Lose, chooserVars, ChooserTypeOK
<1>2. RequestTypeOK' /\ EntriesOK'
    <2>1. CASE Credit
        <3>1. rpeer \in Peer /\ rblock \in Block
            BY <2>1 DEF Credit, ThreadsOK
        <3>2. window' \in [Peer -> MinWindow..MaxWindow]
            BY <2>1, <3>1, DownloadAssumption DEF Credit, RequestTypeOK
        <3>3. /\ got' \subseteq Request /\ open' = open /\ expired' = expired
              /\ \A r \in got' : open[r[1]][r[2]] > 0
            BY <2>1, <3>1 DEF Credit, RequestTypeOK, EntriesOK, Request, chooserVars
        <3>4. ~Choosing /\ pc' = pc
            BY <2>1 DEF Credit, chooserVars
        <3> QED
            BY <3>2, <3>3, <3>4 DEF RequestTypeOK, EntriesOK, Choosing
    <2>2. CASE ~Credit
        <3>1. UNCHANGED <<requestVars, chooserVars>>
            BY <2>2 DEF OtherNext, AnyAnswer, AnyLose, Answer, CountBlock, SettlePiece,
               TestCompleted, Stop, Lose
        <3> QED
            BY <3>1 DEF requestVars, chooserVars, RequestTypeOK, EntriesOK, Choosing
    <2> QED
        BY <2>1, <2>2
<1>3. ResponderTypeOK' /\ ThreadsOK'
    <2>1. pc' = pc /\ cur' = cur
        BY DEF OtherNext, AnyAnswer, AnyLose, Answer, CountBlock, SettlePiece, Credit,
               TestCompleted, Stop, Lose, chooserVars
    <2>2. CASE AnyAnswer
        BY <2>1, <2>2 DEF AnyAnswer, Answer, ResponderTypeOK, ThreadsOK
    <2>3. CASE CountBlock
        BY <2>1, <2>3 DEF CountBlock, ResponderTypeOK, ThreadsOK
    <2>4. CASE SettlePiece
        BY <2>1, <2>4 DEF SettlePiece, ResponderTypeOK, ThreadsOK
    <2>5. CASE Credit
        BY <2>1, <2>5 DEF Credit, ResponderTypeOK, ThreadsOK
    <2>6. CASE TestCompleted("responder") \/ Stop \/ AnyLose
        <3>1. UNCHANGED responderVars
            BY <2>6 DEF TestCompleted, Stop, AnyLose, Lose
        <3> QED
            BY <2>1, <3>1 DEF ResponderTypeOK, ThreadsOK, responderVars
    <2> QED
        BY <2>2, <2>3, <2>4, <2>5, <2>6 DEF OtherNext
<1>4. HandlerTypeOK'
    <2>1. ASSUME NEW q \in Peer, NEW b \in Block, NEW content \in {"good", "bad"},
                 Answer(q, b, content)
          PROVE  HandlerTypeOK'
        <3>1. corrupt' \in 0..MaxCorrupt
            BY <2>1, DownloadAssumption DEF Answer, HandlerTypeOK
        <3>2. asked' \in [Peer -> [Block -> Nat]]
            BY <2>1, AskedLess DEF Answer, HandlerTypeOK
        <3>3. disk' \in [Block -> {"none", "good", "bad"}]
            BY <2>1 DEF Answer, HandlerTypeOK
        <3>4. UNCHANGED <<announced, isSeed, running, timeouts, lost>> /\ spilt' \in BOOLEAN
            BY <2>1 DEF Answer, handlerVars, HandlerTypeOK
        <3> QED
            BY <3>1, <3>2, <3>3, <3>4 DEF HandlerTypeOK
    <2>2. ASSUME NEW q \in Peer, NEW b \in Block, Lose(q, b)
          PROVE  HandlerTypeOK'
        <3>1. lost' \in 0..MaxLost
            BY <2>2, DownloadAssumption DEF Lose, HandlerTypeOK
        <3>2. asked' \in [Peer -> [Block -> Nat]]
            BY <2>2, AskedLess DEF Lose, HandlerTypeOK
        <3>3. UNCHANGED <<disk, announced, isSeed, running, timeouts, corrupt, spilt>>
            BY <2>2 DEF Lose, handlerVars
        <3> QED
            BY <3>1, <3>2, <3>3 DEF HandlerTypeOK
    <2>3. CASE Credit
        <3>1. PieceOf[rblock] \in Piece
            BY <2>3, LayoutAssumption DEF Credit, ThreadsOK
        <3> QED
            BY <2>3, <3>1 DEF Credit, HandlerTypeOK, handlerVars, faultVars
    <2>4. CASE Stop
        BY <2>4 DEF Stop, HandlerTypeOK, faultVars
    <2>5. CASE CountBlock \/ SettlePiece \/ TestCompleted("responder")
        <3>1. UNCHANGED <<disk, announced, handlerVars, asked, faultVars>>
            BY <2>5 DEF CountBlock, SettlePiece, TestCompleted
        <3> QED
            BY <3>1 DEF HandlerTypeOK, handlerVars, faultVars
    <2> QED
        BY <2>1, <2>2, <2>3, <2>4, <2>5 DEF OtherNext, AnyAnswer, AnyLose
<1> QED
    BY <1>1, <1>2, <1>3, <1>4

\* The types are an invariant of the download.
LEMMA DownloadTypes_Step == DownloadTypes /\ [Next]_vars => DownloadTypes'
<1> SUFFICES ASSUME DownloadTypes, [Next]_vars PROVE DownloadTypes'
    OBVIOUS
<1>1. CASE ChooserNext
    BY <1>1, Chooser_ChooserTypes, Chooser_Requests, Chooser_Rest DEF DownloadTypes
<1>2. CASE OtherNext
    BY <1>2, Other_Types
<1>3. CASE UNCHANGED vars
    BY <1>3 DEF vars, DownloadTypes, ChooserTypeOK, RequestTypeOK, ResponderTypeOK,
        HandlerTypeOK, EntriesOK, ThreadsOK, Choosing, chooserVars, requestVars,
        responderVars, handlerVars, faultVars
<1> QED
    BY <1>1, <1>2, <1>3 DEF Next, ResponderNext, OtherNext, AnyAnswer, AnyLose

-----------------------------------------------------------------------------
(* The table.  Every step of the download is a call of DownloadProgress or *)
(* leaves the table alone, so what was proved of the table holds here.     *)

LEMMA TableStep == DownloadTypes /\ [Next]_vars => [ProgressNext]_progressVars
<1> SUFFICES ASSUME DownloadTypes, [Next]_vars
             PROVE  [ProgressNext]_progressVars
    OBVIOUS
<1> USE DEF ProgressNext
<1>1. "chooser" \in Thread /\ "responder" \in Thread
    BY DownloadAssumption
<1>3. CASE ResetDamaged
    BY <1>1, <1>3 DEF ResetDamaged, DownloadTypes, ChooserTypeOK
<1>4. CASE ChangeAllStatus
    BY <1>1, <1>4 DEF ChangeAllStatus, DownloadTypes, ChooserTypeOK
<1>5. CASE Expire
    <2>1. PICK e \in expired : UpdateBlockStatus("chooser", e[2], "Empty")
        BY <1>5 DEF Expire
    <2>2. e[2] \in Block
        BY DEF DownloadTypes, ChooserTypeOK
    <2> QED
        BY <1>1, <2>1, <2>2
<1>6. ASSUME NEW b \in Block, Pick(b)
      PROVE  ProgressNext
    BY <1>1, <1>6 DEF Pick
<1>7. CASE CountBlock
    BY <1>1, <1>7 DEF CountBlock, DownloadTypes, ThreadsOK
<1>8. CASE SettlePiece
    <2>1. PieceOf[rblock] \in Piece
        BY <1>8, LayoutAssumption DEF SettlePiece, DownloadTypes, ThreadsOK
    <2> QED
        BY <1>1, <1>8, <2>1 DEF SettlePiece, Outcome
<1>9. CASE TestCompleted("chooser") \/ TestCompleted("responder")
    BY <1>1, <1>9 DEF TestCompleted
<1>10. CASE Check \/ VerifyFile \/ Scan \/ EndReset \/ CopyDownloading \/ CopyEmpty
    BY <1>10 DEF Check, VerifyFile, Scan, EndReset, CopyDownloading, CopyEmpty
<1>11. CASE EndPeer \/ Send \/ BecomeSeed \/ Credit \/ Stop
    BY <1>11 DEF EndPeer, Send, BecomeSeed, Credit, Stop
<1>12. CASE (\E E \in SUBSET Unreceived : BeginRound(E)) \/ (\E q \in Peer : ServePeer(q))
    BY <1>12 DEF BeginRound, ServePeer
<1>13. CASE AnyAnswer \/ AnyLose
    BY <1>13 DEF AnyAnswer, AnyLose, Answer, Lose
<1>14. CASE UNCHANGED vars
    BY <1>14 DEF vars
<1> QED
    BY <1>3, <1>4, <1>5, <1>6, <1>7, <1>8, <1>9, <1>10, <1>11, <1>12, <1>13, <1>14
       DEF Next, ChooserNext, ResponderNext, AnyAnswer, AnyLose

\* The download uses the table as DownloadProgress specifies.
THEOREM TableImplemented == Spec => ProgressSpec
<1>1. Init => ProgressInit
    BY DEF Init
<1> QED
    BY <1>1, Init_Types, DownloadTypes_Step, TableStep, PTL DEF Spec, ProgressSpec

\* Type correctness of the whole download.
THEOREM TypeCorrect == Spec => []TypeOK
<1>1. DownloadTypes /\ ProgressTypeOK => TypeOK
    BY DEF DownloadTypes, TypeOK
<1> QED
    BY <1>1, Init_Types, DownloadTypes_Step, TableImplemented, ProgressTypeCorrect, PTL
       DEF Spec

\* Two threads at work on it, the total still covers every byte held.
THEOREM DownloadNeverUndercounts == Spec => []NeverUndercounts
BY TableImplemented, ProgressNeverUndercounts, PTL

-----------------------------------------------------------------------------
(* No piece is left Downloaded.  The property is inductive: only the       *)
(* responder makes a piece Downloaded, on its way to settle it, and every  *)
(* other change of the piece takes it out of Downloaded.                   *)

DownloadInv == DownloadTypes /\ ProgressTypeOK

\* The inductive step of NoPieceStuckDownloaded.
LEMMA NoPieceStuck_Step ==
    DownloadInv /\ NoPieceStuckDownloaded /\ [Next]_vars => NoPieceStuckDownloaded'
<1> SUFFICES ASSUME DownloadInv, NoPieceStuckDownloaded, [Next]_vars,
                    NEW p \in Piece, pieceStatus'[p] = "Downloaded"
             PROVE  rpc' = "settle" /\ PieceOf[rblock'] = p
    BY DEF NoPieceStuckDownloaded
<1> USE LayoutAssumption
<1>1. pieceStatus \in [Piece -> Status]
    BY DEF DownloadInv, ProgressTypeOK
<1>2. CASE UNCHANGED <<pieceStatus, rpc, rblock>>
    BY <1>2 DEF NoPieceStuckDownloaded
<1>3. ASSUME NEW t, NEW r, NEW s, s # "Downloaded", UpdatePieceStatus(t, r, s),
             UNCHANGED <<rpc, rblock>>
      PROVE  rpc' = "settle" /\ PieceOf[rblock'] = p
    BY <1>1, <1>3 DEF UpdatePieceStatus, NoPieceStuckDownloaded
<1>4. ASSUME NEW t, NEW b, NEW s, UpdateBlockStatus(t, b, s), UNCHANGED <<rpc, rblock>>
      PROVE  rpc' = "settle" /\ PieceOf[rblock'] = p
    BY <1>1, <1>4 DEF UpdateBlockStatus, NoPieceStuckDownloaded
<1>5. CASE ResetDamaged \/ ChangeAllStatus
    BY <1>3, <1>5 DEF ResetDamaged, ChangeAllStatus, responderVars
<1>6. CASE Expire \/ \E b \in Block : Pick(b)
    BY <1>4, <1>6 DEF Expire, Pick, responderVars
<1>7. CASE CountBlock
    <2>1. rpc = "count" /\ rblock' = rblock
        BY <1>7 DEF CountBlock
    <2>2. pieceStatus[p] # "Downloaded"
        BY <2>1 DEF NoPieceStuckDownloaded
    <2>3. PieceOf[rblock] = p
        BY <1>1, <1>7, <2>2 DEF CountBlock, DownloadedBlock
    <2> QED
        BY <1>7, <2>1, <2>3 DEF CountBlock
<1>8. CASE SettlePiece
    <2>1. rpc = "settle" /\ PieceOf[rblock] \in Piece
        BY <1>8 DEF SettlePiece, DownloadInv, DownloadTypes, ThreadsOK
    <2>2. pieceStatus'[PieceOf[rblock]] # "Downloaded"
        BY <1>1, <1>8, <2>1 DEF SettlePiece, UpdatePieceStatus, Outcome
    <2>3. p # PieceOf[rblock] => pieceStatus[p] = "Downloaded"
        BY <1>1, <1>8 DEF SettlePiece, UpdatePieceStatus
    <2> QED
        BY <2>2, <2>3 DEF NoPieceStuckDownloaded
<1>9. CASE AnyAnswer \/ Credit
    <2>1. rpc # "settle" /\ pieceStatus' = pieceStatus
        BY <1>9 DEF AnyAnswer, Answer, Credit, progressVars
    <2> QED
        BY <2>1 DEF NoPieceStuckDownloaded
<1>10. CASE Check \/ VerifyFile \/ Scan \/ EndReset \/ CopyDownloading \/ CopyEmpty
            \/ EndPeer \/ Send \/ BecomeSeed \/ Stop
    <2>1. UNCHANGED <<pieceStatus, rpc, rblock>>
        BY <1>10 DEF Check, VerifyFile, Scan, EndReset, CopyDownloading, CopyEmpty,
           EndPeer, Send, BecomeSeed, Stop, progressVars, responderVars
    <2> QED
        BY <1>2, <2>1
<1>11. CASE \/ \E E \in SUBSET Unreceived : BeginRound(E)
            \/ \E q \in Peer : ServePeer(q)
            \/ TestCompleted("chooser") \/ TestCompleted("responder")
            \/ AnyLose \/ UNCHANGED vars
    <2>1. UNCHANGED <<pieceStatus, rpc, rblock>>
        BY <1>11 DEF BeginRound, ServePeer, TestCompleted, CheckCompleted, AnyLose, Lose,
           vars, progressVars, responderVars
    <2> QED
        BY <1>2, <2>1
<1> QED
    BY <1>5, <1>6, <1>7, <1>8, <1>9, <1>10, <1>11
       DEF Next, ChooserNext, ResponderNext, AnyAnswer, AnyLose

\* No interleaving of the two threads leaves a piece Downloaded for ever.
THEOREM NoPieceStuck == Spec => []NoPieceStuckDownloaded
<1>1. Init => NoPieceStuckDownloaded
    BY DEF Init, ProgressInit, NoPieceStuckDownloaded
<1>2. DownloadTypes /\ ProgressTypeOK => DownloadInv
    BY DEF DownloadInv
<1>3. Spec => []ProgressTypeOK
    BY TableImplemented, ProgressTypeCorrect, PTL
<1> QED
    BY <1>1, <1>2, <1>3, Init_Types, DownloadTypes_Step, NoPieceStuck_Step, PTL DEF Spec

-----------------------------------------------------------------------------
(* Integrity.  A block once written stays written.  What is Verified,      *)
(* announced or seeded was written when it became so: the responder's      *)
(* verdict, and the chooser's look at the whole file, are carried by       *)
(* verdict and pc from the look to the change of status.                   *)

Written(p) == \A b \in BlocksOf(p) : disk[b] # "none"
AllWritten == \A p \in Piece : Written(p)

WrittenInv ==
    /\ \A p \in announced : Written(p)
    /\ running => \A p \in Piece : pieceStatus[p] = "Verified" => Written(p)
    /\ running /\ (pc \in {"finish", "changeAll", "seed"} \/ isSeed) => AllWritten
    /\ verdict => rpc \in {"settle", "credit"} /\ Written(PieceOf[rblock])
    /\ corrupt = 0 /\ ~spilt => \A b \in Block : disk[b] # "bad"

\* A block once written stays written, and a stopped download stays stopped.
LEMMA WrittenStays ==
    ASSUME DownloadInv, [Next]_vars
    PROVE  /\ \A p \in Piece : Written(p) => Written(p)'
           /\ AllWritten => AllWritten'
           /\ running' => running
<1>1. CASE AnyAnswer
    <2>1. PICK q \in Peer, b \in Block, content \in {"good", "bad"} : Answer(q, b, content)
        BY <1>1 DEF AnyAnswer
    <2>2. /\ \A c \in Block : disk'[c] \in {content, "bad", disk[c]}
          /\ running' = running
        BY <2>1 DEF Answer, handlerVars
    <2>3. \A c \in Block : disk[c] # "none" => disk'[c] # "none"
        BY <2>2 DEF DownloadInv, DownloadTypes, HandlerTypeOK
    <2> QED
        BY <2>2, <2>3 DEF Written, AllWritten, BlocksOf
<1>2. CASE ~AnyAnswer
    <2>1. disk' = disk /\ (running' => running)
        <3>1. CASE Check \/ VerifyFile \/ Scan \/ ResetDamaged \/ EndReset \/ Expire
                   \/ CopyDownloading \/ CopyEmpty \/ EndPeer \/ Send \/ BecomeSeed
                   \/ ChangeAllStatus
            BY <3>1 DEF Check, VerifyFile, Scan, ResetDamaged, EndReset, Expire,
               CopyDownloading, CopyEmpty, EndPeer, Send, BecomeSeed, ChangeAllStatus,
               handlerVars
        <3>5. ASSUME NEW E, BeginRound(E) PROVE disk' = disk /\ running' = running
            BY <3>5 DEF BeginRound, handlerVars
        <3>6. ASSUME NEW q, ServePeer(q) PROVE disk' = disk /\ running' = running
            BY <3>6 DEF ServePeer, handlerVars
        <3>7. ASSUME NEW b, Pick(b) PROVE disk' = disk /\ running' = running
            BY <3>7 DEF Pick, handlerVars
        <3>2. CASE (\E E \in SUBSET Unreceived : BeginRound(E)) \/ (\E q \in Peer : ServePeer(q))
                   \/ (\E b \in Block : Pick(b))
            BY <3>2, <3>5, <3>6, <3>7
        <3>3. CASE CountBlock \/ SettlePiece \/ Credit \/ Stop \/ AnyLose
                   \/ TestCompleted("chooser") \/ TestCompleted("responder")
            BY <3>3 DEF CountBlock, SettlePiece, Credit, Stop, AnyLose, Lose, TestCompleted,
               handlerVars
        <3>4. CASE UNCHANGED vars
            BY <3>4 DEF vars, handlerVars
        <3> QED
            BY <1>2, <3>1, <3>2, <3>3, <3>4
               DEF Next, ChooserNext, ResponderNext, AnyAnswer, AnyLose
    <2> QED
        BY <2>1 DEF Written, AllWritten
<1> QED
    BY <1>1, <1>2

\* What is announced was verified by the responder.
LEMMA Announced_Step ==
    ASSUME DownloadInv, WrittenInv, [Next]_vars
    PROVE  \A p \in announced' : Written(p)'
<1>1. CASE Credit
    <2>1. announced' \subseteq announced \cup {PieceOf[rblock]}
        BY <1>1 DEF Credit
    <2>2. announced' = announced \/ verdict
        BY <1>1 DEF Credit
    <2>3. announced \subseteq Piece /\ PieceOf[rblock] \in Piece
        BY <1>1, LayoutAssumption
           DEF Credit, DownloadInv, DownloadTypes, HandlerTypeOK, ThreadsOK
    <2> QED
        BY <2>1, <2>2, <2>3, WrittenStays DEF WrittenInv
<1>2. CASE announced' = announced
    BY <1>2, WrittenStays DEF WrittenInv, DownloadInv, DownloadTypes, HandlerTypeOK
<1>3. ~Credit => announced' = announced
    BY DEF Next, ChooserNext, ResponderNext, Check, VerifyFile, Scan, ResetDamaged, EndReset,
       BeginRound, Expire, CopyDownloading, CopyEmpty, ServePeer, Pick, EndPeer, Send,
       BecomeSeed, ChangeAllStatus, TestCompleted, Answer, CountBlock, SettlePiece, Stop,
       Lose, vars
<1> QED
    BY <1>1, <1>2, <1>3

\* The verdict is reached with the piece on the disk, and dropped when credited.
LEMMA Verdict_Step ==
    ASSUME DownloadInv, WrittenInv, [Next]_vars, verdict'
    PROVE  rpc' \in {"settle", "credit"} /\ Written(PieceOf[rblock])'
<1>1. CASE CountBlock
    <2>1. rblock \in Block /\ rblock' = rblock /\ PieceOf[rblock] \in Piece
        BY <1>1, LayoutAssumption DEF CountBlock, DownloadInv, DownloadTypes, ThreadsOK
    <2>2. PieceGood(PieceOf[rblock]) /\ rpc' = "settle"
        BY <1>1 DEF CountBlock
    <2>3. Written(PieceOf[rblock])
        BY <2>2 DEF PieceGood, Written
    <2> QED
        BY <2>1, <2>2, <2>3, WrittenStays DEF Written
<1>2. CASE SettlePiece
    <2>1. verdict /\ rpc' = "credit" /\ rblock' = rblock /\ PieceOf[rblock] \in Piece
        BY <1>2, LayoutAssumption DEF SettlePiece, DownloadInv, DownloadTypes, ThreadsOK
    <2> QED
        BY <2>1, WrittenStays DEF WrittenInv, Written
<1>3. CASE AnyAnswer
    BY <1>3 DEF AnyAnswer, Answer, WrittenInv
<1>4. CASE Credit
    BY <1>4 DEF Credit
<1>5. CASE UNCHANGED responderVars
    <2>1. verdict /\ rpc' = rpc /\ rblock' = rblock /\ rpc # "idle"
        BY <1>5 DEF responderVars, WrittenInv
    <2>2. PieceOf[rblock] \in Piece
        BY <2>1, LayoutAssumption DEF DownloadInv, DownloadTypes, ThreadsOK
    <2> QED
        BY <2>1, <2>2, WrittenStays DEF WrittenInv, Written
<1>6. ~(CountBlock \/ SettlePiece \/ AnyAnswer \/ Credit) => UNCHANGED responderVars
    BY DEF Next, ChooserNext, ResponderNext, Check, VerifyFile, Scan, ResetDamaged, EndReset,
       BeginRound, Expire, CopyDownloading, CopyEmpty, ServePeer, Pick, EndPeer, Send,
       BecomeSeed, ChangeAllStatus, TestCompleted, AnyAnswer, Stop, Lose, vars
<1> QED
    BY <1>1, <1>2, <1>3, <1>4, <1>5, <1>6

\* Without a corrupted answer, and one that damages another block, no block
\* goes bad.
LEMMA NoBad_Step ==
    ASSUME DownloadInv, WrittenInv, [Next]_vars, corrupt' = 0, ~spilt'
    PROVE  \A b \in Block : disk'[b] # "bad"
<1>1. CASE AnyAnswer
    <2>1. PICK q \in Peer, b \in Block, content \in {"good", "bad"} : Answer(q, b, content)
        BY <1>1 DEF AnyAnswer
    <2>2. corrupt \in Nat
        BY DownloadAssumption DEF DownloadInv, DownloadTypes, HandlerTypeOK
    <2>3. content = "good" /\ corrupt = 0
        BY <2>1, <2>2 DEF Answer
    <2>4. spilt' = (spilt \/ SpiltOn(q, b) # {})
        BY <2>1 DEF Answer
    <2>5. ~spilt /\ SpiltOn(q, b) = {}
        BY <2>4, Zenon
    <2> QED
        BY <2>1, <2>3, <2>5 DEF Answer, WrittenInv, DownloadInv, DownloadTypes, HandlerTypeOK
<1>2. ~AnyAnswer => UNCHANGED <<disk, corrupt, spilt>>
    BY DEF Next, ChooserNext, ResponderNext, Check, VerifyFile, Scan, ResetDamaged, EndReset,
       BeginRound, Expire, CopyDownloading, CopyEmpty, ServePeer, Pick, EndPeer, Send,
       BecomeSeed, ChangeAllStatus, TestCompleted, AnyAnswer, CountBlock, SettlePiece,
       Credit, Stop, Lose, vars, faultVars
<1> QED
    BY <1>1, <1>2 DEF WrittenInv

\* What is Verified was found whole by the responder, or is part of a file that
\* the chooser found whole.
LEMMA Verified_Step ==
    ASSUME DownloadInv, WrittenInv, [Next]_vars, running',
           NEW p \in Piece, pieceStatus'[p] = "Verified"
    PROVE  Written(p)'
<1>1. running /\ pieceStatus \in [Piece -> Status]
    BY WrittenStays DEF DownloadInv, ProgressTypeOK
<1>2. CASE pieceStatus[p] = "Verified"
    BY <1>1, <1>2, WrittenStays DEF WrittenInv
<1>3. CASE pieceStatus[p] # "Verified"
    <2>1. CASE SettlePiece
        <3>1. PieceOf[rblock] = p /\ verdict
            BY <1>1, <1>3, <2>1 DEF SettlePiece, UpdatePieceStatus, Outcome
        <3> QED
            BY <3>1, WrittenStays DEF WrittenInv
    <2>2. CASE ChangeAllStatus
        <3>1. pc = "changeAll"
            BY <2>2 DEF ChangeAllStatus, ChooserAt
        <3> QED
            BY <1>1, <3>1, WrittenStays DEF WrittenInv, AllWritten
    <2>3. CASE ResetDamaged
        BY <1>1, <1>3, <2>3 DEF ResetDamaged, UpdatePieceStatus
    <2>4. CASE CountBlock
        BY <1>1, <1>3, <2>4 DEF CountBlock, DownloadedBlock
    <2>5. ASSUME NEW t, NEW b, NEW s, UpdateBlockStatus(t, b, s)
          PROVE  FALSE
        BY <1>1, <1>3, <2>5 DEF UpdateBlockStatus
    <2>6. CASE Expire \/ \E b \in Block : Pick(b)
        BY <2>5, <2>6 DEF Expire, Pick
    <2>7. CASE pieceStatus' = pieceStatus
        BY <1>3, <2>7
    <2>8. ~(SettlePiece \/ ChangeAllStatus \/ ResetDamaged \/ CountBlock \/ Expire
            \/ \E b \in Block : Pick(b)) => pieceStatus' = pieceStatus
        BY DEF Next, ChooserNext, ResponderNext, Check, VerifyFile, Scan, EndReset,
           BeginRound, CopyDownloading, CopyEmpty, ServePeer, EndPeer, Send, BecomeSeed,
           TestCompleted, CheckCompleted, Answer, Credit, Stop, Lose, vars, progressVars
    <2> QED
        BY <2>1, <2>2, <2>3, <2>4, <2>6, <2>7, <2>8
<1> QED
    BY <1>2, <1>3

\* The chooser ends the loop, unstopped, only after it has seen the whole file.
LEMMA Seed_Step ==
    ASSUME DownloadInv, WrittenInv, [Next]_vars, running',
           pc' \in {"finish", "changeAll", "seed"} \/ isSeed'
    PROVE  AllWritten'
<1>1. running
    BY WrittenStays
<1>2. CASE pc \in {"finish", "changeAll", "seed"} \/ isSeed
    BY <1>1, <1>2, WrittenStays DEF WrittenInv
<1>3. CASE ~(pc \in {"finish", "changeAll", "seed"} \/ isSeed)
    <2>1. CASE VerifyFile
        <3>1. FileGood
            BY <1>3, <2>1 DEF VerifyFile, handlerVars
        <3>2. AllWritten
            BY <3>1 DEF FileGood, PieceGood, AllWritten, Written
        <3> QED
            BY <3>2, WrittenStays
    <2>2. CASE Check
        BY <1>1, <1>3, <2>2 DEF Check, handlerVars
    <2>3. CASE BecomeSeed \/ ChangeAllStatus
        BY <1>3, <2>3 DEF BecomeSeed, ChangeAllStatus, ChooserAt
    <2>4. CASE Scan \/ ResetDamaged \/ EndReset \/ Expire \/ CopyDownloading \/ CopyEmpty
               \/ EndPeer \/ Send
        BY <1>3, <2>4 DEF Scan, ResetDamaged, EndReset, Expire, CopyDownloading, CopyEmpty,
           EndPeer, Send, handlerVars
    <2>5. ASSUME NEW E, BeginRound(E) PROVE FALSE
        BY <1>3, <2>5 DEF BeginRound, handlerVars
    <2>6. ASSUME NEW q, ServePeer(q) PROVE FALSE
        BY <1>3, <2>6 DEF ServePeer, handlerVars
    <2>7. ASSUME NEW b, Pick(b) PROVE FALSE
        BY <1>3, <2>7 DEF Pick, handlerVars
    <2>8. CASE UNCHANGED <<pc, isSeed>>
        BY <1>3, <2>8
    <2>9. ASSUME NEW q, NEW b, NEW content, Answer(q, b, content)
          PROVE  UNCHANGED <<pc, isSeed>>
        BY <2>9 DEF Answer, chooserVars, handlerVars
    <2>10. ASSUME NEW q, NEW b, Lose(q, b)
           PROVE  UNCHANGED <<pc, isSeed>>
        BY <2>10 DEF Lose, chooserVars, handlerVars
    <2>11. CountBlock \/ SettlePiece \/ Credit \/ Stop \/ TestCompleted("chooser")
           \/ TestCompleted("responder") \/ UNCHANGED vars => UNCHANGED <<pc, isSeed>>
        BY DEF CountBlock, SettlePiece, Credit, Stop, TestCompleted, vars, chooserVars,
           handlerVars
    <2> QED
        BY <2>1, <2>2, <2>3, <2>4, <2>5, <2>6, <2>7, <2>8, <2>9, <2>10, <2>11
           DEF Next, ChooserNext, ResponderNext
<1> QED
    BY <1>2, <1>3

\* The inductive step of WrittenInv.
LEMMA Written_Step == DownloadInv /\ WrittenInv /\ [Next]_vars => WrittenInv'
<1> SUFFICES ASSUME DownloadInv, WrittenInv, [Next]_vars PROVE WrittenInv'
    OBVIOUS
<1>1. (\A p \in announced : Written(p))'
    BY Announced_Step
<1>2. (running => \A p \in Piece : pieceStatus[p] = "Verified" => Written(p))'
    BY Verified_Step
<1>3. (running /\ (pc \in {"finish", "changeAll", "seed"} \/ isSeed) => AllWritten)'
    BY Seed_Step
<1>4. (verdict => rpc \in {"settle", "credit"} /\ Written(PieceOf[rblock]))'
    BY Verdict_Step
<1>5. (corrupt = 0 /\ ~spilt => \A b \in Block : disk[b] # "bad")'
    BY NoBad_Step
<1> QED
    BY <1>1, <1>2, <1>3, <1>4, <1>5 DEF WrittenInv

\* WrittenInv holds throughout, with the types it rests on.
LEMMA WrittenAlways == Spec => [](DownloadInv /\ WrittenInv)
<1>1. Init => WrittenInv
    BY DEF Init, ProgressInit, WrittenInv
<1>2. DownloadTypes /\ ProgressTypeOK => DownloadInv
    BY DEF DownloadInv
<1>3. Spec => []ProgressTypeOK
    BY TableImplemented, ProgressTypeCorrect, PTL
<1> QED
    BY <1>1, <1>2, <1>3, Init_Types, DownloadTypes_Step, Written_Step, PTL DEF Spec

\* While the download runs, no block has arrived corrupted and no answer has
\* damaged a block beside its own, what is
\* Verified, announced or seeded is whole on the disk.
THEOREM IntegrityKept == Spec => []Integrity
<1>1. DownloadInv /\ WrittenInv => Integrity
    <2> SUFFICES ASSUME DownloadInv, WrittenInv, running, corrupt = 0, ~spilt PROVE Kept
        BY DEF Integrity
    <2>1. \A p : Written(p) => PieceGood(p)
        BY DEF Written, PieceGood, BlocksOf, WrittenInv, DownloadInv, DownloadTypes,
           HandlerTypeOK
    <2> QED
        BY <2>1 DEF Kept, WrittenInv, AllWritten, FileGood
<1> QED
    BY <1>1, WrittenAlways, PTL

\* Corrupted blocks or not, a Verified piece has all its blocks on the disk.
THEOREM VerifiedWritten == Spec => []VerifiedIsWritten
<1>1. WrittenInv => VerifiedIsWritten
    BY LayoutAssumption DEF WrittenInv, VerifiedIsWritten, Written, BlocksOf
<1> QED
    BY <1>1, WrittenAlways, PTL

-----------------------------------------------------------------------------
(* No request is forgotten.  Of the entries for a peer and block, as many  *)
(* are not marked received as answers may still come, and those that time  *)
(* out are others, as long as no request times out that is answered.       *)

\* Whether the block will be requested from the peer when this round is sent,
\* once for each copy of the table that it was taken from.
FromCopy(q, b, c) == IF <<q, b, c>> \in picked THEN 1 ELSE 0
Ready(q, b) == FromCopy(q, b, "Downloading") + FromCopy(q, b, "Empty")

\* Whether an answer was counted that has yet to be credited to its entry.
After(q, b) ==
    IF rpc \in {"settle", "credit"} /\ rpeer = q /\ rblock = b THEN 1 ELSE 0

\* What the chooser has gathered is there while it works with it.
RoundInv ==
    /\ pc # "expire" => expired = {}
    /\ pc \notin {"nextPeer", "pick"} => picked = {} /\ snapEmpty = {}
    /\ pc \notin {"snapEmpty", "nextPeer", "pick"} => snapDownloading = {}

Accounted(q, b) == ToCome(q, b) + Ready(q, b) <= Entries(q, b)

LateInv ==
    timeouts = 0 => /\ \A q \in Peer, b \in Block : Accounted(q, b)
                    /\ \A e \in expired : ToCome(e[1], e[2]) < e[3]

TrackedInv ==
    timeouts = 0 =>
        \A b \in Block : blockStatus[b] = "Downloading" =>
            \E q \in Peer : Entries(q, b) > After(q, b)

\* These are numbers.
LEMMA CountTypes ==
    ASSUME DownloadTypes, NEW q \in Peer, NEW b \in Block
    PROVE  /\ Entries(q, b) \in Nat /\ ToCome(q, b) \in Nat
           /\ Ready(q, b) \in 0..2 /\ After(q, b) \in 0..1
<1>1. open[q][b] \in Nat /\ asked[q][b] \in Nat
    BY DEF DownloadTypes, RequestTypeOK, HandlerTypeOK
<1>2. <<q, b>> \in got => open[q][b] > 0
    BY DEF DownloadTypes, EntriesOK
<1>3. Entries(q, b) \in Nat
    BY <1>1, <1>2 DEF Entries
<1>4. ToCome(q, b) \in Nat
    BY <1>1 DEF ToCome
<1>5. Ready(q, b) \in 0..2 /\ After(q, b) \in 0..1
    BY DEF Ready, FromCopy, After
<1> QED
    BY <1>3, <1>4, <1>5

\* They still are after a step.
Counts == \A q \in Peer, b \in Block : /\ Entries(q, b) \in Nat /\ ToCome(q, b) \in Nat
                                       /\ Ready(q, b) \in 0..2 /\ After(q, b) \in 0..1

\* The same from the types of the download.
LEMMA CountsOfTypes == DownloadTypes => Counts
BY CountTypes DEF Counts

\* The same in the next state.
LEMMA CountTypesNext == DownloadTypes' => Counts'
BY CountsOfTypes, PTL

\* While the chooser works, none is marked received.
NoneReceived == \A q \in Peer, b \in Block : Entries(q, b) = open[q][b]

\* Without marked entries none is counted as received.
LEMMA NoneReceivedType == DownloadTypes /\ got = {} => NoneReceived
BY DEF DownloadTypes, RequestTypeOK, Entries, NoneReceived

\* The same in the next state.
LEMMA NoneReceivedNext == (DownloadTypes /\ got = {})' => NoneReceived'
BY NoneReceivedType, PTL

\* What is sent for a block is what Send counts.
LEMMA ReadySent ==
    ASSUME NEW q, NEW b
    PROVE  Cardinality({c \in CopyName : <<q, b, c>> \in picked}) = Ready(q, b)
<1> DEFINE chosen == {c \in CopyName : <<q, b, c>> \in picked}
           d == <<q, b, "Downloading">> \in picked
           e == <<q, b, "Empty">> \in picked
<1>1. chosen = (IF d THEN {"Downloading"} ELSE {}) \cup (IF e THEN {"Empty"} ELSE {})
    BY DEF CopyName
<1>2. Cardinality({"Downloading"}) = 1 /\ Cardinality({"Empty"}) = 1 /\ Cardinality({}) = 0
    BY FS_Singleton, FS_EmptySet
<1>3. Cardinality({"Downloading"} \cup {"Empty"}) = 2
    <2>1. IsFiniteSet({"Downloading"}) /\ "Empty" \notin {"Downloading"}
        BY FS_Singleton
    <2> QED
        BY <1>2, <2>1, FS_AddElement
<1>4. Cardinality(chosen) = (IF d THEN 1 ELSE 0) + (IF e THEN 1 ELSE 0)
    <2> HIDE DEF chosen
    <2>1. CASE d /\ e
        <3>1. chosen = {"Downloading"} \cup {"Empty"}
            BY <1>1, <2>1
        <3> QED
            BY <1>3, <2>1, <3>1
    <2>2. CASE d /\ ~e
        <3>1. chosen = {"Downloading"}
            BY <1>1, <2>2
        <3> QED
            BY <1>2, <2>2, <3>1
    <2>3. CASE ~d /\ e
        <3>1. chosen = {"Empty"}
            BY <1>1, <2>3
        <3> QED
            BY <1>2, <2>3, <3>1
    <2>4. CASE ~d /\ ~e
        <3>1. chosen = {}
            BY <1>1, <2>4
        <3> QED
            BY <1>2, <2>4, <3>1
    <2> QED
        BY <2>1, <2>2, <2>3, <2>4
<1> QED
    BY <1>4 DEF Ready, FromCopy

\* The chooser drops what it has gathered when it is done with it.
LEMMA Round_Step == RoundInv /\ [Next]_vars => RoundInv'
<1> SUFFICES ASSUME RoundInv, [Next]_vars PROVE RoundInv'
    OBVIOUS
<1> USE DEF RoundInv, ChooserAt
<1>1. CASE Check \/ VerifyFile \/ Scan \/ ResetDamaged \/ EndReset
    BY <1>1 DEF Check, VerifyFile, Scan, ResetDamaged, EndReset
<1>2. ASSUME NEW E, BeginRound(E) PROVE RoundInv'
    BY <1>2 DEF BeginRound
<1>3. CASE Expire
    BY <1>3 DEF Expire
<1>4. CASE CopyDownloading
    BY <1>4 DEF CopyDownloading
<1>5. CASE CopyEmpty
    BY <1>5 DEF CopyEmpty
<1>6. ASSUME NEW q, ServePeer(q) PROVE RoundInv'
    BY <1>6 DEF ServePeer
<1>7. ASSUME NEW b, Pick(b) PROVE RoundInv'
    BY <1>7 DEF Pick
<1>8. CASE EndPeer \/ Send \/ BecomeSeed \/ ChangeAllStatus
    BY <1>8 DEF EndPeer, Send, BecomeSeed, ChangeAllStatus
<1>9. CASE UNCHANGED chooserVars
    BY <1>9 DEF chooserVars
<1>10. OtherNext \/ TestCompleted("chooser") \/ UNCHANGED vars => UNCHANGED chooserVars
    BY DEF OtherNext, AnyAnswer, AnyLose, Answer, CountBlock, SettlePiece, Credit,
       TestCompleted, Stop, Lose, vars
<1> QED
    BY <1>1, <1>2, <1>3, <1>4, <1>5, <1>6, <1>7, <1>8, <1>9, <1>10
       DEF Next, ChooserNext, ResponderNext, OtherNext, AnyAnswer, AnyLose

AnyBegin == \E E \in SUBSET Unreceived : BeginRound(E)
AnyPick == \E b \in Block : Pick(b)

\* The steps that have to do with requests and answers.
requestsAndAnswers == <<open, got, picked, expired, asked, rpc, rpeer, rblock, timeouts>>

\* Steps that make, answer, lose or erase no request leave the requests alone.
LEMMA OtherSteps ==
    ASSUME [Next]_vars, ~AnyBegin, ~Expire, ~AnyPick, ~Send, ~AnyAnswer, ~CountBlock,
           ~SettlePiece, ~Credit, ~AnyLose
    PROVE  UNCHANGED requestsAndAnswers
<1> USE DEF requestsAndAnswers, requestVars, responderVars, faultVars, chooserVars
<1>1. CASE Check \/ VerifyFile \/ Scan \/ ResetDamaged \/ EndReset
    BY <1>1 DEF Check, VerifyFile, Scan, ResetDamaged, EndReset
<1>2. CASE CopyDownloading \/ CopyEmpty \/ EndPeer \/ BecomeSeed \/ ChangeAllStatus
    BY <1>2 DEF CopyDownloading, CopyEmpty, EndPeer, BecomeSeed, ChangeAllStatus
<1>3. ASSUME NEW q, ServePeer(q) PROVE UNCHANGED requestsAndAnswers
    BY <1>3 DEF ServePeer
<1>4. CASE TestCompleted("chooser") \/ TestCompleted("responder") \/ Stop \/ UNCHANGED vars
    BY <1>4 DEF TestCompleted, Stop, vars
<1> QED
    BY <1>1, <1>2, <1>3, <1>4
       DEF Next, ChooserNext, ResponderNext, AnyAnswer, AnyLose, AnyBegin, AnyPick

\* That a request timed out too early is not forgotten.
LEMMA TimeoutsGrow ==
    ASSUME DownloadTypes, [Next]_vars, timeouts' = 0
    PROVE  timeouts = 0
<1>1. CASE AnyBegin
    <2>1. PICK E \in SUBSET Unreceived : BeginRound(E)
        BY <1>1 DEF AnyBegin
    <2>2. Cardinality(E \cap Answerable) \in Nat
        BY UnreceivedFinite, FS_Subset, FS_CardinalityType DEF DownloadTypes
    <2>3. timeouts \in Nat
        BY DownloadAssumption DEF DownloadTypes, HandlerTypeOK
    <2> QED
        BY <2>1, <2>2, <2>3 DEF BeginRound
<1>2. CASE Expire \/ AnyPick \/ Send \/ AnyAnswer \/ CountBlock \/ SettlePiece \/ Credit \/ AnyLose
    <2>1. timeouts' = timeouts
        BY <1>2 DEF Expire, AnyPick, Pick, Send, AnyAnswer, Answer, CountBlock, SettlePiece,
           Credit, AnyLose, Lose, faultVars
    <2> QED
        BY <2>1
<1>3. CASE UNCHANGED requestsAndAnswers
    BY <1>3 DEF requestsAndAnswers
<1> QED
    BY <1>1, <1>2, <1>3, OtherSteps

\* Only entries that nobody will answer are found timed out.
LEMMA Late_Begin ==
    ASSUME DownloadInv, RoundInv, LateInv, AnyBegin, timeouts' = 0, timeouts = 0, DownloadTypes'
    PROVE  LateInv'
<1>1. PICK E \in SUBSET Unreceived : BeginRound(E)
    BY DEF AnyBegin
<1>2. Cardinality(E \cap Answerable) = 0
    <2>1. Cardinality(E \cap Answerable) \in Nat
        BY UnreceivedFinite, FS_Subset, FS_CardinalityType DEF DownloadInv, DownloadTypes
    <2> QED
        BY <1>1, <2>1 DEF BeginRound
<1>3. E \cap Answerable = {}
    <2>1. IsFiniteSet(E \cap Answerable)
        BY UnreceivedFinite, FS_Subset DEF DownloadInv, DownloadTypes
    <2> QED
        BY <1>2, <2>1, FS_EmptySet
<1>4. UNCHANGED <<asked, rpc, rpeer, rblock, picked>> /\ got' = {} /\ expired' = E
    BY <1>1 DEF BeginRound, responderVars
<1>5. \A q \in Peer, b \in Block : Entries(q, b)' = Entries(q, b)
    <2>1. \A q \in Peer, b \in Block : open'[q][b] = Entries(q, b)
        BY <1>1 DEF BeginRound
    <2> QED
        BY <1>4, <2>1, NoneReceivedNext DEF NoneReceived
<1>6. \A q, b : ToCome(q, b)' = ToCome(q, b) /\ Ready(q, b)' = Ready(q, b)
    BY <1>4 DEF ToCome, Ready, FromCopy
<1>7. ASSUME NEW e \in E PROVE ToCome(e[1], e[2]) < e[3]
    <2>1. e \in Unreceived /\ e \notin Answerable
        BY <1>3
    <2>2. e[1] \in Peer /\ e[2] \in Block /\ e[3] \in Nat
        BY <2>1, UnreceivedType DEF DownloadInv, DownloadTypes
    <2>3. ToCome(e[1], e[2]) \in Nat
        BY <2>2, CountTypes DEF DownloadInv
    <2>4. ~(e[3] <= ToCome(e[1], e[2]))
        BY <2>1 DEF Answerable
    <2> QED
        BY <2>2, <2>3, <2>4
<1>8. \A e \in expired' : ToCome(e[1], e[2])' < e[3]
    BY <1>4, <1>6, <1>7
<1>9. \A q \in Peer, b \in Block : Accounted(q, b)'
    BY <1>5, <1>6 DEF Accounted, LateInv
<1> QED
    BY <1>8, <1>9 DEF LateInv

\* The entry that is erased was to be answered by nobody, as those numbered
\* before it for its block are enough for all answers.
LEMMA Late_Expire ==
    ASSUME DownloadInv, RoundInv, LateInv, Expire, timeouts = 0, DownloadTypes'
    PROVE  LateInv'
<1> USE DEF DownloadInv, DownloadTypes
<1>1. PICK e \in expired :
          /\ \A f \in expired : <<f[1], f[2]>> = <<e[1], e[2]>> => f[3] <= e[3]
          /\ open' = [open EXCEPT ![e[1]][e[2]] = @ - 1]
          /\ expired' = expired \ {e}
    BY DEF Expire
<1>2. e[1] \in Peer /\ e[2] \in Block /\ e[3] \in Nat /\ e[3] <= open[e[1]][e[2]]
    BY DEF ChooserTypeOK, EntriesOK
<1>3. UNCHANGED <<asked, rpc, rpeer, rblock, picked, got>> /\ got = {} /\ picked = {}
    BY DEF Expire, responderVars, EntriesOK, ChooserAt, Choosing, RoundInv
<1>4. \A q, b : ToCome(q, b)' = ToCome(q, b) /\ Ready(q, b)' = 0
    BY <1>3 DEF ToCome, Ready, FromCopy
<1>5. \A f \in expired' : ToCome(f[1], f[2])' < f[3]
    BY <1>1, <1>4 DEF LateInv
<1>6. ASSUME NEW q \in Peer, NEW b \in Block PROVE Accounted(q, b)'
    <2>1. ToCome(q, b) \in Nat /\ Ready(q, b) \in Nat /\ Entries(q, b) \in Nat
        BY CountTypes
    <2>2. Entries(q, b) = open[q][b] /\ Entries(q, b)' = open'[q][b]
        BY <1>3, NoneReceivedType, NoneReceivedNext DEF NoneReceived
    <2>3. CASE q = e[1] /\ b = e[2]
        <3>1. open'[q][b] = open[q][b] - 1
            BY <1>1, <1>2, <2>3 DEF RequestTypeOK
        <3>2. ToCome(q, b) < e[3] /\ e[3] <= open[q][b]
            BY <1>2, <2>3 DEF LateInv
        <3>3. ToCome(q, b) <= open[q][b] - 1
            BY <1>2, <2>1, <2>2, <3>2
        <3> QED
            BY <1>4, <2>1, <2>2, <3>1, <3>3 DEF Accounted
    <2>4. CASE ~(q = e[1] /\ b = e[2])
        <3>1. open'[q][b] = open[q][b]
            BY <1>1, <1>2, <2>4 DEF RequestTypeOK
        <3>2. ToCome(q, b) + Ready(q, b) <= Entries(q, b)
            BY DEF LateInv, Accounted
        <3> QED
            BY <1>4, <2>1, <2>2, <3>1, <3>2 DEF Accounted
    <2> QED
        BY <2>3, <2>4
<1> QED
    BY <1>5, <1>6 DEF LateInv

\* A request is made with its entry.
LEMMA Late_Pick ==
    ASSUME DownloadInv, RoundInv, LateInv, NEW b \in Block, Pick(b), timeouts = 0, DownloadTypes'
    PROVE  LateInv'
<1> USE DEF DownloadInv, DownloadTypes
<1>1. /\ cur \in Peer /\ got = {} /\ got' = {} /\ expired = {} /\ expired' = {}
      /\ open' = [open EXCEPT ![cur][b] = @ + 1]
      /\ picked' = picked \cup {<<cur, b, Copy>>}
      /\ UNCHANGED <<asked, rpc, rpeer, rblock>>
    BY DEF Pick, ThreadsOK, EntriesOK, ChooserAt, Choosing, RoundInv, responderVars
<1>2. \A q, c : ToCome(q, c)' = ToCome(q, c)
    BY <1>1 DEF ToCome
<1>3. ASSUME NEW q \in Peer, NEW c \in Block PROVE Accounted(q, c)'
    <2>1. ToCome(q, c) \in Nat /\ Ready(q, c) \in Nat /\ Entries(q, c) \in Nat
        BY CountTypes
    <2>2. Entries(q, c) = open[q][c] /\ Entries(q, c)' = open'[q][c]
        BY <1>1, NoneReceivedType, NoneReceivedNext DEF NoneReceived
    <2>3. ToCome(q, c) + Ready(q, c) <= Entries(q, c)
        BY DEF LateInv, Accounted
    <2>4. CASE q = cur /\ c = b
        <3>1. open'[q][c] = open[q][c] + 1
            BY <1>1, <2>4 DEF RequestTypeOK
        <3>2. Ready(q, c)' \in Nat /\ Ready(q, c)' <= Ready(q, c) + 1
            BY <1>1 DEF Ready, FromCopy, Copy
        <3> QED
            BY <1>2, <2>1, <2>2, <2>3, <3>1, <3>2 DEF Accounted
    <2>5. CASE ~(q = cur /\ c = b)
        <3>1. open'[q][c] = open[q][c]
            BY <1>1, <2>5 DEF RequestTypeOK
        <3>2. Ready(q, c)' = Ready(q, c)
            BY <1>1, <2>5 DEF Ready, FromCopy
        <3> QED
            BY <1>2, <2>1, <2>2, <2>3, <3>1, <3>2 DEF Accounted
    <2> QED
        BY <2>4, <2>5
<1> QED
    BY <1>1, <1>3 DEF LateInv

\* The requests of a round are sent.
LEMMA Late_Send ==
    ASSUME DownloadInv, RoundInv, LateInv, Send, timeouts = 0
    PROVE  LateInv'
<1>1. picked' = {} /\ UNCHANGED <<open, got, rpc, rpeer, rblock>> /\ expired' = {}
    BY DEF Send, requestVars, responderVars, RoundInv, ChooserAt
<1>2. asked' = [q \in Peer |-> [b \in Block |-> asked[q][b] + Ready(q, b)]]
    BY ReadySent DEF Send
<1>3. ASSUME NEW q \in Peer, NEW b \in Block PROVE Accounted(q, b)'
    <2>1. asked[q][b] \in Nat /\ Ready(q, b) \in Nat /\ asked'[q][b] = asked[q][b] + Ready(q, b)
        BY <1>2, CountTypes DEF DownloadInv, DownloadTypes, HandlerTypeOK
    <2>2. ToCome(q, b)' = ToCome(q, b) + Ready(q, b)
        BY <1>1, <2>1 DEF ToCome
    <2>3. Ready(q, b)' = 0 /\ Entries(q, b)' = Entries(q, b)
        BY <1>1 DEF Ready, FromCopy, Entries
    <2>4. ToCome(q, b) + Ready(q, b) <= Entries(q, b)
        BY DEF LateInv, Accounted
    <2>5. ToCome(q, b) \in Nat /\ Entries(q, b) \in Nat
        BY CountTypes DEF DownloadInv
    <2> QED
        BY <2>1, <2>2, <2>3, <2>4, <2>5 DEF Accounted
<1> QED
    BY <1>1, <1>3 DEF LateInv

\* What is to come becomes less, and the entries with it at most when an answer
\* is credited.
LEMMA Late_Fewer ==
    ASSUME DownloadInv, LateInv, timeouts = 0, UNCHANGED <<picked, expired>>, DownloadTypes',
           \A q \in Peer, b \in Block : ToCome(q, b)' <= ToCome(q, b),
           \A q \in Peer, b \in Block :
               Entries(q, b)' - ToCome(q, b)' >= Entries(q, b) - ToCome(q, b)
    PROVE  LateInv'
<1>1. \A q, b : Ready(q, b)' = Ready(q, b)
    BY DEF Ready, FromCopy
<1>2. ASSUME NEW q \in Peer, NEW b \in Block
      PROVE  /\ Entries(q, b) \in Nat /\ ToCome(q, b) \in Nat /\ Ready(q, b) \in Nat
             /\ Entries(q, b)' \in Nat /\ ToCome(q, b)' \in Nat
    <2>1. Counts /\ Counts'
        BY CountsOfTypes, CountTypesNext DEF DownloadInv
    <2> QED
        BY <2>1 DEF Counts
<1>3. ASSUME NEW q \in Peer, NEW b \in Block PROVE Accounted(q, b)'
    <2>1. ToCome(q, b) + Ready(q, b) <= Entries(q, b)
        BY DEF LateInv, Accounted
    <2> QED
        BY <1>1, <1>2, <2>1 DEF Accounted
<1>4. ASSUME NEW e \in expired' PROVE ToCome(e[1], e[2])' < e[3]
    <2>1. e[1] \in Peer /\ e[2] \in Block /\ e[3] \in Nat /\ ToCome(e[1], e[2]) < e[3]
        BY DEF LateInv, DownloadInv, DownloadTypes, ChooserTypeOK
    <2> QED
        BY <1>2, <2>1
<1> QED
    BY <1>3, <1>4 DEF LateInv

\* Answers are taken, credited or lost.
LEMMA Late_Answer ==
    ASSUME DownloadInv, LateInv, AnyAnswer \/ AnyLose \/ Credit, timeouts = 0, DownloadTypes'
    PROVE  LateInv'
<1>0. Counts /\ Counts'
    BY CountsOfTypes, CountTypesNext DEF DownloadInv
<1> USE DEF DownloadInv, DownloadTypes
<1>1. ASSUME NEW q \in Peer, NEW b \in Block, NEW content, Answer(q, b, content)
      PROVE  LateInv'
    <2>1. /\ rpc = "idle" /\ asked[q][b] > 0
          /\ asked' = [asked EXCEPT ![q][b] = @ - 1]
          /\ rpc' = "count" /\ rpeer' = q /\ rblock' = b
          /\ UNCHANGED <<picked, expired, open, got>>
        BY <1>1 DEF Answer, chooserVars, requestVars
    <2>2. ASSUME NEW r \in Peer, NEW c \in Block PROVE ToCome(r, c)' = ToCome(r, c)
        <3>1. asked'[r][c] = IF r = q /\ c = b THEN asked[r][c] - 1 ELSE asked[r][c]
            BY <2>1 DEF HandlerTypeOK
        <3>2. asked[r][c] \in Nat
            BY DEF HandlerTypeOK
        <3> QED
            BY <2>1, <3>1, <3>2 DEF ToCome
    <2>3. \A r, c : Entries(r, c)' = Entries(r, c)
        BY <2>1 DEF Entries
    <2> QED
        BY <2>1, <2>2, <2>3, CountTypes, Late_Fewer
<1>2. ASSUME NEW q \in Peer, NEW b \in Block, Lose(q, b)
      PROVE  LateInv'
    <2>1. /\ asked' = [asked EXCEPT ![q][b] = @ - 1]
          /\ UNCHANGED <<picked, expired, open, got, rpc, rpeer, rblock>>
        BY <1>2 DEF Lose, chooserVars, requestVars, responderVars
    <2>2. ASSUME NEW r \in Peer, NEW c \in Block PROVE ToCome(r, c)' <= ToCome(r, c)
        <3>1. asked'[r][c] = IF r = q /\ c = b THEN asked[r][c] - 1 ELSE asked[r][c]
            BY <2>1 DEF HandlerTypeOK
        <3>2. asked[r][c] \in Nat
            BY DEF HandlerTypeOK
        <3> QED
            BY <2>1, <3>1, <3>2 DEF ToCome
    <2>3. \A r, c : Entries(r, c)' = Entries(r, c)
        BY <2>1 DEF Entries
    <2>4. ASSUME NEW r \in Peer, NEW c \in Block
          PROVE  Entries(r, c)' - ToCome(r, c)' >= Entries(r, c) - ToCome(r, c)
        <3>1. Entries(r, c) \in Nat /\ ToCome(r, c) \in Nat /\ ToCome(r, c)' \in Nat
            BY <1>0 DEF Counts
        <3> QED
            BY <2>2, <2>3, <3>1
    <2> QED
        BY <2>1, <2>2, <2>4, Late_Fewer
<1>3. CASE Credit
    <2>1. rpc = "credit" /\ rpc' = "idle" /\ rpeer \in Peer /\ rblock \in Block
        BY <1>3 DEF Credit, ThreadsOK
    <2>2. UNCHANGED <<picked, expired, open, asked>> /\ got' \subseteq got \cup {<<rpeer, rblock>>}
        BY <1>3 DEF Credit, chooserVars
    <2>3. ASSUME NEW r \in Peer, NEW c \in Block
          PROVE  /\ ToCome(r, c)' = ToCome(r, c) - IF r = rpeer /\ c = rblock THEN 1 ELSE 0
                 /\ Entries(r, c)' >= Entries(r, c) - IF r = rpeer /\ c = rblock THEN 1 ELSE 0
        <3>1. asked[r][c] \in Nat /\ open[r][c] \in Nat
            BY DEF HandlerTypeOK, RequestTypeOK
        <3>2. ToCome(r, c)' = asked[r][c]
            <4>1. ToCome(r, c)' = asked[r][c] + 0
                BY <2>1, <2>2 DEF ToCome
            <4> QED
                BY <3>1, <4>1
        <3>3. ToCome(r, c) = asked[r][c] + IF r = rpeer /\ c = rblock THEN 1 ELSE 0
            BY <2>1 DEF ToCome
        <3>4. <<r, c>> \in got' => <<r, c>> \in got \/ (r = rpeer /\ c = rblock)
            BY <2>2
        <3>5. Entries(r, c)' >= Entries(r, c) - IF r = rpeer /\ c = rblock THEN 1 ELSE 0
            BY <2>2, <3>1, <3>4 DEF Entries
        <3> QED
            BY <3>1, <3>2, <3>3, <3>5
    <2>4. ASSUME NEW r \in Peer, NEW c \in Block
          PROVE  /\ ToCome(r, c)' <= ToCome(r, c)
                 /\ Entries(r, c)' - ToCome(r, c)' >= Entries(r, c) - ToCome(r, c)
        <3>1. /\ Entries(r, c) \in Nat /\ ToCome(r, c) \in Nat
              /\ Entries(r, c)' \in Nat /\ ToCome(r, c)' \in Nat
            BY <1>0 DEF Counts
        <3> QED
            BY <2>3, <3>1
    <2> QED
        BY <2>2, <2>4, Late_Fewer
<1> QED
    BY <1>1, <1>2, <1>3 DEF AnyAnswer, AnyLose

\* All steps.
LEMMA Late_Step == DownloadInv /\ RoundInv /\ LateInv /\ [Next]_vars => LateInv'
<1> SUFFICES ASSUME DownloadInv, RoundInv, LateInv, [Next]_vars, timeouts' = 0 PROVE LateInv'
    BY DEF LateInv
<1>1. timeouts = 0 /\ DownloadTypes'
    BY TimeoutsGrow, DownloadTypes_Step DEF DownloadInv
<1>2. CASE AnyBegin
    BY <1>1, <1>2, Late_Begin
<1>3. CASE Expire
    BY <1>1, <1>3, Late_Expire
<1>4. CASE AnyPick
    BY <1>1, <1>4, Late_Pick DEF AnyPick
<1>5. CASE Send
    BY <1>1, <1>5, Late_Send
<1>6. CASE AnyAnswer \/ AnyLose \/ Credit
    BY <1>1, <1>6, Late_Answer
<1>7. CASE CountBlock \/ SettlePiece
    <2>1. /\ UNCHANGED <<picked, expired, open, got, asked, rpeer, rblock>>
          /\ rpc # "idle" /\ rpc' # "idle"
        BY <1>7 DEF CountBlock, SettlePiece, chooserVars, requestVars
    <2>2. \A q, b : ToCome(q, b)' = ToCome(q, b) /\ Entries(q, b)' = Entries(q, b)
        BY <2>1 DEF ToCome, Entries
    <2> QED
        BY <1>1, <2>1, <2>2, CountTypes, Late_Fewer DEF DownloadInv
<1>8. CASE UNCHANGED requestsAndAnswers
    <2>1. \A q, b : ToCome(q, b)' = ToCome(q, b) /\ Entries(q, b)' = Entries(q, b)
        BY <1>8 DEF requestsAndAnswers, ToCome, Entries
    <2> QED
        BY <1>1, <1>8, <2>1, CountTypes, Late_Fewer DEF requestsAndAnswers, DownloadInv
<1> QED
    BY <1>2, <1>3, <1>4, <1>5, <1>6, <1>7, <1>8, OtherSteps

\* The inductive step of TrackedInv.
LEMMA Tracked_Step ==
    DownloadInv /\ RoundInv /\ LateInv /\ TrackedInv /\ [Next]_vars => TrackedInv'
<1> SUFFICES ASSUME DownloadInv, RoundInv, LateInv, TrackedInv, [Next]_vars, timeouts' = 0,
                    NEW b \in Block, blockStatus'[b] = "Downloading"
             PROVE  \E q \in Peer : Entries(q, b)' > After(q, b)'
    BY DEF TrackedInv
<1> USE DEF DownloadInv, DownloadTypes
<1>1. timeouts = 0 /\ DownloadTypes'
    BY TimeoutsGrow, DownloadTypes_Step
<1>2. blockStatus \in [Block -> Status]
    BY DEF ProgressTypeOK
<1>3. ASSUME blockStatus[b] = "Downloading",
             \A q \in Peer : Entries(q, b) > After(q, b) => Entries(q, b)' > After(q, b)'
      PROVE  \E q \in Peer : Entries(q, b)' > After(q, b)'
    BY <1>1, <1>3 DEF TrackedInv
<1>4. CASE AnyBegin
    <2>1. PICK E \in SUBSET Unreceived : BeginRound(E)
        BY <1>4 DEF AnyBegin
    <2>2. \A q \in Peer : Entries(q, b)' = Entries(q, b)
        <3>1. got' = {} /\ \A q \in Peer : open'[q][b] = Entries(q, b)
            BY <2>1 DEF BeginRound
        <3> QED
            BY <1>1, <3>1, NoneReceivedNext DEF NoneReceived
    <2>3. \A q : After(q, b)' = After(q, b)
        BY <2>1 DEF BeginRound, After, responderVars
    <2>4. blockStatus[b] = "Downloading"
        BY <2>1 DEF BeginRound, progressVars
    <2> QED
        BY <1>3, <2>2, <2>3, <2>4
<1>5. CASE Expire
    <2>1. PICK e \in expired : /\ UpdateBlockStatus("chooser", e[2], "Empty")
                               /\ open' = [open EXCEPT ![e[1]][e[2]] = @ - 1]
        BY <1>5 DEF Expire
    <2>2. e[1] \in Peer /\ e[2] \in Block
        BY DEF ChooserTypeOK
    <2>3. b # e[2] /\ blockStatus[b] = "Downloading"
        BY <1>2, <2>1, <2>2 DEF UpdateBlockStatus
    <2>4. \A q \in Peer : open'[q][b] = open[q][b]
        BY <2>1, <2>2, <2>3 DEF RequestTypeOK
    <2>5. \A q \in Peer : Entries(q, b)' = Entries(q, b) /\ After(q, b)' = After(q, b)
        BY <1>5, <2>4 DEF Expire, Entries, After, responderVars
    <2> QED
        BY <1>3, <2>3, <2>5
<1>6. ASSUME NEW c \in Block, Pick(c) PROVE \E q \in Peer : Entries(q, b)' > After(q, b)'
    <2>1. /\ cur \in Peer /\ got = {} /\ got' = {}
          /\ open' = [open EXCEPT ![cur][c] = @ + 1]
          /\ UpdateBlockStatus("chooser", c, "Downloading")
          /\ UNCHANGED responderVars
        BY <1>6 DEF Pick, ThreadsOK, EntriesOK, ChooserAt, Choosing
    <2>2. \A q, d : After(q, d)' = After(q, d)
        BY <2>1 DEF After, responderVars
    <2>3. \A q \in Peer, d \in Block : Entries(q, d) = open[q][d] /\ Entries(q, d)' = open'[q][d]
        BY <1>1, <2>1, NoneReceivedType, NoneReceivedNext DEF NoneReceived
    <2>4. CASE b = c
        <3>0. PICK q \in Peer : q = cur
            BY <2>1
        <3>1. Entries(q, b)' = Entries(q, b) + 1
            <4>1. open'[q][b] = open[q][b] + 1
                BY <2>1, <2>4, <3>0 DEF RequestTypeOK
            <4> QED
                BY <2>3, <4>1
        <3>2. Entries(q, b) \in Nat /\ ToCome(q, b) \in Nat /\ Ready(q, b) \in Nat
            BY <2>1, CountTypes
        <3>3. ToCome(q, b) + Ready(q, b) <= Entries(q, b)
            BY <1>1, <2>1 DEF LateInv, Accounted
        <3>4. asked[q][b] \in Nat
            BY <2>1 DEF HandlerTypeOK
        <3>5. After(q, b) = 1 => ToCome(q, b) >= 1
            BY <3>4 DEF After, ToCome
        <3>6. After(q, b) \in 0..1
            BY DEF After
        <3>7. Entries(q, b)' > After(q, b)
            BY <3>1, <3>2, <3>3, <3>5, <3>6
        <3> QED
            BY <2>2, <3>7
    <2>5. CASE b # c
        <3>1. blockStatus[b] = "Downloading"
            BY <1>2, <2>1, <2>5 DEF UpdateBlockStatus
        <3>2. \A q \in Peer : Entries(q, b)' = Entries(q, b)
            BY <2>1, <2>3, <2>5 DEF RequestTypeOK
        <3> QED
            BY <1>3, <2>2, <3>1, <3>2
    <2> QED
        BY <2>4, <2>5
<1>7. CASE CountBlock
    <2>1. /\ rpc = "count" /\ rblock \in Block /\ UNCHANGED <<open, got, rpeer, rblock>>
          /\ DownloadedBlock("responder", rblock)
        BY <1>7 DEF CountBlock, ThreadsOK, requestVars
    <2>2. b # rblock /\ blockStatus[b] = "Downloading"
        BY <1>2, <2>1 DEF DownloadedBlock
    <2>3. \A q : Entries(q, b)' = Entries(q, b) /\ After(q, b)' = After(q, b)
        BY <2>1, <2>2 DEF Entries, After
    <2> QED
        BY <1>3, <2>2, <2>3
<1>8. CASE SettlePiece
    <2>1. /\ rpc = "settle" /\ rpc' = "credit" /\ UNCHANGED <<open, got, rpeer, rblock>>
          /\ UpdatePieceStatus("responder", PieceOf[rblock], Outcome)
        BY <1>8 DEF SettlePiece, requestVars
    <2>2. Outcome # "Downloading"
        BY DEF Outcome
    <2>3. blockStatus[b] = "Downloading"
        BY <1>2, <2>1, <2>2 DEF UpdatePieceStatus
    <2>4. \A q : Entries(q, b)' = Entries(q, b) /\ After(q, b)' = After(q, b)
        BY <2>1 DEF Entries, After
    <2> QED
        BY <1>3, <2>3, <2>4
<1>9. CASE Credit
    <2>1. rpc = "credit" /\ rpc' = "idle" /\ blockStatus' = blockStatus /\ open' = open
        BY <1>9 DEF Credit, progressVars
    <2>2. got' \subseteq got \cup {<<rpeer, rblock>>}
        BY <1>9 DEF Credit
    <2>3. ASSUME NEW q \in Peer, Entries(q, b) > After(q, b)
          PROVE  Entries(q, b)' > After(q, b)'
        <3>1. After(q, b)' = 0
            BY <2>1 DEF After
        <3>2. open[q][b] \in Nat
            BY DEF RequestTypeOK
        <3>3. Entries(q, b)' >= Entries(q, b) - After(q, b)
            <4>1. CASE rpeer = q /\ rblock = b
                BY <2>1, <2>2, <3>2, <4>1 DEF Entries, After
            <4>2. CASE ~(rpeer = q /\ rblock = b)
                <5>1. <<q, b>> \in got' => <<q, b>> \in got
                    BY <2>2, <4>2
                <5> QED
                    BY <2>1, <3>2, <4>2, <5>1 DEF Entries, After
            <4> QED
                BY <4>1, <4>2
        <3>4. /\ Entries(q, b) \in Nat /\ After(q, b) \in Nat /\ Entries(q, b)' \in Nat
            BY <1>1, CountsOfTypes, CountTypesNext DEF Counts
        <3> QED
            BY <2>3, <3>1, <3>3, <3>4
    <2> QED
        BY <1>3, <2>1, <2>3
<1>10. CASE AnyAnswer \/ AnyLose
    <2>1. /\ UNCHANGED <<open, got, blockStatus>>
          /\ \A q : After(q, b)' = After(q, b)
        <3>1. CASE AnyAnswer
            BY <3>1 DEF AnyAnswer, Answer, After, requestVars, progressVars
        <3>2. CASE AnyLose
            BY <3>2 DEF AnyLose, Lose, After, requestVars, progressVars, responderVars
        <3> QED
            BY <1>10, <3>1, <3>2
    <2>2. \A q : Entries(q, b)' = Entries(q, b)
        BY <2>1 DEF Entries
    <2> QED
        BY <1>3, <2>1, <2>2
<1>11. CASE Send
    <2>1. UNCHANGED <<open, got, blockStatus, rpc, rpeer, rblock>>
        BY <1>11 DEF Send, requestVars, progressVars, responderVars
    <2>2. \A q : Entries(q, b)' = Entries(q, b) /\ After(q, b)' = After(q, b)
        BY <2>1 DEF Entries, After
    <2> QED
        BY <1>3, <2>1, <2>2
<1>12. CASE UNCHANGED requestsAndAnswers /\ ~Expire /\ ~AnyPick /\ ~CountBlock /\ ~SettlePiece
    <2>1. \A q : Entries(q, b)' = Entries(q, b) /\ After(q, b)' = After(q, b)
        BY <1>12 DEF requestsAndAnswers, Entries, After
    <2>2. ASSUME NEW t, NEW p, NEW s \in {"Empty", "Verified"}, UpdatePieceStatus(t, p, s)
          PROVE  blockStatus[b] = "Downloading"
        BY <1>2, <2>2 DEF UpdatePieceStatus
    <2>3. CASE ResetDamaged \/ ChangeAllStatus
        BY <1>3, <2>1, <2>2, <2>3 DEF ResetDamaged, ChangeAllStatus
    <2>4. CASE blockStatus' = blockStatus
        BY <1>3, <2>1, <2>4
    <2>5. ~(ResetDamaged \/ ChangeAllStatus) => blockStatus' = blockStatus
        BY <1>12 DEF Next, ChooserNext, ResponderNext, Check, VerifyFile, Scan, EndReset,
           BeginRound, CopyDownloading, CopyEmpty, ServePeer, EndPeer, Send, BecomeSeed,
           TestCompleted, CheckCompleted, Answer, Credit, Stop, Lose, vars, progressVars, AnyPick
    <2> QED
        BY <2>3, <2>4, <2>5
<1> QED
    BY <1>4, <1>5, <1>6, <1>7, <1>8, <1>9, <1>10, <1>11, <1>12, OtherSteps DEF AnyPick

\* What the proofs of this section rest on.
LEMMA TrackedAlways == Spec => [](DownloadInv /\ RoundInv /\ LateInv /\ TrackedInv)
<1>1. Init => RoundInv /\ LateInv /\ TrackedInv
    <2> SUFFICES ASSUME Init PROVE RoundInv /\ LateInv /\ TrackedInv
        OBVIOUS
    <2>1. RoundInv
        BY DEF Init, RoundInv
    <2>2. ASSUME NEW q \in Peer, NEW b \in Block
          PROVE  Entries(q, b) = 0 /\ ToCome(q, b) = 0 /\ Ready(q, b) = 0
        BY DEF Init, Entries, ToCome, Ready, FromCopy
    <2>3. LateInv
        BY <2>2 DEF LateInv, Accounted, Init
    <2>4. TrackedInv
        BY DEF TrackedInv, Init, ProgressInit
    <2> QED
        BY <2>1, <2>3, <2>4
<1>2. DownloadTypes /\ ProgressTypeOK => DownloadInv
    BY DEF DownloadInv
<1>3. Spec => []ProgressTypeOK
    BY TableImplemented, ProgressTypeCorrect, PTL
<1> QED
    BY <1>1, <1>2, <1>3, Init_Types, DownloadTypes_Step, Round_Step, Late_Step, Tracked_Step, PTL
       DEF Spec

\* A block that is being downloaded has an entry that can time out, whatever
\* is lost, duplicated or corrupted, if no request times out too early.
THEOREM NoneForgotten == Spec => []TrackedUnlessLate
<1>1. DownloadInv /\ TrackedInv => TrackedUnlessLate
    <2> SUFFICES ASSUME DownloadInv, TrackedInv, timeouts = 0, NEW b \in Block,
                        blockStatus[b] = "Downloading"
                 PROVE  \E q \in Peer : Entries(q, b) > 0
        BY DEF TrackedUnlessLate
    <2>1. PICK q \in Peer : Entries(q, b) > After(q, b)
        BY DEF TrackedInv
    <2>2. Entries(q, b) \in Nat /\ After(q, b) \in Nat
        BY CountTypes DEF DownloadInv
    <2> QED
        BY <2>1, <2>2
<1> QED
    BY <1>1, TrackedAlways, PTL

-----------------------------------------------------------------------------
(* What the chooser and the responder can rely on as long as no request    *)
(* times out that is answered, nothing is damaged, and nothing is lost     *)
(* either where several peers are asked.  A peer has a block on order at   *)
(* most once; a block that it has on order is not one of those from which  *)
(* the chooser still picks, and a block that the responder has counted     *)
(* never has to be fetched again.  So the table is exact, and the chooser  *)
(* finds the whole file good the first time it looks.                      *)

OnePeer == Cardinality(Peer) = 1
Calm == timeouts = 0 /\ corrupt = 0 /\ ~spilt /\ (lost = 0 \/ OnePeer)

\* The download has not been stopped, or its last round is not over.
Looping == running \/ pc \notin {"changeAll", "seed"}

HeldBlock(b) == blockStatus[b] \in Held
HeldPiece(p) == pieceStatus[p] \in Held

\* The blocks that a peer has not answered for.
Owed(q) == {b \in Block : Entries(q, b) > 0}

\* No peer is asked twice, and nothing times out that is not lost.
OneEach == \A q \in Peer, b \in Block : open[q][b] <= 1
NoneLost == lost = 0 => /\ \A q \in Peer, b \in Block : Entries(q, b) = ToCome(q, b) + Ready(q, b)
                        /\ expired = {}

\* Its window holds for what a peer owes and for what it is about to be asked.
WithinWindow ==
    /\ \A q \in Peer : Cardinality(Owed(q)) <= window[q]
    /\ pc = "pick" => Cardinality(Owed(cur)) + slots <= window[cur]
    /\ slots <= MaxWindow

\* The table counts what it holds.
TableExact ==
    /\ total = Size(Counted)
    /\ \A b \in Block : HeldPiece(PieceOf[b]) => HeldBlock(b)
    /\ rpc = "settle" => HeldPiece(PieceOf[rblock])

\* What is held is good, so that no piece is ever reset.
HeldIsGood ==
    /\ rpc # "idle" => disk[rblock] = "good"
    /\ Looping => \A b \in Block : HeldBlock(b) => disk[b] = "good"
    /\ Looping /\ rpc = "settle" => verdict
    /\ pc \notin {"scan", "reset"}
    /\ pc = "verify" \/ (running /\ pc \in {"finish", "changeAll", "seed"}) =>
          \A b \in Block : HeldBlock(b)

\* An Empty block is on order from nobody, and one that is held from nobody
\* but the peer whose answer is being handled, if there is but one.
OrdersMatch ==
    Looping => /\ \A b \in Block : blockStatus[b] = "Empty" => \A q \in Peer : open[q][b] = 0
               /\ OnePeer => \A q \in Peer, b \in Block :
                                 HeldBlock(b) => Entries(q, b) <= After(q, b)

\* What the chooser still picks from.
CopiesFresh ==
    /\ \A b \in snapDownloading : blockStatus[b] = "Empty" /\ pieceStatus[PieceOf[b]] # "Empty"
    /\ snapDownloading \cap snapEmpty = {}
    /\ \A b \in snapEmpty :
          /\ ~HeldBlock(b)
          /\ \A q \in Peer : /\ ToCome(q, b) = 0
                             /\ open[q][b] > 0 => <<q, b, "Empty">> \in picked

\* A piece that is announced, or about to be, is held.
ShownHeld ==
    Looping => /\ \A p \in announced : HeldPiece(p)
               /\ verdict /\ rpc = "credit" => HeldPiece(PieceOf[rblock])

CalmState == /\ Calm /\ OneEach /\ NoneLost /\ WithinWindow
             /\ TableExact /\ HeldIsGood /\ OrdersMatch /\ CopiesFresh /\ ShownHeld

\* What has been proved above, as the proofs of this section use it.
Known == DownloadInv /\ RoundInv /\ LateInv /\ NoPieceStuckDownloaded /\ WrittenInv /\ Counts

\* Where there is one peer, any two are the same.
LEMMA OnlyPeer ==
    ASSUME OnePeer, NEW q \in Peer, NEW r \in Peer
    PROVE  q = r
BY DownloadAssumption, FS_Singleton DEF OnePeer

\* A stopped download stays stopped, and seeding is the end.
LEMMA LoopingBefore ==
    ASSUME Known, [Next]_vars, Looping'
    PROVE  Looping
<1>1. running' => running
    BY WrittenStays DEF Known
<1>2. pc \in {"changeAll", "seed"} => pc' \in {"changeAll", "seed"}
    BY DEF Next, ChooserNext, ResponderNext, Check, VerifyFile, Scan, ResetDamaged, EndReset,
       BeginRound, Expire, CopyDownloading, CopyEmpty, ServePeer, Pick, EndPeer, Send,
       BecomeSeed, ChangeAllStatus, TestCompleted, Answer, CountBlock, SettlePiece, Credit,
       Stop, Lose, vars, chooserVars, ChooserAt
<1> QED
    BY <1>1, <1>2 DEF Looping

\* Only answers write to the disk and damage.
LEMMA DiskSteps ==
    ASSUME [Next]_vars, ~AnyAnswer
    PROVE  UNCHANGED <<disk, corrupt, spilt>>
BY DEF Next, ChooserNext, ResponderNext, Check, VerifyFile, Scan, ResetDamaged, EndReset,
       BeginRound, Expire, CopyDownloading, CopyEmpty, ServePeer, Pick, EndPeer, Send,
       BecomeSeed, ChangeAllStatus, TestCompleted, AnyAnswer, CountBlock, SettlePiece,
       Credit, Stop, Lose, vars, faultVars

\* Only these steps change the statuses and the total.
LEMMA TableSteps ==
    ASSUME [Next]_vars, ~Expire, ~AnyPick, ~CountBlock, ~SettlePiece, ~ResetDamaged,
           ~ChangeAllStatus
    PROVE  UNCHANGED <<pieceStatus, blockStatus, total>>
BY DEF Next, ChooserNext, ResponderNext, Check, VerifyFile, Scan, EndReset,
       BeginRound, CopyDownloading, CopyEmpty, ServePeer, EndPeer, Send, BecomeSeed,
       TestCompleted, CheckCompleted, Answer, Credit, Stop, Lose, vars, progressVars, AnyPick

\* Only a loss is counted as one.
LEMMA LostSteps ==
    ASSUME DownloadTypes, [Next]_vars
    PROVE  (AnyLose => lost' # 0) /\ (~AnyLose => lost' = lost) /\ (lost' = 0 => lost = 0)
<1>1. lost \in Nat
    BY DownloadAssumption DEF DownloadTypes, HandlerTypeOK
<1>2. AnyLose => lost' = lost + 1
    BY DEF AnyLose, Lose
<1>3. ~AnyLose => lost' = lost
    BY DEF Next, ChooserNext, ResponderNext, Check, VerifyFile, Scan, ResetDamaged, EndReset,
       BeginRound, Expire, CopyDownloading, CopyEmpty, ServePeer, Pick, EndPeer, Send,
       BecomeSeed, ChangeAllStatus, TestCompleted, AnyAnswer, Answer, CountBlock, SettlePiece,
       Credit, Stop, AnyLose, vars, faultVars
<1> QED
    BY <1>1, <1>2, <1>3

\* A first fault is not forgotten.
LEMMA CalmBefore ==
    ASSUME Known, [Next]_vars, Calm'
    PROVE  Calm
<1>1. timeouts = 0
    BY TimeoutsGrow DEF Known, DownloadInv, Calm
<1>2. OnePeer' <=> OnePeer
    BY DEF OnePeer
<1>3. lost = 0 \/ OnePeer
    BY <1>2, LostSteps DEF Calm, Known, DownloadInv
<1>4. CASE AnyAnswer
    <2>1. PICK q \in Peer, b \in Block, content \in {"good", "bad"} : Answer(q, b, content)
        BY <1>4 DEF AnyAnswer
    <2>2. corrupt \in Nat
        BY DownloadAssumption DEF Known, DownloadInv, DownloadTypes, HandlerTypeOK
    <2>3. corrupt = 0
        BY <2>1, <2>2 DEF Answer, Calm
    <2>4. spilt' = (spilt \/ SpiltOn(q, b) # {}) /\ ~spilt'
        BY <2>1 DEF Answer, Calm
    <2>5. ~spilt
        BY <2>4, Zenon
    <2> QED
        BY <1>1, <1>3, <2>3, <2>5 DEF Calm
<1>5. CASE ~AnyAnswer
    BY <1>1, <1>3, <1>5, DiskSteps DEF Calm
<1> QED
    BY <1>4, <1>5

-----------------------------------------------------------------------------
(* What the steps find in a calm state.                                    *)

\* A block is picked that is neither on order from the peer nor held.
LEMMA Pick_Finds ==
    ASSUME Known, CalmState, NEW b \in Block, Pick(b)
    PROVE  /\ cur \in Peer /\ got = {} /\ Looping
           /\ ~HeldBlock(b) /\ ~HeldPiece(PieceOf[b])
           /\ open[cur][b] = 0 /\ Entries(cur, b) = 0 /\ ToCome(cur, b) = 0
           /\ \A c \in CopyName : <<cur, b, c>> \notin picked
<1>1. pc = "pick" /\ cur \in Peer /\ got = {} /\ Looping /\ b \in Eligible
    BY DEF Pick, ChooserAt, Known, DownloadInv, DownloadTypes, ThreadsOK, EntriesOK, Choosing,
       Looping
<1>2. b \in snapDownloading \/ (b \in snapEmpty /\ <<cur, b, "Empty">> \notin picked)
    BY <1>1 DEF Eligible, Copy, FromDownloading, FromEmpty
<1>3. ~HeldBlock(b)
    BY <1>2 DEF CalmState, CopiesFresh, HeldBlock, Held
<1>4. ~HeldPiece(PieceOf[b])
    BY <1>3 DEF CalmState, TableExact
<1>5. open[cur][b] = 0
    <2>1. CASE b \in snapDownloading
        BY <1>1, <2>1 DEF CalmState, CopiesFresh, OrdersMatch
    <2>2. CASE b \in snapEmpty /\ <<cur, b, "Empty">> \notin picked
        <3>1. ~(open[cur][b] > 0)
            BY <1>1, <2>2 DEF CalmState, CopiesFresh
        <3>2. open[cur][b] \in Nat
            BY <1>1 DEF Known, DownloadInv, DownloadTypes, RequestTypeOK
        <3> QED
            BY <3>1, <3>2
    <2> QED
        BY <1>2, <2>1, <2>2
<1>6. Entries(cur, b) = 0
    <2>1. <<cur, b>> \notin got
        BY <1>1
    <2>2. Entries(cur, b) = open[cur][b] - 0
        BY <2>1 DEF Entries
    <2> QED
        BY <1>5, <2>2
<1>7. ToCome(cur, b) = 0 /\ Ready(cur, b) = 0
    <2>1. ToCome(cur, b) \in Nat /\ Ready(cur, b) \in 0..2
        BY <1>1 DEF Known, Counts
    <2>2. ToCome(cur, b) + Ready(cur, b) <= 0
        BY <1>1, <1>6 DEF Known, LateInv, Accounted, CalmState, Calm
    <2> QED
        BY <2>1, <2>2
<1>8. \A c \in CopyName : <<cur, b, c>> \notin picked
    BY <1>7 DEF Ready, FromCopy, CopyName
<1> QED
    BY <1>1, <1>3, <1>4, <1>5, <1>6, <1>7, <1>8

\* An answer that comes, or is being handled, has its entry.
LEMMA Order_Open ==
    ASSUME Known, CalmState, NEW q \in Peer, NEW b \in Block, ToCome(q, b) > 0
    PROVE  /\ open[q][b] = 1 /\ <<q, b>> \notin got /\ Entries(q, b) = 1
           /\ Looping => blockStatus[b] # "Empty"
           /\ b \notin snapDownloading /\ b \notin snapEmpty
<1>1. open[q][b] \in Nat /\ open[q][b] <= 1
    BY DEF Known, DownloadInv, DownloadTypes, RequestTypeOK, CalmState, OneEach
<1>2. Entries(q, b) > 0
    <2>1. ToCome(q, b) \in Nat /\ Ready(q, b) \in 0..2 /\ Entries(q, b) \in Nat
        BY DEF Known, Counts
    <2>2. ToCome(q, b) + Ready(q, b) <= Entries(q, b)
        BY DEF Known, LateInv, Accounted, CalmState, Calm
    <2> QED
        BY <2>1, <2>2
<1>3. open[q][b] = 1 /\ <<q, b>> \notin got /\ Entries(q, b) = 1
    BY <1>1, <1>2 DEF Entries
<1>4. Looping => blockStatus[b] # "Empty"
    BY <1>3 DEF CalmState, OrdersMatch
<1>5. b \notin snapDownloading
    <2>1. snapDownloading # {} => Looping
        BY DEF Known, RoundInv, Looping
    <2> QED
        BY <1>4, <2>1 DEF CalmState, CopiesFresh
<1>6. b \notin snapEmpty
    <2>1. b \in snapEmpty => ToCome(q, b) = 0
        BY DEF CalmState, CopiesFresh
    <2> QED
        BY <2>1
<1> QED
    BY <1>3, <1>4, <1>5, <1>6

\* The responder handles an answer that is on order.
LEMMA Handled_Open ==
    ASSUME Known, CalmState, rpc # "idle"
    PROVE  rpeer \in Peer /\ rblock \in Block /\ PieceOf[rblock] \in Piece
           /\ ToCome(rpeer, rblock) > 0
<1>1. rpeer \in Peer /\ rblock \in Block
    BY DEF Known, DownloadInv, DownloadTypes, ThreadsOK
<1>2. asked[rpeer][rblock] \in Nat
    BY <1>1 DEF Known, DownloadInv, DownloadTypes, HandlerTypeOK
<1>3. ToCome(rpeer, rblock) = asked[rpeer][rblock] + 1
    BY DEF ToCome
<1> QED
    BY <1>1, <1>2, <1>3, LayoutAssumption

\* What times out is on order from the only peer, and not held.
LEMMA Expire_Finds ==
    ASSUME Known, CalmState, NEW e \in expired, pc = "expire"
    PROVE  /\ OnePeer /\ lost # 0 /\ e[1] \in Peer /\ e[2] \in Block
           /\ open[e[1]][e[2]] = 1
           /\ ~HeldBlock(e[2]) /\ ~HeldPiece(PieceOf[e[2]])
<1>1. lost # 0 /\ OnePeer
    BY DEF CalmState, NoneLost, Calm
<1>2. e[1] \in Peer /\ e[2] \in Block /\ e[3] \in Nat \ {0} /\ e[3] <= open[e[1]][e[2]]
    BY DEF Known, DownloadInv, DownloadTypes, ChooserTypeOK, EntriesOK
<1>3. PICK q \in Peer, b \in Block : q = e[1] /\ b = e[2]
    BY <1>2
<1>4. open[q][b] = 1 /\ e[3] = 1
    <2>1. open[q][b] \in Nat /\ open[q][b] <= 1
        BY DEF Known, DownloadInv, DownloadTypes, RequestTypeOK, CalmState, OneEach
    <2> QED
        BY <1>2, <1>3, <2>1
<1>5. ToCome(q, b) = 0
    <2>1. ToCome(q, b) < e[3] /\ ToCome(q, b) \in Nat
        BY <1>3 DEF Known, LateInv, Counts, CalmState, Calm
    <2> QED
        BY <1>4, <2>1
<1>6. After(q, b) = 0
    <2>1. asked[q][b] \in Nat
        BY DEF Known, DownloadInv, DownloadTypes, HandlerTypeOK
    <2> QED
        BY <1>5, <2>1 DEF ToCome, After
<1>7. Entries(q, b) = 1
    BY <1>4 DEF Entries, Known, DownloadInv, DownloadTypes, EntriesOK, Choosing
<1>8. ~HeldBlock(b)
    BY <1>1, <1>6, <1>7 DEF CalmState, OrdersMatch, Looping
<1>9. ~HeldPiece(PieceOf[b])
    BY <1>8 DEF CalmState, TableExact
<1> QED
    BY <1>1, <1>3, <1>4, <1>8, <1>9

\* A block is counted that is good, and if its piece becomes Downloaded by it,
\* all blocks of the piece are.
LEMMA CountBlock_Finds ==
    ASSUME Known, CalmState, CountBlock
    PROVE  /\ rpc = "count" /\ rpeer' = rpeer /\ rblock' = rblock
           /\ rblock \in Block /\ PieceOf[rblock] \in Piece
           /\ disk' = disk /\ disk[rblock] = "good"
           /\ blockStatus' = [blockStatus EXCEPT ![rblock] = "Downloaded"]
           /\ \/ /\ \A c \in BlocksOf(PieceOf[rblock]) \ {rblock} : blockStatus[c] = "Downloaded"
                 /\ pieceStatus' = [pieceStatus EXCEPT ![PieceOf[rblock]] = "Downloaded"]
                 /\ rpc' = "settle"
                 /\ verdict' <=> PieceGood(PieceOf[rblock])
              \/ /\ pieceStatus' = pieceStatus /\ rpc' = "credit" /\ verdict' = FALSE
<1>1. rpc = "count" /\ rpeer' = rpeer /\ rblock' = rblock /\ disk' = disk
    BY DEF CountBlock
<1>2. rblock \in Block /\ PieceOf[rblock] \in Piece
    BY <1>1, Handled_Open
<1>3. disk[rblock] = "good"
    BY <1>1 DEF CalmState, HeldIsGood
<1>4. blockStatus' = [blockStatus EXCEPT ![rblock] = "Downloaded"]
    BY DEF CountBlock, DownloadedBlock
<1>5. pieceStatus \in [Piece -> Status]
    BY DEF Known, DownloadInv, ProgressTypeOK
<1>6. CASE \A c \in BlocksOf(PieceOf[rblock]) \ {rblock} : blockStatus[c] = "Downloaded"
    <2>1. pieceStatus' = [pieceStatus EXCEPT ![PieceOf[rblock]] = "Downloaded"]
        BY <1>6 DEF CountBlock, DownloadedBlock
    <2>2. pieceStatus'[PieceOf[rblock]] = "Downloaded"
        BY <1>2, <1>5, <2>1
    <2>3. rpc' = "settle"
        BY <2>2 DEF CountBlock
    <2>4. verdict' <=> PieceGood(PieceOf[rblock])
        <3>1. verdict' = (pieceStatus'[PieceOf[rblock]] = "Downloaded" /\ PieceGood(PieceOf[rblock]))
            BY DEF CountBlock
        <3> HIDE DEF PieceGood
        <3> QED
            BY <2>2, <3>1, Zenon
    <2> QED
        BY <1>1, <1>2, <1>3, <1>4, <1>6, <2>1, <2>3, <2>4
<1>7. CASE ~\A c \in BlocksOf(PieceOf[rblock]) \ {rblock} : blockStatus[c] = "Downloaded"
    <2>1. pieceStatus' = pieceStatus
        BY <1>7 DEF CountBlock, DownloadedBlock
    <2>2. pieceStatus[PieceOf[rblock]] # "Downloaded"
        BY <1>1, <1>2 DEF Known, NoPieceStuckDownloaded
    <2>3. rpc' = "credit" /\ verdict' = FALSE
        BY <2>1, <2>2 DEF CountBlock
    <2> QED
        BY <1>1, <1>2, <1>3, <1>4, <2>1, <2>3
<1> QED
    BY <1>6, <1>7

\* The piece that is settled has all its blocks.
LEMMA Settle_Finds ==
    ASSUME Known, CalmState, rpc = "settle"
    PROVE  /\ rblock \in Block /\ PieceOf[rblock] \in Piece /\ HeldPiece(PieceOf[rblock])
           /\ \A b \in Block : PieceOf[b] = PieceOf[rblock] => HeldBlock(b)
<1>1. rblock \in Block /\ PieceOf[rblock] \in Piece
    BY Handled_Open
<1>2. HeldPiece(PieceOf[rblock])
    BY DEF CalmState, TableExact
<1>3. \A b \in Block : HeldPiece(PieceOf[b]) => HeldBlock(b)
    BY DEF CalmState, TableExact
<1> QED
    BY <1>1, <1>2, <1>3

\* An answer comes whole, for a block on order, and damages no other.
LEMMA Answer_Finds ==
    ASSUME Known, CalmState, NEW q \in Peer, NEW b \in Block, NEW content \in {"good", "bad"},
           Answer(q, b, content), Calm'
    PROVE  /\ content = "good"
           /\ disk' = [c \in Block |-> IF c = b THEN "good" ELSE disk[c]]
           /\ ToCome(q, b) > 0
<1>1. corrupt \in Nat /\ disk \in [Block -> {"none", "good", "bad"}] /\ asked[q][b] \in Nat
    BY DownloadAssumption DEF Known, DownloadInv, DownloadTypes, HandlerTypeOK
<1>2. content = "good"
    BY <1>1 DEF Answer, Calm
<1>3. SpiltOn(q, b) = {}
    <2>1. spilt' = (spilt \/ SpiltOn(q, b) # {}) /\ ~spilt'
        BY DEF Answer, Calm
    <2> QED
        BY <2>1, Zenon
<1>4. disk' = [c \in Block |-> IF c = b THEN "good" ELSE disk[c]]
    BY <1>2, <1>3 DEF Answer
<1>5. ToCome(q, b) = asked[q][b] + 0 /\ asked[q][b] > 0
    BY DEF Answer, ToCome
<1> QED
    BY <1>1, <1>2, <1>4, <1>5

\* Crediting an answer ends what the peer owes for the block.
LEMMA Credit_Finds ==
    ASSUME Known, CalmState, Credit
    PROVE  /\ rpeer \in Peer /\ rblock \in Block /\ rpc = "credit" /\ rpc' = "idle"
           /\ open[rpeer][rblock] = 1 /\ <<rpeer, rblock>> \notin got
           /\ got' = got \cup {<<rpeer, rblock>>}
           /\ ~Choosing /\ pc' = pc
           /\ \E w \in {window[rpeer] + d : d \in {-1, 0, 1}} \cap (MinWindow..MaxWindow) :
                 window' = [window EXCEPT ![rpeer] = w]
           /\ UNCHANGED <<open, asked, picked, expired, slots, cur>>
<1>1. rpc = "credit" /\ rpc' = "idle" /\ ~Choosing
    BY DEF Credit
<1>2. rpeer \in Peer /\ rblock \in Block /\ ToCome(rpeer, rblock) > 0
    BY <1>1, Handled_Open
<1>3. open[rpeer][rblock] = 1 /\ <<rpeer, rblock>> \notin got
    BY <1>2, Order_Open
<1>4. open[rpeer][rblock] > 0
    BY <1>3
<1>5. UNCHANGED <<open, asked, picked, expired, slots, cur, pc>>
    BY DEF Credit, chooserVars
<1> QED
    BY <1>1, <1>2, <1>3, <1>4, <1>5 DEF Credit

-----------------------------------------------------------------------------
(* How the steps change the counts.                                        *)

\* The entries are changed by the steps of a round and by credits.
LEMMA OpenSteps ==
    ASSUME [Next]_vars, ~AnyBegin, ~Expire, ~AnyPick
    PROVE  open' = open /\ (Credit \/ got' = got)
BY DEF Next, ChooserNext, ResponderNext, Check, VerifyFile, Scan, ResetDamaged, EndReset,
       CopyDownloading, CopyEmpty, ServePeer, EndPeer, Send, BecomeSeed, ChangeAllStatus,
       TestCompleted, Answer, CountBlock, SettlePiece, Credit, Stop, Lose, vars, requestVars,
       AnyBegin, AnyPick

\* Rounds begin with entries as they are.
LEMMA Begin_Counts ==
    ASSUME DownloadTypes', AnyBegin
    PROVE  /\ \A q \in Peer, b \in Block :
                  /\ open'[q][b] = Entries(q, b)
                  /\ Entries(q, b)' = Entries(q, b) /\ ToCome(q, b)' = ToCome(q, b)
                  /\ Ready(q, b)' = Ready(q, b) /\ After(q, b)' = After(q, b)
           /\ got' = {}
<1>1. PICK E \in SUBSET Unreceived : BeginRound(E)
    BY DEF AnyBegin
<1>2. got' = {} /\ \A q \in Peer, b \in Block : open'[q][b] = Entries(q, b)
    BY <1>1 DEF BeginRound
<1>3. \A q \in Peer, b \in Block : Entries(q, b)' = Entries(q, b)
    BY <1>2, NoneReceivedNext DEF NoneReceived
<1>4. UNCHANGED <<asked, rpc, rpeer, rblock, picked>>
    BY <1>1 DEF BeginRound, responderVars
<1>5. \A q, b : /\ ToCome(q, b)' = ToCome(q, b) /\ Ready(q, b)' = Ready(q, b)
                /\ After(q, b)' = After(q, b)
    BY <1>4 DEF ToCome, Ready, FromCopy, After
<1> QED
    BY <1>2, <1>3, <1>5

\* The entry that times out is the only one of the only peer.
LEMMA Expire_Counts ==
    ASSUME Known, CalmState, DownloadTypes', Expire,
           NEW e \in expired, open' = [open EXCEPT ![e[1]][e[2]] = @ - 1]
    PROVE  \A q \in Peer, b \in Block :
               /\ open'[q][b] = IF b = e[2] THEN 0 ELSE open[q][b]
               /\ Entries(q, b)' = IF b = e[2] THEN 0 ELSE Entries(q, b)
               /\ ToCome(q, b)' = ToCome(q, b) /\ After(q, b)' = After(q, b)
<1>1. /\ OnePeer /\ e[1] \in Peer /\ e[2] \in Block /\ open[e[1]][e[2]] = 1
    BY Expire_Finds DEF Expire, ChooserAt
<1>2. \A q \in Peer : q = e[1]
    BY <1>1, OnlyPeer
<1>3. got = {} /\ got' = {} /\ UNCHANGED <<asked, rpc, rpeer, rblock>>
    BY DEF Expire, ChooserAt, Known, DownloadInv, DownloadTypes, EntriesOK, Choosing,
       responderVars
<1>4. open \in [Peer -> [Block -> Nat]]
    BY DEF Known, DownloadInv, DownloadTypes, RequestTypeOK
<1>5. ASSUME NEW q \in Peer, NEW b \in Block
      PROVE  open'[q][b] = IF b = e[2] THEN 0 ELSE open[q][b]
    BY <1>1, <1>2, <1>4
<1>6. ASSUME NEW q \in Peer, NEW b \in Block
      PROVE  Entries(q, b) = open[q][b] /\ Entries(q, b)' = open'[q][b]
    BY <1>3, NoneReceivedType, NoneReceivedNext DEF Known, DownloadInv, NoneReceived
<1>7. \A q, b : ToCome(q, b)' = ToCome(q, b) /\ After(q, b)' = After(q, b)
    BY <1>3 DEF ToCome, After
<1> QED
    BY <1>5, <1>6, <1>7

\* A block that is picked is one more entry, and one more request.
LEMMA Pick_Counts ==
    ASSUME Known, CalmState, DownloadTypes', NEW b \in Block, Pick(b)
    PROVE  \A q \in Peer, c \in Block :
               /\ open'[q][c] = IF q = cur /\ c = b THEN 1 ELSE open[q][c]
               /\ Entries(q, c)' = IF q = cur /\ c = b THEN 1 ELSE Entries(q, c)
               /\ Ready(q, c)' = IF q = cur /\ c = b THEN 1 ELSE Ready(q, c)
               /\ ToCome(q, c)' = ToCome(q, c) /\ After(q, c)' = After(q, c)
<1>1. /\ cur \in Peer /\ got = {} /\ open[cur][b] = 0
      /\ \A c \in CopyName : <<cur, b, c>> \notin picked
    BY Pick_Finds
<1>2. /\ open' = [open EXCEPT ![cur][b] = @ + 1] /\ got' = {}
      /\ picked' = picked \cup {<<cur, b, Copy>>} /\ UNCHANGED <<asked, rpc, rpeer, rblock>>
    BY <1>1 DEF Pick, responderVars
<1>3. open \in [Peer -> [Block -> Nat]]
    BY DEF Known, DownloadInv, DownloadTypes, RequestTypeOK
<1>4. ASSUME NEW q \in Peer, NEW c \in Block
      PROVE  open'[q][c] = IF q = cur /\ c = b THEN 1 ELSE open[q][c]
    BY <1>1, <1>2, <1>3
<1>5. ASSUME NEW q \in Peer, NEW c \in Block
      PROVE  Entries(q, c) = open[q][c] /\ Entries(q, c)' = open'[q][c]
    BY <1>1, <1>2, NoneReceivedType, NoneReceivedNext DEF Known, DownloadInv, NoneReceived
<1>6. \A q, c : ToCome(q, c)' = ToCome(q, c) /\ After(q, c)' = After(q, c)
    BY <1>2 DEF ToCome, After
<1>7. ASSUME NEW q \in Peer, NEW c \in Block
      PROVE  Ready(q, c)' = IF q = cur /\ c = b THEN 1 ELSE Ready(q, c)
    <2>1. CASE q = cur /\ c = b
        <3>1. Copy \in CopyName
            BY DEF Copy, CopyName
        <3>2. \A d \in CopyName : <<q, c, d>> \in picked' <=> d = Copy
            BY <1>1, <1>2, <2>1
        <3> HIDE DEF Copy
        <3> QED
            BY <2>1, <3>1, <3>2 DEF Ready, FromCopy, CopyName
    <2>2. CASE ~(q = cur /\ c = b)
        <3>1. \A d : <<q, c, d>> \in picked' <=> <<q, c, d>> \in picked
            BY <1>2, <2>2
        <3> QED
            BY <2>2, <3>1 DEF Ready, FromCopy
    <2> QED
        BY <2>1, <2>2
<1> QED
    BY <1>4, <1>5, <1>6, <1>7

\* What is sent may be answered from now on.
LEMMA Send_Counts ==
    ASSUME Known, Send
    PROVE  \A q \in Peer, b \in Block :
               /\ Entries(q, b)' = Entries(q, b) /\ After(q, b)' = After(q, b)
               /\ Ready(q, b)' = 0 /\ ToCome(q, b)' = ToCome(q, b) + Ready(q, b)
<1>1. picked' = {} /\ UNCHANGED <<open, got, rpc, rpeer, rblock>>
    BY DEF Send, requestVars, responderVars
<1>2. asked' = [q \in Peer |-> [b \in Block |-> asked[q][b] + Ready(q, b)]]
    BY ReadySent DEF Send
<1>3. ASSUME NEW q \in Peer, NEW b \in Block
      PROVE  ToCome(q, b)' = ToCome(q, b) + Ready(q, b)
    <2>1. asked[q][b] \in Nat /\ Ready(q, b) \in Nat /\ asked'[q][b] = asked[q][b] + Ready(q, b)
        BY <1>2 DEF Known, Counts, DownloadInv, DownloadTypes, HandlerTypeOK
    <2> QED
        BY <1>1, <2>1 DEF ToCome
<1>4. \A q, b : Ready(q, b)' = 0 /\ Entries(q, b)' = Entries(q, b) /\ After(q, b)' = After(q, b)
    BY <1>1 DEF Ready, FromCopy, Entries, After
<1> QED
    BY <1>3, <1>4

\* An answer that is taken is still to be credited.
LEMMA Answer_Counts ==
    ASSUME Known, NEW q \in Peer, NEW b \in Block, NEW content, Answer(q, b, content)
    PROVE  \A r \in Peer, c \in Block :
               /\ Entries(r, c)' = Entries(r, c) /\ ToCome(r, c)' = ToCome(r, c)
               /\ Ready(r, c)' = Ready(r, c) /\ After(r, c)' = After(r, c)
<1>1. /\ rpc = "idle" /\ asked' = [asked EXCEPT ![q][b] = @ - 1]
      /\ rpc' = "count" /\ rpeer' = q /\ rblock' = b
      /\ UNCHANGED <<picked, open, got>>
    BY DEF Answer, chooserVars, requestVars
<1>2. asked \in [Peer -> [Block -> Nat]]
    BY DEF Known, DownloadInv, DownloadTypes, HandlerTypeOK
<1>3. ASSUME NEW r \in Peer, NEW c \in Block PROVE ToCome(r, c)' = ToCome(r, c)
    <2>1. asked[r][c] \in Nat /\ asked'[r][c] = IF r = q /\ c = b THEN asked[r][c] - 1 ELSE asked[r][c]
        BY <1>1, <1>2
    <2> QED
        BY <1>1, <2>1 DEF ToCome
<1>4. \A r, c : /\ Entries(r, c)' = Entries(r, c) /\ Ready(r, c)' = Ready(r, c)
                /\ After(r, c)' = After(r, c)
    BY <1>1 DEF Entries, Ready, FromCopy, After
<1> QED
    BY <1>3, <1>4

\* A request that is lost will not be answered.
LEMMA Lose_Counts ==
    ASSUME Known, DownloadTypes', AnyLose
    PROVE  \A r \in Peer, c \in Block :
               /\ Entries(r, c)' = Entries(r, c) /\ ToCome(r, c)' <= ToCome(r, c)
               /\ Ready(r, c)' = Ready(r, c) /\ After(r, c)' = After(r, c)
               /\ ToCome(r, c) = 0 => ToCome(r, c)' = 0
<1>1. PICK q \in Peer, b \in Block : Lose(q, b)
    BY DEF AnyLose
<1>2. /\ asked' = [asked EXCEPT ![q][b] = @ - 1]
      /\ UNCHANGED <<picked, open, got, rpc, rpeer, rblock>>
    BY <1>1 DEF Lose, chooserVars, requestVars, responderVars
<1>3. asked \in [Peer -> [Block -> Nat]]
    BY DEF Known, DownloadInv, DownloadTypes, HandlerTypeOK
<1>4. ASSUME NEW r \in Peer, NEW c \in Block PROVE ToCome(r, c)' <= ToCome(r, c)
    <2>1. asked[r][c] \in Nat /\ asked'[r][c] = IF r = q /\ c = b THEN asked[r][c] - 1 ELSE asked[r][c]
        BY <1>2, <1>3
    <2> QED
        BY <1>2, <2>1 DEF ToCome
<1>5. \A r, c : /\ Entries(r, c)' = Entries(r, c) /\ Ready(r, c)' = Ready(r, c)
                /\ After(r, c)' = After(r, c)
    BY <1>2 DEF Entries, Ready, FromCopy, After
<1>6. Counts /\ Counts'
    BY CountTypesNext DEF Known
<1>7. ASSUME NEW r \in Peer, NEW c \in Block, ToCome(r, c) = 0 PROVE ToCome(r, c)' = 0
    <2>1. ToCome(r, c)' \in Nat
        BY <1>6 DEF Counts
    <2> QED
        BY <1>4, <1>7, <2>1
<1> QED
    BY <1>4, <1>5, <1>7

\* An answer being handled is counted once, before it is credited.
LEMMA Handle_Counts ==
    ASSUME CountBlock \/ SettlePiece
    PROVE  \A q, b :
               /\ Entries(q, b)' = Entries(q, b) /\ ToCome(q, b)' = ToCome(q, b)
               /\ Ready(q, b)' = Ready(q, b)
               /\ After(q, b)' = IF rpeer = q /\ rblock = b THEN 1 ELSE 0
<1>1. /\ UNCHANGED <<picked, open, got, asked, rpeer, rblock>>
      /\ rpc # "idle" /\ rpc' \in {"settle", "credit"}
    BY DEF CountBlock, SettlePiece, chooserVars, requestVars
<1> QED
    BY <1>1 DEF Entries, ToCome, Ready, FromCopy, After

\* What is credited is no longer owed.
LEMMA Credit_Counts ==
    ASSUME Known, CalmState, Credit
    PROVE  \A q \in Peer, b \in Block :
               /\ Entries(q, b) = 1 \/ ~(q = rpeer /\ b = rblock)
               /\ Entries(q, b)' = IF q = rpeer /\ b = rblock THEN 0 ELSE Entries(q, b)
               /\ ToCome(q, b)' = ToCome(q, b) - IF q = rpeer /\ b = rblock THEN 1 ELSE 0
               /\ Ready(q, b)' = Ready(q, b) /\ After(q, b)' = 0
<1>1. /\ rpc = "credit" /\ rpc' = "idle" /\ open[rpeer][rblock] = 1
      /\ <<rpeer, rblock>> \notin got /\ got' = got \cup {<<rpeer, rblock>>}
      /\ UNCHANGED <<open, asked, picked>>
    BY Credit_Finds
<1>2. \A q, b : Ready(q, b)' = Ready(q, b) /\ After(q, b)' = 0
    BY <1>1 DEF Ready, FromCopy, After
<1>3. ASSUME NEW q \in Peer, NEW b \in Block
      PROVE  ToCome(q, b)' = ToCome(q, b) - IF q = rpeer /\ b = rblock THEN 1 ELSE 0
    <2>1. asked[q][b] \in Nat
        BY DEF Known, DownloadInv, DownloadTypes, HandlerTypeOK
    <2>2. ToCome(q, b) = asked[q][b] + IF q = rpeer /\ b = rblock THEN 1 ELSE 0
        BY <1>1 DEF ToCome
    <2>3. ToCome(q, b)' = asked[q][b] + 0
        BY <1>1 DEF ToCome
    <2> QED
        BY <2>1, <2>2, <2>3
<1>4. ASSUME NEW q \in Peer, NEW b \in Block, ~(q = rpeer /\ b = rblock)
      PROVE  Entries(q, b)' = Entries(q, b)
    <2>1. <<q, b>> \in got' <=> <<q, b>> \in got
        BY <1>1, <1>4
    <2> QED
        BY <1>1, <2>1 DEF Entries
<1>5. ASSUME NEW q \in Peer, NEW b \in Block, q = rpeer /\ b = rblock
      PROVE  Entries(q, b)' = 0 /\ Entries(q, b) = 1
    <2>1. <<q, b>> \in got' /\ <<q, b>> \notin got /\ open[q][b] = 1 /\ open' = open
        BY <1>1, <1>5
    <2>2. Entries(q, b)' = 1 - 1 /\ Entries(q, b) = 1 - 0
        BY <2>1 DEF Entries
    <2> QED
        BY <2>2
<1> QED
    BY <1>2, <1>3, <1>4, <1>5

\* Other steps leave them alone.
LEMMA Same_Counts ==
    ASSUME UNCHANGED requestsAndAnswers
    PROVE  \A q, b : /\ Entries(q, b)' = Entries(q, b) /\ ToCome(q, b)' = ToCome(q, b)
                     /\ Ready(q, b)' = Ready(q, b) /\ After(q, b)' = After(q, b)
BY DEF requestsAndAnswers, Entries, ToCome, Ready, FromCopy, After

-----------------------------------------------------------------------------
(* A calm state stays calm.                                                *)

\* No peer is asked for a block that it has on order.
LEMMA OneEach_Step ==
    ASSUME Known, CalmState, [Next]_vars, DownloadTypes'
    PROVE  OneEach'
<1> SUFFICES ASSUME NEW q \in Peer, NEW b \in Block PROVE open'[q][b] <= 1
    BY DEF OneEach
<1>1. open[q][b] <= 1 /\ open[q][b] \in Nat
    BY DEF CalmState, OneEach, Known, DownloadInv, DownloadTypes, RequestTypeOK
<1>2. CASE AnyBegin
    <2>1. open'[q][b] = Entries(q, b)
        BY <1>2, Begin_Counts
    <2>2. Entries(q, b) <= open[q][b] /\ Entries(q, b) \in Nat
        BY <1>1 DEF Entries, Known, Counts
    <2> QED
        BY <1>1, <2>1, <2>2
<1>3. CASE Expire
    <2>1. PICK e \in expired : open' = [open EXCEPT ![e[1]][e[2]] = @ - 1]
        BY <1>3 DEF Expire
    <2> QED
        BY <1>1, <1>3, <2>1, Expire_Counts
<1>4. CASE AnyPick
    BY <1>1, <1>4, Pick_Counts DEF AnyPick
<1>5. CASE open' = open
    BY <1>1, <1>5
<1> QED
    BY <1>2, <1>3, <1>4, <1>5, OpenSteps

\* Every entry has its answer, and none times out, until a request is lost.
LEMMA NoneLost_Step ==
    ASSUME Known, CalmState, [Next]_vars, DownloadTypes', timeouts' = 0
    PROVE  NoneLost'
<1> SUFFICES ASSUME lost' = 0
             PROVE  /\ \A q \in Peer, b \in Block : Entries(q, b)' = ToCome(q, b)' + Ready(q, b)'
                    /\ expired' = {}
    BY DEF NoneLost
<1>1. lost = 0 /\ ~AnyLose
    BY LostSteps DEF Known, DownloadInv
<1>2. expired = {} /\ \A q \in Peer, b \in Block : Entries(q, b) = ToCome(q, b) + Ready(q, b)
    BY <1>1 DEF CalmState, NoneLost
<1>3. ASSUME NEW q \in Peer, NEW b \in Block
      PROVE  Entries(q, b) \in Nat /\ ToCome(q, b) \in Nat /\ Ready(q, b) \in Nat
    BY DEF Known, Counts
<1>4. CASE AnyBegin
    <2>1. PICK E \in SUBSET Unreceived : BeginRound(E)
        BY <1>4 DEF AnyBegin
    <2>2. IsFiniteSet(E \cap Answerable)
        BY UnreceivedFinite, FS_Subset DEF Known, DownloadInv, DownloadTypes
    <2>3. Cardinality(E \cap Answerable) = 0
        <3>1. Cardinality(E \cap Answerable) \in Nat /\ timeouts = 0
            BY <2>2, FS_CardinalityType DEF CalmState, Calm
        <3>2. timeouts' = timeouts + Cardinality(E \cap Answerable)
            BY <2>1 DEF BeginRound
        <3> QED
            BY <3>1, <3>2
    <2>4. E \cap Answerable = {}
        BY <2>2, <2>3, FS_EmptySet
    <2>5. ASSUME NEW e \in E PROVE FALSE
        <3>1. e \in Unreceived /\ e \notin Answerable
            BY <2>4
        <3>2. e[1] \in Peer /\ e[2] \in Block /\ e[3] <= Entries(e[1], e[2])
            BY <3>1, UnreceivedType DEF Known, DownloadInv, DownloadTypes
        <3>3. Ready(e[1], e[2]) = 0
            <4>1. picked = {}
                BY <2>1 DEF BeginRound, ChooserAt, Known, RoundInv
            <4> QED
                BY <4>1 DEF Ready, FromCopy
        <3>4. e[3] <= ToCome(e[1], e[2])
            BY <1>2, <1>3, <3>2, <3>3
        <3> QED
            BY <3>1, <3>4 DEF Answerable
    <2>6. expired' = {}
        BY <2>1, <2>5 DEF BeginRound
    <2> QED
        BY <1>2, <1>4, <2>6, Begin_Counts
<1>5. CASE AnyPick
    <2>1. PICK b \in Block : Pick(b)
        BY <1>5 DEF AnyPick
    <2>2. expired' = {}
        BY <1>2, <2>1 DEF Pick
    <2>3. cur \in Peer /\ Entries(cur, b) = 0 /\ ToCome(cur, b) = 0
        BY <2>1, Pick_Finds
    <2>4. ASSUME NEW q \in Peer, NEW c \in Block
          PROVE  Entries(q, c)' = ToCome(q, c)' + Ready(q, c)'
        <3>1. CASE q = cur /\ c = b
            BY <2>1, <2>3, <3>1, Pick_Counts
        <3>2. CASE ~(q = cur /\ c = b)
            BY <1>2, <2>1, <3>2, Pick_Counts
        <3> QED
            BY <3>1, <3>2
    <2> QED
        BY <2>2, <2>4
<1>6. CASE Send
    <2>1. expired' = {}
        BY <1>2, <1>6 DEF Send
    <2>2. ASSUME NEW q \in Peer, NEW b \in Block
          PROVE  Entries(q, b)' = ToCome(q, b)' + Ready(q, b)'
        BY <1>2, <1>3, <1>6, Send_Counts
    <2> QED
        BY <2>1, <2>2
<1>7. CASE AnyAnswer
    <2>1. PICK q \in Peer, b \in Block, content \in {"good", "bad"} : Answer(q, b, content)
        BY <1>7 DEF AnyAnswer
    <2>2. expired' = {}
        BY <1>2, <2>1 DEF Answer, chooserVars
    <2> QED
        BY <1>2, <2>1, <2>2, Answer_Counts
<1>8. CASE CountBlock \/ SettlePiece
    <2>1. expired' = {}
        BY <1>2, <1>8 DEF CountBlock, SettlePiece, chooserVars
    <2> QED
        BY <1>2, <1>8, <2>1, Handle_Counts
<1>9. CASE Credit
    <2>1. expired' = {}
        BY <1>2, <1>9, Credit_Finds
    <2>2. ASSUME NEW q \in Peer, NEW b \in Block
          PROVE  Entries(q, b)' = ToCome(q, b)' + Ready(q, b)'
        <3>1. /\ Entries(q, b) = 1 \/ ~(q = rpeer /\ b = rblock)
              /\ Entries(q, b)' = IF q = rpeer /\ b = rblock THEN 0 ELSE Entries(q, b)
              /\ ToCome(q, b)' = ToCome(q, b) - IF q = rpeer /\ b = rblock THEN 1 ELSE 0
              /\ Ready(q, b)' = Ready(q, b)
            BY <1>9, Credit_Counts
        <3> QED
            BY <1>2, <1>3, <3>1
    <2> QED
        BY <2>1, <2>2
<1>10. CASE Expire
    BY <1>2, <1>10 DEF Expire
<1>11. CASE UNCHANGED requestsAndAnswers
    BY <1>2, <1>11, Same_Counts DEF requestsAndAnswers
<1> QED
    BY <1>1, <1>4, <1>5, <1>6, <1>7, <1>8, <1>9, <1>10, <1>11, OtherSteps

\* Entries are as many as blocks owed, when no peer is asked twice.
LEMMA OutstandingOwed ==
    ASSUME Known, OneEach, got = {}, NEW q \in Peer
    PROVE  Outstanding(q) = Cardinality(Owed(q))
<1> DEFINE Pairs == UNION {{<<b, i>> : i \in 1..open[q][b]} : b \in Block}
           f == [b \in Owed(q) |-> <<b, 1>>]
<1>1. ASSUME NEW b \in Block PROVE open[q][b] \in 0..1 /\ (b \in Owed(q) <=> open[q][b] = 1)
    <2>1. open[q][b] \in Nat /\ open[q][b] <= 1
        BY DEF Known, DownloadInv, DownloadTypes, RequestTypeOK, OneEach
    <2>2. Entries(q, b) = open[q][b]
        BY NoneReceivedType DEF Known, DownloadInv, NoneReceived
    <2> QED
        BY <2>1, <2>2 DEF Owed
<1>2. ASSUME NEW b \in Owed(q) PROVE <<b, 1>> \in Pairs
    <2>1. b \in Block /\ 1 \in 1..open[q][b]
        BY <1>1 DEF Owed
    <2> QED
        BY <2>1
<1>3. ASSUME NEW x \in Pairs PROVE \E b \in Owed(q) : x = <<b, 1>>
    <2>1. PICK b \in Block : x \in {<<b, i>> : i \in 1..open[q][b]}
        OBVIOUS
    <2>2. PICK i \in 1..open[q][b] : x = <<b, i>>
        BY <2>1
    <2>3. open[q][b] = 1 /\ i = 1
        BY <1>1
    <2> QED
        BY <1>1, <2>2, <2>3
<1>4. Outstanding(q) = Cardinality(Pairs)
    BY DEF Outstanding
<1> HIDE DEF Pairs
<1>5. f \in Injection(Owed(q), Pairs) /\ f \in Surjection(Owed(q), Pairs)
    BY <1>2, <1>3 DEF Injection, IsInjective, Surjection
<1>6. IsFiniteSet(Owed(q))
    BY DownloadAssumption, FS_Subset DEF Owed
<1> QED
    BY <1>4, <1>5, <1>6, FS_Surjection

\* What is owed is finite.
LEMMA OwedFinite ==
    ASSUME NEW q
    PROVE  IsFiniteSet(Owed(q)) /\ Cardinality(Owed(q)) \in Nat
BY DownloadAssumption, FS_Subset, FS_CardinalityType DEF Owed

\* The windows hold.
LEMMA WithinWindow_Step ==
    ASSUME Known, CalmState, [Next]_vars, DownloadTypes'
    PROVE  WithinWindow'
<1>1. /\ \A q \in Peer : Cardinality(Owed(q)) <= window[q]
      /\ pc = "pick" => Cardinality(Owed(cur)) + slots <= window[cur]
      /\ slots <= MaxWindow
    BY DEF CalmState, WithinWindow
<1>2. \A q \in Peer : window[q] \in Nat /\ window[q] <= MaxWindow
    BY DownloadAssumption DEF Known, DownloadInv, DownloadTypes, RequestTypeOK
<1>3. slots \in Nat /\ (pc = "pick" => cur \in Peer)
    BY WrapType DEF Known, DownloadInv, DownloadTypes, ChooserTypeOK, ThreadsOK
<1>4. ASSUME UNCHANGED <<window, slots, cur>>, pc' = "pick" => pc = "pick",
             \A q \in Peer, b \in Block : Entries(q, b)' = Entries(q, b)
      PROVE  WithinWindow'
    <2>1. \A q \in Peer : Owed(q)' = Owed(q)
        BY <1>4 DEF Owed
    <2>2. pc' = "pick" => Owed(cur)' = Owed(cur)
        BY <1>3, <1>4 DEF Owed
    <2> QED
        BY <1>1, <1>4, <2>1, <2>2 DEF WithinWindow
<1>5. CASE AnyBegin
    <2>1. UNCHANGED <<window, slots, cur>> /\ pc' # "pick"
        BY <1>5 DEF AnyBegin, BeginRound
    <2> QED
        BY <1>4, <1>5, <2>1, Begin_Counts
<1>6. CASE Expire
    <2>1. PICK e \in expired : open' = [open EXCEPT ![e[1]][e[2]] = @ - 1]
        BY <1>6 DEF Expire
    <2>2. UNCHANGED <<window, slots, cur>> /\ pc' = pc /\ pc # "pick"
        BY <1>6 DEF Expire, ChooserAt
    <2>3. ASSUME NEW q \in Peer PROVE Cardinality(Owed(q)') <= window[q]
        <3>1. Owed(q)' \subseteq Owed(q)
            <4>1. \A b \in Block : Entries(q, b)' = IF b = e[2] THEN 0 ELSE Entries(q, b)
                BY <1>6, <2>1, Expire_Counts
            <4>2. \A b \in Block : Entries(q, b)' > 0 => Entries(q, b) > 0
                BY <4>1
            <4> QED
                BY <4>2 DEF Owed
        <3>2. Cardinality(Owed(q)') \in Nat /\ Cardinality(Owed(q)') <= Cardinality(Owed(q))
            BY <3>1, OwedFinite, FS_Subset, FS_CardinalityType
        <3> QED
            BY <1>1, <1>2, <3>2, OwedFinite
    <2> QED
        BY <1>1, <2>2, <2>3 DEF WithinWindow
<1>7. CASE AnyPick
    <2>1. PICK b \in Block : Pick(b)
        BY <1>7 DEF AnyPick
    <2>2. /\ pc = "pick" /\ pc' = pc /\ slots > 0 /\ slots' = slots - 1
          /\ UNCHANGED <<window, cur>> /\ cur \in Peer
        BY <1>3, <2>1 DEF Pick, ChooserAt
    <2>3. ASSUME NEW q \in Peer PROVE Owed(q)' = Owed(q) \cup IF q = cur THEN {b} ELSE {}
        BY <2>1, Pick_Counts DEF Owed
    <2>4. PICK r \in Peer : r = cur
        BY <2>2
    <2>5. Cardinality(Owed(r)') <= Cardinality(Owed(r)) + 1 /\ Cardinality(Owed(r)') \in Nat
        <3>1. Owed(r)' = Owed(r) \cup {b}
            BY <2>3, <2>4
        <3>2. IsFiniteSet(Owed(r)) /\ Cardinality(Owed(r)) \in Nat
            BY OwedFinite
        <3>3. Cardinality(Owed(r) \cup {b}) =
                  IF b \in Owed(r) THEN Cardinality(Owed(r)) ELSE Cardinality(Owed(r)) + 1
            BY <3>2, FS_AddElement
        <3> QED
            BY <3>1, <3>2, <3>3
    <2>6. Cardinality(Owed(r)') + slots' <= window'[r]
        <3>1. Cardinality(Owed(r)) + slots <= window[r]
            BY <1>1, <2>2, <2>4
        <3> QED
            BY <1>2, <1>3, <2>2, <2>5, <3>1, OwedFinite
    <2>7. ASSUME NEW q \in Peer PROVE Cardinality(Owed(q)') <= window'[q]
        <3>1. CASE q = r
            BY <1>2, <1>3, <2>2, <2>5, <2>6, <3>1
        <3>2. CASE q # r
            <4>1. Owed(q)' = Owed(q)
                BY <2>3, <2>4, <3>2
            <4> QED
                BY <1>1, <2>2, <4>1
        <3> QED
            BY <3>1, <3>2
    <2>8. cur' = r /\ Owed(cur)' = Owed(r)'
        BY <2>2, <2>4 DEF Owed, Entries
    <2>9. Cardinality(Owed(cur)') + slots' <= window'[cur']
        BY <2>6, <2>8
    <2> QED
        BY <1>1, <1>3, <2>2, <2>7, <2>9, DownloadAssumption DEF WithinWindow
<1>8. CASE \E q \in Peer : ServePeer(q)
    <2>1. PICK q \in Peer : ServePeer(q)
        BY <1>8
    <2>2. got = {} /\ UNCHANGED <<window, open, got>> /\ cur' = q /\ slots' = Slots(q)
        BY <2>1 DEF ServePeer, requestVars, ChooserAt, Known, DownloadInv, DownloadTypes,
           EntriesOK, Choosing
    <2>3. \A r : Owed(r)' = Owed(r)
        BY <2>2 DEF Owed, Entries
    <2>4. slots' <= window[q] - Cardinality(Owed(q)) /\ slots' \in Nat
        <3>1. Slots(q) = (window[q] - Cardinality(Owed(q))) % Wrap
            BY <2>2, OutstandingOwed DEF Slots, CalmState
        <3>2. window[q] - Cardinality(Owed(q)) \in Nat
            BY <1>1, <1>2, OwedFinite
        <3>3. \A n \in Nat : n % Wrap <= n /\ n % Wrap \in Nat
            BY DEF Wrap
        <3> QED
            BY <2>2, <3>1, <3>2, <3>3
    <2>5. slots' <= MaxWindow /\ Cardinality(Owed(q)) + slots' <= window[q]
        BY <1>2, <2>4, OwedFinite, DownloadAssumption
    <2>6. Owed(cur)' = Owed(q)
        BY <2>2 DEF Owed, Entries
    <2> QED
        BY <1>1, <2>2, <2>3, <2>5, <2>6 DEF WithinWindow
<1>9. CASE Send
    <2>1. slots' = 0 /\ window' = window /\ pc' # "pick"
        BY <1>9 DEF Send, requestVars
    <2>2. \A q \in Peer : Owed(q)' = Owed(q)
        BY <1>9, Send_Counts DEF Owed
    <2> QED
        BY <1>1, <2>1, <2>2, DownloadAssumption DEF WithinWindow
<1>10. CASE Credit
    <2>1. /\ rpeer \in Peer /\ rblock \in Block /\ pc' = pc /\ pc # "pick" /\ slots' = slots
        BY <1>10, Credit_Finds DEF Choosing
    <2>2. PICK w \in {window[rpeer] + d : d \in {-1, 0, 1}} \cap (MinWindow..MaxWindow) :
              window' = [window EXCEPT ![rpeer] = w]
        BY <1>10, Credit_Finds
    <2>3. w >= window[rpeer] - 1 /\ w \in Nat
        BY <1>2, <2>1, DownloadAssumption
    <2>4. window \in [Peer -> MinWindow..MaxWindow]
        BY DEF Known, DownloadInv, DownloadTypes, RequestTypeOK
    <2>5. ASSUME NEW q \in Peer PROVE Cardinality(Owed(q)') <= window'[q]
        <3>1. CASE q = rpeer
            <4>1. Owed(q)' = Owed(q) \ {rblock} /\ rblock \in Owed(q)
                BY <1>10, <2>1, <3>1, Credit_Counts DEF Owed
            <4>2. Cardinality(Owed(q)') = Cardinality(Owed(q)) - 1
                BY <4>1, OwedFinite, FS_RemoveElement
            <4>3. window'[q] = w
                BY <2>1, <2>2, <2>4, <3>1
            <4> QED
                BY <1>1, <1>2, <2>3, <3>1, <4>2, <4>3, OwedFinite
        <3>2. CASE q # rpeer
            <4>1. Owed(q)' = Owed(q)
                BY <1>10, <3>2, Credit_Counts DEF Owed
            <4>2. window'[q] = window[q]
                BY <2>2, <2>4, <3>2
            <4> QED
                BY <1>1, <4>1, <4>2
        <3> QED
            BY <3>1, <3>2
    <2> QED
        BY <1>1, <2>1, <2>5 DEF WithinWindow
<1>11. CASE AnyAnswer \/ CountBlock \/ SettlePiece \/ AnyLose
    <2>1. UNCHANGED <<window, slots, cur>> /\ pc' = pc
        BY <1>11 DEF AnyAnswer, Answer, CountBlock, SettlePiece, AnyLose, Lose, chooserVars,
           requestVars
    <2>2. \A q \in Peer, b \in Block : Entries(q, b)' = Entries(q, b)
        BY <1>11, Answer_Counts, Handle_Counts, Lose_Counts DEF AnyAnswer
    <2> QED
        BY <1>4, <2>1, <2>2
<1>12. CASE UNCHANGED requestsAndAnswers /\ UNCHANGED <<window, slots, cur>>
            /\ (pc' = "pick" => pc = "pick")
    BY <1>4, <1>12, Same_Counts
<1>13. ~AnyPick /\ ~Send /\ ~Credit /\ ~(\E q \in Peer : ServePeer(q)) =>
           UNCHANGED <<window, slots, cur>> /\ (pc' = "pick" => pc = "pick")
    BY DEF Next, ChooserNext, ResponderNext, Check, VerifyFile, Scan, ResetDamaged, EndReset,
       BeginRound, Expire, CopyDownloading, CopyEmpty, EndPeer, BecomeSeed, ChangeAllStatus,
       TestCompleted, Answer, CountBlock, SettlePiece, Stop, Lose, vars, requestVars,
       chooserVars, AnyPick
<1> QED
    BY <1>5, <1>6, <1>7, <1>8, <1>9, <1>10, <1>11, <1>12, <1>13, OtherSteps

\* The statuses that a step leaves.
LEMMA StatusTypes ==
    ASSUME Known
    PROVE  pieceStatus \in [Piece -> Status] /\ blockStatus \in [Block -> Status] /\ total \in Nat
BY DEF Known, DownloadInv, ProgressTypeOK

\* A block that the chooser picks, or sets back, was not counted, and is not.
LEMMA NotCounted ==
    ASSUME Known, CalmState, NEW b \in Block, NEW s \in {"Empty", "Downloading"},
           UpdateBlockStatus("chooser", b, s), ~HeldBlock(b), ~HeldPiece(PieceOf[b])
    PROVE  /\ \A c \in Block : HeldBlock(c)' <=> HeldBlock(c)
           /\ \A p \in Piece : HeldPiece(p)' <=> HeldPiece(p)
           /\ total' = total
<1>1. pieceStatus \in [Piece -> Status] /\ blockStatus \in [Block -> Status]
    BY StatusTypes
<1>2. total' = total /\ blockStatus' = [blockStatus EXCEPT ![b] = s]
    BY DEF UpdateBlockStatus
<1>3. \A c \in Block : HeldBlock(c)' <=> HeldBlock(c)
    BY <1>1, <1>2 DEF HeldBlock, Held
<1>4. PieceOf[b] \in Piece
    BY LayoutAssumption
<1>5. \A p \in Piece : HeldPiece(p)' <=> HeldPiece(p)
    <2>1. CASE s = "Downloading"
        <3>1. pieceStatus' = [pieceStatus EXCEPT ![PieceOf[b]] = "Downloading"]
            BY <2>1 DEF UpdateBlockStatus
        <3> QED
            BY <1>1, <1>4, <3>1 DEF HeldPiece, Held
    <2>2. CASE s = "Empty"
        <3>1. pieceStatus' = pieceStatus
            BY <2>2 DEF UpdateBlockStatus
        <3> QED
            BY <3>1 DEF HeldPiece
    <2> QED
        BY <2>1, <2>2
<1> QED
    BY <1>2, <1>3, <1>5

\* The blocks that a late piece status or a block of its own makes count.
LEMMA CountedHeld ==
    Counted = {b \in Block : HeldBlock(b) \/ HeldPiece(PieceOf[b])}
BY DEF Counted, HeldBlock, HeldPiece

\* The chooser sets a piece Verified, held or not.
LEMMA ChangeAll_Finds ==
    ASSUME Known, CalmState, ChangeAllStatus
    PROVE  \E p \in Piece :
               /\ UpdatePieceStatus("chooser", p, "Verified")
               /\ total' = total + Size(Added(p, "Verified"))
               /\ \A r \in Piece : HeldPiece(r)' <=> (HeldPiece(r) \/ r = p)
               /\ \A b \in Block : HeldBlock(b)' <=> (HeldBlock(b) \/ PieceOf[b] = p)
<1>1. PICK p \in Piece : UpdatePieceStatus("chooser", p, "Verified")
    BY DEF ChangeAllStatus, Known, DownloadInv, DownloadTypes, ChooserTypeOK
<1>2. pieceStatus \in [Piece -> Status] /\ blockStatus \in [Block -> Status] /\ total \in Nat
    BY StatusTypes
<1>3. Removed(p, "Verified") = {}
    BY DEF Removed
<1>4. total' = total + Size(Added(p, "Verified"))
    <2>1. total' = total - Size(Removed(p, "Verified")) + Size(Added(p, "Verified"))
        BY <1>1 DEF UpdatePieceStatus
    <2>2. Size(Removed(p, "Verified")) = 0 /\ Size(Added(p, "Verified")) \in Nat
        BY <1>3, SizeOfNone, SizeType
    <2> QED
        BY <1>2, <2>1, <2>2
<1>5. \A r \in Piece : HeldPiece(r)' <=> (HeldPiece(r) \/ r = p)
    BY <1>1, <1>2 DEF UpdatePieceStatus, HeldPiece, Held
<1>6. \A b \in Block : HeldBlock(b)' <=> (HeldBlock(b) \/ PieceOf[b] = p)
    BY <1>1, <1>2 DEF UpdatePieceStatus, HeldBlock, Held
<1> QED
    BY <1>1, <1>4, <1>5, <1>6

\* The total is exact after every step.
LEMMA TotalExact_Step ==
    ASSUME Known, CalmState, [Next]_vars
    PROVE  total' = Size(Counted')
<1>1. total = Size(Counted) /\ \A b \in Block : HeldPiece(PieceOf[b]) => HeldBlock(b)
    BY DEF CalmState, TableExact
<1>2. pieceStatus \in [Piece -> Status] /\ blockStatus \in [Block -> Status] /\ total \in Nat
    BY StatusTypes
<1>3. Counted' = {b \in Block : HeldBlock(b)' \/ HeldPiece(PieceOf[b])'}
    BY DEF Counted, HeldBlock, HeldPiece
<1>4. \A b \in Block : PieceOf[b] \in Piece
    BY LayoutAssumption
<1>5. ASSUME NEW b \in Block, NEW s \in {"Empty", "Downloading"},
             UpdateBlockStatus("chooser", b, s), ~HeldBlock(b), ~HeldPiece(PieceOf[b])
      PROVE  total' = Size(Counted')
    <2>1. Counted' = Counted /\ total' = total
        BY <1>3, <1>4, <1>5, NotCounted, CountedHeld
    <2> QED
        BY <1>1, <2>1
<1>6. CASE Expire
    <2>1. PICK e \in expired : UpdateBlockStatus("chooser", e[2], "Empty")
        BY <1>6 DEF Expire
    <2>2. e[2] \in Block /\ ~HeldBlock(e[2]) /\ ~HeldPiece(PieceOf[e[2]])
        BY <1>6, Expire_Finds DEF Expire, ChooserAt
    <2> QED
        BY <1>5, <2>1, <2>2
<1>7. CASE AnyPick
    <2>1. PICK b \in Block : Pick(b)
        BY <1>7 DEF AnyPick
    <2>2. ~HeldBlock(b) /\ ~HeldPiece(PieceOf[b])
        BY <2>1, Pick_Finds
    <2> QED
        BY <1>5, <2>1, <2>2 DEF Pick
<1>8. CASE CountBlock
    <2>1. /\ rblock \in Block /\ PieceOf[rblock] \in Piece
          /\ blockStatus' = [blockStatus EXCEPT ![rblock] = "Downloaded"]
          /\ \/ /\ \A c \in BlocksOf(PieceOf[rblock]) \ {rblock} : blockStatus[c] = "Downloaded"
                /\ pieceStatus' = [pieceStatus EXCEPT ![PieceOf[rblock]] = "Downloaded"]
             \/ pieceStatus' = pieceStatus
        BY <1>8, CountBlock_Finds
    <2>2. \A b \in Block : HeldBlock(b)' <=> (HeldBlock(b) \/ b = rblock)
        BY <1>2, <2>1 DEF HeldBlock, Held
    <2>3. \A b \in Block : HeldPiece(PieceOf[b])' => (HeldPiece(PieceOf[b]) \/ HeldBlock(b)')
        <3>1. CASE pieceStatus' = pieceStatus
            BY <3>1 DEF HeldPiece
        <3>2. CASE /\ \A c \in BlocksOf(PieceOf[rblock]) \ {rblock} : blockStatus[c] = "Downloaded"
                   /\ pieceStatus' = [pieceStatus EXCEPT ![PieceOf[rblock]] = "Downloaded"]
            <4>1. \A b \in Block : PieceOf[b] = PieceOf[rblock] => HeldBlock(b) \/ b = rblock
                BY <3>2 DEF BlocksOf, HeldBlock, Held
            <4>2. \A r \in Piece : r # PieceOf[rblock] => (HeldPiece(r)' <=> HeldPiece(r))
                BY <1>2, <3>2 DEF HeldPiece
            <4> QED
                BY <1>4, <2>2, <4>1, <4>2
        <3> QED
            BY <2>1, <3>1, <3>2
    <2>4. Counted' = Counted \cup {rblock}
        BY <1>1, <1>3, <2>1, <2>2, <2>3, CountedHeld
    <2>5. total' = total + NewBytes(rblock)
        BY <1>8 DEF CountBlock, DownloadedBlock
    <2>6. CASE HeldBlock(rblock)
        <3>1. NewBytes(rblock) = 0
            BY <2>6 DEF NewBytes, HeldBlock
        <3>2. Counted' = Counted
            BY <2>1, <2>4, <2>6, CountedHeld
        <3> QED
            BY <1>1, <1>2, <2>5, <3>1, <3>2
    <2>7. CASE ~HeldBlock(rblock)
        <3>1. NewBytes(rblock) = Size({rblock})
            BY <2>7 DEF NewBytes, HeldBlock
        <3>2. Counted \cap {rblock} = {}
            BY <1>1, <2>1, <2>7, CountedHeld
        <3>3. Size(Counted \cup {rblock}) = Size(Counted) + Size({rblock})
            BY <3>2, SizeOfDisjoint
        <3> QED
            BY <1>1, <2>4, <2>5, <3>1, <3>3
    <2> QED
        BY <2>6, <2>7
<1>9. CASE SettlePiece
    <2> DEFINE p == PieceOf[rblock]
    <2>1. /\ rpc = "settle" /\ UpdatePieceStatus("responder", p, Outcome)
          /\ p \in Piece /\ HeldPiece(p)
          /\ \A b \in Block : PieceOf[b] = p => HeldBlock(b)
        BY <1>9, Settle_Finds DEF SettlePiece
    <2>2. Added(p, Outcome) = {} /\ Size(Added(p, Outcome)) = 0
        BY <2>1, SizeOfNone DEF Added, HeldPiece
    <2>3. /\ total' = total - Size(Removed(p, Outcome)) + Size(Added(p, Outcome))
          /\ \A r \in Piece : pieceStatus'[r] = IF r = p THEN Outcome ELSE pieceStatus[r]
          /\ \A b \in Block : blockStatus'[b] = IF PieceOf[b] = p THEN Outcome ELSE blockStatus[b]
        BY <1>2, <2>1 DEF UpdatePieceStatus
    <2>4. CASE Outcome = "Verified"
        <3>1. Removed(p, Outcome) = {} /\ Size(Removed(p, Outcome)) = 0
            BY <2>4, SizeOfNone DEF Removed
        <3>2. \A b \in Block : HeldBlock(b)' <=> HeldBlock(b)
            BY <2>1, <2>3, <2>4 DEF HeldBlock, Held
        <3>3. \A b \in Block : HeldPiece(PieceOf[b])' <=> HeldPiece(PieceOf[b])
            BY <1>4, <2>1, <2>3, <2>4 DEF HeldPiece, Held
        <3>4. Counted' = Counted
            BY <1>3, <3>2, <3>3, CountedHeld
        <3> QED
            BY <1>1, <1>2, <2>2, <2>3, <3>1, <3>4
    <2>5. CASE Outcome = "Empty"
        <3>1. Removed(p, Outcome) = BlocksOf(p)
            <4>1. pieceStatus[p] # "Empty"
                BY <2>1 DEF HeldPiece, Held
            <4> QED
                BY <2>1, <2>5, <4>1 DEF Removed, BlocksOf, HeldBlock
        <3>2. \A b \in Block : HeldBlock(b)' <=> (HeldBlock(b) /\ PieceOf[b] # p)
            BY <2>3, <2>5 DEF HeldBlock, Held
        <3>3. \A b \in Block : HeldPiece(PieceOf[b])' <=> (HeldPiece(PieceOf[b]) /\ PieceOf[b] # p)
            BY <1>4, <2>3, <2>5 DEF HeldPiece, Held
        <3>4. Counted' \cap BlocksOf(p) = {} /\ Counted = Counted' \cup BlocksOf(p)
            BY <1>3, <2>1, <3>2, <3>3, CountedHeld DEF BlocksOf
        <3>5. Size(Counted) = Size(Counted') + Size(BlocksOf(p))
            BY <3>4, SizeOfDisjoint
        <3>6. Size(Counted') \in Nat /\ Size(BlocksOf(p)) \in Nat
            BY SizeType
        <3> QED
            BY <1>1, <2>2, <2>3, <3>1, <3>5, <3>6
    <2> QED
        BY <2>4, <2>5 DEF Outcome
<1>10. CASE ChangeAllStatus
    <2>1. PICK p \in Piece :
              /\ total' = total + Size(Added(p, "Verified"))
              /\ \A r \in Piece : HeldPiece(r)' <=> (HeldPiece(r) \/ r = p)
              /\ \A b \in Block : HeldBlock(b)' <=> (HeldBlock(b) \/ PieceOf[b] = p)
        BY <1>10, ChangeAll_Finds
    <2>2. Added(p, "Verified") = {b \in Block : PieceOf[b] = p /\ ~HeldPiece(p) /\ ~HeldBlock(b)}
        BY DEF Added, BlocksOf, HeldPiece, HeldBlock, Held
    <2>3. Counted' = Counted \cup Added(p, "Verified") /\ Counted \cap Added(p, "Verified") = {}
        BY <1>1, <1>3, <1>4, <2>1, <2>2, CountedHeld
    <2>4. Size(Counted') = Size(Counted) + Size(Added(p, "Verified"))
        BY <2>3, SizeOfDisjoint
    <2> QED
        BY <1>1, <2>1, <2>4
<1>11. ~ResetDamaged
    BY DEF ResetDamaged, ChooserAt, CalmState, HeldIsGood
<1>12. CASE UNCHANGED <<pieceStatus, blockStatus, total>>
    BY <1>1, <1>12 DEF Counted
<1> QED
    BY <1>6, <1>7, <1>8, <1>9, <1>10, <1>11, <1>12, TableSteps

\* Only the responder changes what it is handling.
LEMMA ResponderSteps ==
    ASSUME [Next]_vars, ~AnyAnswer, ~CountBlock, ~SettlePiece, ~Credit
    PROVE  UNCHANGED <<rpc, rpeer, rblock, verdict>>
BY DEF Next, ChooserNext, ResponderNext, Check, VerifyFile, Scan, ResetDamaged, EndReset,
       BeginRound, Expire, CopyDownloading, CopyEmpty, ServePeer, Pick, EndPeer, Send,
       BecomeSeed, ChangeAllStatus, TestCompleted, AnyAnswer, Stop, Lose, vars, responderVars

\* Until the download is stopped a piece is settled as good.
LEMMA Settle_Verified ==
    ASSUME Known, CalmState, SettlePiece, Looping
    PROVE  /\ \A p \in Piece : pieceStatus'[p] = IF p = PieceOf[rblock] THEN "Verified"
                                                 ELSE pieceStatus[p]
           /\ \A b \in Block : blockStatus'[b] = IF PieceOf[b] = PieceOf[rblock] THEN "Verified"
                                                 ELSE blockStatus[b]
<1>1. rpc = "settle" /\ verdict
    BY DEF SettlePiece, CalmState, HeldIsGood
<1>2. UpdatePieceStatus("responder", PieceOf[rblock], "Verified")
    BY <1>1 DEF SettlePiece, Outcome
<1>3. pieceStatus \in [Piece -> Status] /\ blockStatus \in [Block -> Status]
    BY StatusTypes
<1> QED
    BY <1>2, <1>3 DEF UpdatePieceStatus

\* What is held stays held, and a block is held anew when it is counted, or
\* because all are set Verified.
LEMMA HeldSteps ==
    ASSUME Known, CalmState, [Next]_vars, Looping
    PROVE  /\ \A b \in Block : HeldBlock(b) => HeldBlock(b)'
           /\ \A p \in Piece : HeldPiece(p) => HeldPiece(p)'
           /\ \A b \in Block : \/ HeldBlock(b)' => HeldBlock(b)
                               \/ CountBlock /\ b = rblock
                               \/ ChangeAllStatus
<1>1. pieceStatus \in [Piece -> Status] /\ blockStatus \in [Block -> Status]
    BY StatusTypes
<1>2. CASE Expire
    <2>1. PICK e \in expired : UpdateBlockStatus("chooser", e[2], "Empty")
        BY <1>2 DEF Expire
    <2>2. e[2] \in Block /\ ~HeldBlock(e[2]) /\ ~HeldPiece(PieceOf[e[2]])
        BY <1>2, Expire_Finds DEF Expire, ChooserAt
    <2> QED
        BY <2>1, <2>2, NotCounted
<1>3. CASE AnyPick
    <2>1. PICK b \in Block : Pick(b)
        BY <1>3 DEF AnyPick
    <2>2. ~HeldBlock(b) /\ ~HeldPiece(PieceOf[b]) /\ UpdateBlockStatus("chooser", b, "Downloading")
        BY <2>1, Pick_Finds DEF Pick
    <2> QED
        BY <2>2, NotCounted
<1>4. CASE CountBlock
    <2>1. /\ rblock \in Block /\ PieceOf[rblock] \in Piece
          /\ blockStatus' = [blockStatus EXCEPT ![rblock] = "Downloaded"]
          /\ \/ pieceStatus' = [pieceStatus EXCEPT ![PieceOf[rblock]] = "Downloaded"]
             \/ pieceStatus' = pieceStatus
        BY <1>4, CountBlock_Finds
    <2>2. \A b \in Block : HeldBlock(b)' <=> (HeldBlock(b) \/ b = rblock)
        BY <1>1, <2>1 DEF HeldBlock, Held
    <2>3. \A p \in Piece : HeldPiece(p) => HeldPiece(p)'
        BY <1>1, <2>1 DEF HeldPiece, Held
    <2> QED
        BY <1>4, <2>2, <2>3
<1>5. CASE SettlePiece
    <2>1. \A b \in Block : PieceOf[b] = PieceOf[rblock] => HeldBlock(b)
        BY <1>5, Settle_Finds DEF SettlePiece
    <2>2. \A b \in Block : HeldBlock(b)' <=> HeldBlock(b)
        BY <1>5, <2>1, Settle_Verified DEF HeldBlock, Held
    <2>3. \A p \in Piece : HeldPiece(p) => HeldPiece(p)'
        BY <1>5, Settle_Verified DEF HeldPiece, Held
    <2> QED
        BY <2>2, <2>3
<1>6. CASE ChangeAllStatus
    BY <1>6, ChangeAll_Finds
<1>7. ~ResetDamaged
    BY DEF ResetDamaged, ChooserAt, CalmState, HeldIsGood
<1>8. CASE UNCHANGED <<pieceStatus, blockStatus>>
    BY <1>8 DEF HeldBlock, HeldPiece
<1> QED
    BY <1>2, <1>3, <1>4, <1>5, <1>6, <1>7, <1>8, TableSteps

\* The blocks of a held piece are held.
LEMMA PieceHeld_Step ==
    ASSUME Known, CalmState, [Next]_vars
    PROVE  \A b \in Block : HeldPiece(PieceOf[b])' => HeldBlock(b)'
<1>1. \A b \in Block : HeldPiece(PieceOf[b]) => HeldBlock(b)
    BY DEF CalmState, TableExact
<1>2. pieceStatus \in [Piece -> Status] /\ blockStatus \in [Block -> Status]
    BY StatusTypes
<1>3. \A b \in Block : PieceOf[b] \in Piece
    BY LayoutAssumption
<1>4. ASSUME NEW b \in Block, NEW s \in {"Empty", "Downloading"},
             UpdateBlockStatus("chooser", b, s), ~HeldBlock(b), ~HeldPiece(PieceOf[b])
      PROVE  \A c \in Block : HeldPiece(PieceOf[c])' => HeldBlock(c)'
    BY <1>1, <1>3, <1>4, NotCounted
<1>5. CASE Expire
    <2>1. PICK e \in expired : UpdateBlockStatus("chooser", e[2], "Empty")
        BY <1>5 DEF Expire
    <2>2. e[2] \in Block /\ ~HeldBlock(e[2]) /\ ~HeldPiece(PieceOf[e[2]])
        BY <1>5, Expire_Finds DEF Expire, ChooserAt
    <2> QED
        BY <1>4, <2>1, <2>2
<1>6. CASE AnyPick
    <2>1. PICK b \in Block : Pick(b)
        BY <1>6 DEF AnyPick
    <2>2. ~HeldBlock(b) /\ ~HeldPiece(PieceOf[b])
        BY <2>1, Pick_Finds
    <2> QED
        BY <1>4, <2>1, <2>2 DEF Pick
<1>7. CASE CountBlock
    <2>1. /\ rblock \in Block /\ PieceOf[rblock] \in Piece
          /\ blockStatus' = [blockStatus EXCEPT ![rblock] = "Downloaded"]
          /\ \/ /\ \A c \in BlocksOf(PieceOf[rblock]) \ {rblock} : blockStatus[c] = "Downloaded"
                /\ pieceStatus' = [pieceStatus EXCEPT ![PieceOf[rblock]] = "Downloaded"]
             \/ pieceStatus' = pieceStatus
        BY <1>7, CountBlock_Finds
    <2>2. \A b \in Block : HeldBlock(b)' <=> (HeldBlock(b) \/ b = rblock)
        BY <1>2, <2>1 DEF HeldBlock, Held
    <2>3. CASE pieceStatus' = pieceStatus
        BY <1>1, <2>2, <2>3 DEF HeldPiece
    <2>4. CASE /\ \A c \in BlocksOf(PieceOf[rblock]) \ {rblock} : blockStatus[c] = "Downloaded"
               /\ pieceStatus' = [pieceStatus EXCEPT ![PieceOf[rblock]] = "Downloaded"]
        <3>1. \A b \in Block : PieceOf[b] = PieceOf[rblock] => HeldBlock(b) \/ b = rblock
            BY <2>4 DEF BlocksOf, HeldBlock, Held
        <3>2. \A r \in Piece : r # PieceOf[rblock] => (HeldPiece(r)' <=> HeldPiece(r))
            BY <1>2, <2>4 DEF HeldPiece
        <3> QED
            BY <1>1, <1>3, <2>2, <3>1, <3>2
    <2> QED
        BY <2>1, <2>3, <2>4
<1>8. CASE SettlePiece
    <2>1. UpdatePieceStatus("responder", PieceOf[rblock], Outcome) /\ PieceOf[rblock] \in Piece
        BY <1>8, Settle_Finds DEF SettlePiece
    <2>2. /\ \A r \in Piece : pieceStatus'[r] = IF r = PieceOf[rblock] THEN Outcome ELSE pieceStatus[r]
          /\ \A b \in Block : blockStatus'[b] = IF PieceOf[b] = PieceOf[rblock] THEN Outcome ELSE blockStatus[b]
        BY <1>2, <2>1 DEF UpdatePieceStatus
    <2>3. ASSUME NEW b \in Block PROVE HeldPiece(PieceOf[b])' => HeldBlock(b)'
        <3>1. CASE PieceOf[b] = PieceOf[rblock]
            BY <2>1, <2>2, <3>1 DEF HeldPiece, HeldBlock
        <3>2. CASE PieceOf[b] # PieceOf[rblock]
            BY <1>1, <1>3, <2>2, <3>2 DEF HeldPiece, HeldBlock
        <3> QED
            BY <3>1, <3>2
    <2> QED
        BY <2>3
<1>9. CASE ChangeAllStatus
    BY <1>1, <1>3, <1>9, ChangeAll_Finds
<1>10. ~ResetDamaged
    BY DEF ResetDamaged, ChooserAt, CalmState, HeldIsGood
<1>11. CASE UNCHANGED <<pieceStatus, blockStatus>>
    BY <1>1, <1>11 DEF HeldBlock, HeldPiece
<1> QED
    BY <1>5, <1>6, <1>7, <1>8, <1>9, <1>10, <1>11, TableSteps

\* A piece is held while it is settled.
LEMMA SettleHeld_Step ==
    ASSUME Known, CalmState, [Next]_vars, rpc' = "settle"
    PROVE  HeldPiece(PieceOf[rblock])'
<1>1. CASE CountBlock
    <2>1. PieceOf[rblock] \in Piece /\ rblock' = rblock
          /\ pieceStatus' = [pieceStatus EXCEPT ![PieceOf[rblock]] = "Downloaded"]
        BY <1>1, CountBlock_Finds
    <2>2. pieceStatus'[PieceOf[rblock]] = "Downloaded"
        BY <2>1, StatusTypes
    <2> QED
        BY <2>1, <2>2 DEF HeldPiece, Held
<1>2. CASE ~CountBlock
    <2>1. ~AnyAnswer /\ ~SettlePiece /\ ~Credit
        BY DEF AnyAnswer, Answer, SettlePiece, Credit
    <2>2. rpc = "settle" /\ rblock' = rblock
        BY <1>2, <2>1, ResponderSteps
    <2>3. PICK p \in Piece : p = PieceOf[rblock] /\ HeldPiece(p)
        BY <2>2, Settle_Finds
    <2>4. HeldPiece(p)'
        <3>1. CASE ChangeAllStatus
            BY <2>3, <3>1, ChangeAll_Finds
        <3>2. CASE ~ChangeAllStatus
            <4>1. CASE Looping
                BY <2>3, <4>1, HeldSteps
            <4>2. CASE ~Looping
                <5>1. ~Expire /\ ~AnyPick /\ ~ResetDamaged
                    BY <4>2 DEF Expire, AnyPick, Pick, ResetDamaged, ChooserAt, Looping
                <5>2. pieceStatus' = pieceStatus
                    BY <1>2, <2>1, <3>2, <5>1, TableSteps
                <5> QED
                    BY <2>3, <5>2 DEF HeldPiece
            <4> QED
                BY <4>1, <4>2
        <3> QED
            BY <3>1, <3>2
    <2>5. pieceStatus'[p] \in Held
        BY <2>4 DEF HeldPiece
    <2> QED
        BY <2>2, <2>3, <2>5 DEF HeldPiece
<1> QED
    BY <1>1, <1>2

\* The total stays exact: one lemma for each thread.
LEMMA TableExact_Step ==
    ASSUME Known, CalmState, [Next]_vars
    PROVE  TableExact'
<1>1. total' = Size(Counted')
    BY TotalExact_Step
<1>2. \A b \in Block : HeldPiece(PieceOf[b])' => HeldBlock(b)'
    BY PieceHeld_Step
<1>3. rpc' = "settle" => HeldPiece(PieceOf[rblock])'
    BY SettleHeld_Step
<1> QED
    BY <1>1, <1>2, <1>3 DEF TableExact, Size

\* How the chooser comes to look at the file, to find it whole, or not.
LEMMA PcSteps ==
    ASSUME Known, [Next]_vars
    PROVE  /\ pc' = "scan" => pc = "scan" \/ (VerifyFile /\ ~FileGood)
           /\ pc' = "reset" => pc = "reset" \/ pc = "scan"
           /\ pc' = "verify" => \/ pc = "verify"
                                \/ Full /\ UNCHANGED blockStatus
           /\ running' /\ pc' \in {"finish", "changeAll", "seed"} =>
                  running /\ pc \in {"verify", "finish", "changeAll", "seed"}
<1>1. running' => running
    BY WrittenStays DEF Known
<1>2. CASE Check
    BY <1>1, <1>2 DEF Check, ChooserAt, progressVars, handlerVars
<1>3. CASE VerifyFile \/ Scan \/ EndReset \/ CopyDownloading \/ CopyEmpty \/ EndPeer \/ Send
           \/ BecomeSeed
    BY <1>1, <1>3 DEF VerifyFile, Scan, EndReset, CopyDownloading, CopyEmpty, EndPeer, Send,
       BecomeSeed, ChooserAt
<1>4. CASE AnyBegin
    BY <1>4 DEF AnyBegin, BeginRound
<1>5. CASE \E q \in Peer : ServePeer(q)
    BY <1>5 DEF ServePeer
<1>6. CASE ChangeAllStatus
    BY <1>1, <1>6 DEF ChangeAllStatus, ChooserAt
<1>7. CASE pc' = pc
    BY <1>1, <1>7
<1>8. ResetDamaged \/ Expire \/ AnyPick \/ TestCompleted("chooser") \/ OtherNext
      \/ UNCHANGED vars => pc' = pc
    BY DEF ResetDamaged, Expire, AnyPick, Pick, TestCompleted, OtherNext, AnyAnswer, Answer,
       CountBlock, SettlePiece, Credit, Stop, AnyLose, Lose, vars, chooserVars
<1> QED
    BY <1>2, <1>3, <1>4, <1>5, <1>6, <1>7, <1>8
       DEF Next, ChooserNext, ResponderNext, OtherNext, AnyAnswer, AnyLose, AnyBegin, AnyPick

\* A full table holds every block.
LEMMA FullHeld ==
    ASSUME Known, CalmState, Full
    PROVE  \A b \in Block : HeldBlock(b)
<1>1. total = Size(Counted) /\ total \in Nat /\ FileSize = Size(Block)
    BY StatusTypes, SizeOfAll DEF CalmState, TableExact
<1>2. Counted \subseteq Block /\ Size(Counted) >= Size(Block) /\ Size(Block) \in Nat
    BY <1>1, SizeType DEF Full, Counted
<1> SUFFICES ASSUME NEW b \in Block, ~HeldBlock(b) PROVE FALSE
    OBVIOUS
<1>3. ~HeldPiece(PieceOf[b])
    BY DEF CalmState, TableExact
<1>4. b \notin Counted
    BY <1>3, CountedHeld
<1>5. PICK y \in Byte : BlockOf[y] = b
    BY NoEmptyBlock
<1> DEFINE Of(S) == {z \in Byte : BlockOf[z] \in S}
<1>6. Of(Counted) \subseteq Of(Block) /\ y \in Of(Block) /\ y \notin Of(Counted)
    BY <1>2, <1>4, <1>5
<1>7. IsFiniteSet(Of(Block))
    BY LayoutAssumption, FS_Subset
<1>8. Cardinality(Of(Block)) = Size(Block) /\ Cardinality(Of(Counted)) = Size(Counted)
    BY DEF Size
<1> HIDE DEF Of
<1>9. /\ Cardinality(Of(Counted)) <= Cardinality(Of(Block))
      /\ Cardinality(Of(Block)) = Cardinality(Of(Counted)) => Of(Block) = Of(Counted)
    BY <1>6, <1>7, FS_Subset
<1> QED
    BY <1>1, <1>2, <1>6, <1>8, <1>9

\* Nothing bad is held, counted or looked at.
LEMMA HeldIsGood_Step ==
    ASSUME Known, CalmState, [Next]_vars, Calm'
    PROVE  HeldIsGood'
<1>1. ASSUME NEW b \in Block, disk[b] = "good" PROVE disk'[b] = "good"
    <2>1. CASE AnyAnswer
        BY <1>1, <2>1, Answer_Finds DEF AnyAnswer
    <2>2. CASE ~AnyAnswer
        BY <1>1, <2>2, DiskSteps
    <2> QED
        BY <2>1, <2>2
<1>2. ASSUME rpc' # "idle" PROVE disk'[rblock'] = "good"
    <2>1. CASE AnyAnswer
        <3>1. PICK q \in Peer, b \in Block, content \in {"good", "bad"} : Answer(q, b, content)
            BY <2>1 DEF AnyAnswer
        <3>2. rblock' = b /\ disk'[b] = "good"
            BY <3>1, Answer_Finds DEF Answer
        <3> QED
            BY <3>2
    <2>2. CASE ~AnyAnswer
        <3>1. rpc # "idle" /\ rblock' = rblock
            BY <1>2, <2>2, ResponderSteps DEF CountBlock, SettlePiece, Credit
        <3>2. rblock \in Block /\ disk[rblock] = "good"
            BY <3>1, Handled_Open DEF CalmState, HeldIsGood
        <3> QED
            BY <1>1, <3>1, <3>2
    <2> QED
        BY <2>1, <2>2
<1>3. Looping => \A b \in Block : HeldBlock(b) => disk[b] = "good"
    BY DEF CalmState, HeldIsGood
<1>4. pc = "verify" \/ (running /\ pc \in {"finish", "changeAll", "seed"}) =>
          \A b \in Block : HeldBlock(b)
    BY DEF CalmState, HeldIsGood
<1>5. ASSUME Looping', NEW b \in Block, HeldBlock(b)' PROVE disk'[b] = "good"
    <2>1. Looping
        BY <1>5, LoopingBefore
    <2>2. CASE HeldBlock(b)
        BY <1>1, <1>3, <2>1, <2>2
    <2>3. CASE CountBlock /\ b = rblock
        BY <1>1, <2>3, CountBlock_Finds
    <2>4. CASE ChangeAllStatus
        <3>1. pc = "changeAll" /\ pc' \in {"changeAll", "seed"} /\ running' = running
            BY <2>4 DEF ChangeAllStatus, ChooserAt, handlerVars
        <3>2. running
            BY <1>5, <3>1 DEF Looping
        <3> QED
            BY <1>1, <1>3, <1>4, <2>1, <3>1, <3>2
    <2> QED
        BY <1>5, <2>1, <2>2, <2>3, <2>4, HeldSteps
<1>6. ASSUME Looping', rpc' = "settle" PROVE verdict'
    <2>1. Looping
        BY <1>6, LoopingBefore
    <2>2. CASE CountBlock
        <3>1. /\ \A c \in BlocksOf(PieceOf[rblock]) \ {rblock} : blockStatus[c] = "Downloaded"
              /\ verdict' <=> PieceGood(PieceOf[rblock])
              /\ rblock \in Block /\ disk[rblock] = "good"
            BY <1>6, <2>2, CountBlock_Finds
        <3>2. \A c \in BlocksOf(PieceOf[rblock]) : disk[c] = "good"
            BY <1>3, <2>1, <3>1 DEF BlocksOf, HeldBlock, Held
        <3> QED
            BY <3>1, <3>2 DEF PieceGood
    <2>3. CASE ~CountBlock
        <3>1. ~AnyAnswer /\ ~SettlePiece /\ ~Credit
            BY <1>6 DEF AnyAnswer, Answer, SettlePiece, Credit
        <3>2. rpc = "settle" /\ verdict' = verdict
            BY <1>6, <2>3, <3>1, ResponderSteps
        <3>3. verdict
            BY <2>1, <3>2 DEF CalmState, HeldIsGood
        <3> QED
            BY <3>2, <3>3
    <2> QED
        BY <2>2, <2>3
<1>7. pc' \notin {"scan", "reset"}
    <2>1. pc \notin {"scan", "reset"}
        BY DEF CalmState, HeldIsGood
    <2>2. VerifyFile => FileGood
        <3> SUFFICES ASSUME VerifyFile PROVE FileGood
            OBVIOUS
        <3>1. pc = "verify"
            BY DEF VerifyFile, ChooserAt
        <3>2. \A b \in Block : disk[b] = "good"
            BY <1>3, <1>4, <3>1 DEF Looping
        <3> QED
            BY <3>2 DEF FileGood, PieceGood, BlocksOf
    <2> QED
        BY <2>1, <2>2, PcSteps
<1>8. ASSUME pc' = "verify" \/ (running' /\ pc' \in {"finish", "changeAll", "seed"}),
             NEW b \in Block
      PROVE  HeldBlock(b)'
    <2>1. CASE pc = "verify" \/ (running /\ pc \in {"verify", "finish", "changeAll", "seed"})
        <3>1. Looping /\ HeldBlock(b)
            BY <1>4, <2>1 DEF Looping
        <3> QED
            BY <3>1, HeldSteps
    <2>2. CASE Full /\ UNCHANGED blockStatus
        BY <2>2, FullHeld DEF HeldBlock
    <2> QED
        BY <1>8, <2>1, <2>2, PcSteps
<1>9. Looping' => \A b \in Block : HeldBlock(b)' => disk'[b] = "good"
    BY <1>5
<1>10. pc' = "verify" \/ (running' /\ pc' \in {"finish", "changeAll", "seed"}) =>
          \A b \in Block : HeldBlock(b)'
    BY <1>8
<1> QED
    BY <1>2, <1>6, <1>7, <1>9, <1>10 DEF HeldIsGood

\* A block is set back to Empty only when its request times out.
LEMMA EmptySteps ==
    ASSUME Known, CalmState, [Next]_vars, Looping, NEW b \in Block,
           blockStatus'[b] = "Empty", blockStatus[b] # "Empty"
    PROVE  \E e \in expired : /\ Expire /\ b = e[2]
                              /\ open' = [open EXCEPT ![e[1]][e[2]] = @ - 1]
<1>1. blockStatus \in [Block -> Status]
    BY StatusTypes
<1>2. CASE Expire
    <2>1. PICK e \in expired : /\ UpdateBlockStatus("chooser", e[2], "Empty")
                               /\ open' = [open EXCEPT ![e[1]][e[2]] = @ - 1]
        BY <1>2 DEF Expire
    <2>2. blockStatus' = [blockStatus EXCEPT ![e[2]] = "Empty"]
        BY <2>1 DEF UpdateBlockStatus
    <2>3. b = e[2]
        BY <1>1, <2>2
    <2> QED
        BY <1>2, <2>1, <2>3
<1>3. CASE AnyPick
    BY <1>1, <1>3 DEF AnyPick, Pick, UpdateBlockStatus
<1>4. CASE CountBlock
    BY <1>1, <1>4, CountBlock_Finds
<1>5. CASE SettlePiece
    BY <1>5, Settle_Verified
<1>6. CASE ChangeAllStatus
    BY <1>1, <1>6 DEF ChangeAllStatus, UpdatePieceStatus
<1>7. ~ResetDamaged
    BY DEF ResetDamaged, ChooserAt, CalmState, HeldIsGood
<1> QED
    BY <1>2, <1>3, <1>4, <1>5, <1>6, <1>7, TableSteps

\* What is on order, and what is not.
LEMMA OrdersMatch_Step ==
    ASSUME Known, CalmState, [Next]_vars, DownloadTypes'
    PROVE  OrdersMatch'
<1> SUFFICES ASSUME Looping'
             PROVE  /\ \A b \in Block : blockStatus'[b] = "Empty" => \A q \in Peer : open'[q][b] = 0
                    /\ OnePeer => \A q \in Peer, b \in Block :
                                      HeldBlock(b)' => Entries(q, b)' <= After(q, b)'
    BY DEF OrdersMatch, OnePeer
<1>1. Looping
    BY LoopingBefore
<1>2. /\ \A b \in Block : blockStatus[b] = "Empty" => \A q \in Peer : open[q][b] = 0
      /\ OnePeer => \A q \in Peer, b \in Block : HeldBlock(b) => Entries(q, b) <= After(q, b)
    BY <1>1 DEF CalmState, OrdersMatch
<1>3. Counts
    BY DEF Known
<1>4. blockStatus \in [Block -> Status] /\ open \in [Peer -> [Block -> Nat]]
    BY StatusTypes DEF Known, DownloadInv, DownloadTypes, RequestTypeOK
<1>5. ASSUME NEW b \in Block, blockStatus'[b] = "Empty", NEW q \in Peer PROVE open'[q][b] = 0
    <2>1. CASE blockStatus[b] = "Empty"
        <3>1. open[q][b] = 0
            BY <1>2, <2>1
        <3>2. CASE AnyBegin
            <4>1. open'[q][b] = Entries(q, b) /\ Entries(q, b) \in Nat
                BY <1>3, <3>2, Begin_Counts DEF Counts
            <4>2. Entries(q, b) <= 0
                BY <3>1 DEF Entries
            <4> QED
                BY <4>1, <4>2
        <3>3. CASE Expire
            <4>1. PICK e \in expired : open' = [open EXCEPT ![e[1]][e[2]] = @ - 1]
                BY <3>3 DEF Expire
            <4>2. open'[q][b] = IF b = e[2] THEN 0 ELSE open[q][b]
                BY <3>3, <4>1, Expire_Counts
            <4> QED
                BY <3>1, <4>2
        <3>4. CASE AnyPick
            <4>1. PICK c \in Block : Pick(c)
                BY <3>4 DEF AnyPick
            <4>2. b # c
                BY <1>4, <1>5, <4>1 DEF Pick, UpdateBlockStatus
            <4> QED
                BY <3>1, <4>1, <4>2, Pick_Counts
        <3> QED
            BY <3>1, <3>2, <3>3, <3>4, OpenSteps
    <2>2. CASE blockStatus[b] # "Empty"
        <3>1. PICK e \in expired : /\ Expire /\ b = e[2]
                                   /\ open' = [open EXCEPT ![e[1]][e[2]] = @ - 1]
            BY <1>1, <1>5, <2>2, EmptySteps
        <3>2. open'[q][b] = IF b = e[2] THEN 0 ELSE open[q][b]
            BY <3>1, Expire_Counts
        <3> QED
            BY <3>1, <3>2
    <2> QED
        BY <2>1, <2>2
<1>6. ASSUME OnePeer, NEW q \in Peer, NEW b \in Block, HeldBlock(b)'
      PROVE  Entries(q, b)' <= After(q, b)'
    <2>1. Entries(q, b) \in Nat /\ After(q, b) \in 0..1
        BY <1>3 DEF Counts
    <2>2. CASE CountBlock
        <3>1. Entries(q, b)' = Entries(q, b) /\ After(q, b)' = IF rpeer = q /\ rblock = b THEN 1 ELSE 0
            BY <2>2, Handle_Counts
        <3>2. rpc = "count" /\ rpeer \in Peer /\ After(q, b) = 0
            BY <2>2, Handled_Open DEF CountBlock, After
        <3>3. CASE b = rblock
            <4>1. rpeer = q
                BY <1>6, <3>2, OnlyPeer
            <4>2. Entries(q, b) <= 1
                BY <1>4, <2>1 DEF Entries, CalmState, OneEach
            <4> QED
                BY <3>1, <3>3, <4>1, <4>2
        <3>4. CASE b # rblock
            <4>1. HeldBlock(b)
                BY <1>1, <1>2, <1>4, <1>6, <2>2, <3>4, CountBlock_Finds DEF HeldBlock
            <4> QED
                BY <1>2, <1>6, <2>1, <3>1, <3>2, <4>1
        <3> QED
            BY <3>3, <3>4
    <2>3. CASE ~CountBlock
        <3>1. HeldBlock(b)
            <4>1. CASE ChangeAllStatus
                <5>1. pc = "changeAll" /\ pc' \in {"changeAll", "seed"} /\ running' = running
                    BY <4>1 DEF ChangeAllStatus, ChooserAt, handlerVars
                <5> QED
                    BY <5>1 DEF Looping, CalmState, HeldIsGood
            <4>2. CASE ~ChangeAllStatus
                BY <1>1, <1>6, <2>3, <4>2, HeldSteps
            <4> QED
                BY <4>1, <4>2
        <3>2. Entries(q, b) <= After(q, b)
            BY <1>2, <1>6, <3>1
        <3>3. CASE AnyBegin
            BY <3>2, <3>3, Begin_Counts
        <3>4. CASE Expire
            <4>1. PICK e \in expired : open' = [open EXCEPT ![e[1]][e[2]] = @ - 1]
                BY <3>4 DEF Expire
            <4>2. /\ Entries(q, b)' = IF b = e[2] THEN 0 ELSE Entries(q, b)
                  /\ After(q, b)' = After(q, b)
                BY <3>4, <4>1, Expire_Counts
            <4> QED
                BY <2>1, <3>2, <4>2
        <3>5. CASE AnyPick
            <4>1. PICK c \in Block : Pick(c)
                BY <3>5 DEF AnyPick
            <4>2. c # b
                BY <3>1, <4>1, Pick_Finds
            <4> QED
                BY <3>2, <4>1, <4>2, Pick_Counts
        <3>6. CASE Send
            BY <3>2, <3>6, Send_Counts
        <3>7. CASE AnyAnswer
            BY <3>2, <3>7, Answer_Counts DEF AnyAnswer
        <3>8. CASE SettlePiece
            <4>1. After(q, b) = IF rpeer = q /\ rblock = b THEN 1 ELSE 0
                BY <3>8 DEF SettlePiece, After
            <4> QED
                BY <3>2, <3>8, <4>1, Handle_Counts
        <3>9. CASE Credit
            <4>1. After(q, b) = IF rpeer = q /\ rblock = b THEN 1 ELSE 0
                BY <3>9 DEF Credit, After
            <4> QED
                BY <2>1, <3>2, <3>9, <4>1, Credit_Counts
        <3>10. CASE AnyLose
            BY <3>2, <3>10, Lose_Counts
        <3>11. CASE UNCHANGED requestsAndAnswers
            BY <3>2, <3>11, Same_Counts
        <3> QED
            BY <2>3, <3>3, <3>4, <3>5, <3>6, <3>7, <3>8, <3>9, <3>10, <3>11, OtherSteps
    <2> QED
        BY <2>2, <2>3
<1> QED
    BY <1>5, <1>6

\* The steps that change the two copies, and what was picked from them.
LEMMA CopySteps ==
    ASSUME [Next]_vars, ~CopyDownloading, ~CopyEmpty, ~AnyPick, ~Send
    PROVE  UNCHANGED <<snapDownloading, snapEmpty, picked>>
BY DEF Next, ChooserNext, ResponderNext, Check, VerifyFile, Scan, ResetDamaged, EndReset,
       BeginRound, Expire, ServePeer, EndPeer, BecomeSeed, ChangeAllStatus, TestCompleted,
       Answer, CountBlock, SettlePiece, Credit, Stop, Lose, vars, chooserVars, AnyPick

\* A block still to be picked is left alone until it is picked.
LEMMA Copied_Alone ==
    ASSUME Known, CalmState, [Next]_vars, NEW b \in snapDownloading,
           ~\E c \in Block : Pick(c) /\ c = b
    PROVE  blockStatus'[b] = "Empty" /\ pieceStatus'[PieceOf[b]] # "Empty"
<1>1. /\ pc \in {"snapEmpty", "nextPeer", "pick"} /\ Looping
      /\ b \in Block /\ PieceOf[b] \in Piece
      /\ blockStatus[b] = "Empty" /\ pieceStatus[PieceOf[b]] # "Empty" /\ ~HeldBlock(b)
    BY LayoutAssumption DEF Known, RoundInv, CalmState, CopiesFresh, Looping, DownloadInv,
       DownloadTypes, ChooserTypeOK, HeldBlock, Held
<1>2. pieceStatus \in [Piece -> Status] /\ blockStatus \in [Block -> Status]
    BY StatusTypes
<1>3. CASE AnyPick
    <2>1. PICK c \in Block : Pick(c)
        BY <1>3 DEF AnyPick
    <2>2. c # b /\ UpdateBlockStatus("chooser", c, "Downloading")
        BY <2>1 DEF Pick
    <2> QED
        BY <1>1, <1>2, <2>2 DEF UpdateBlockStatus
<1>4. CASE CountBlock
    <2>1. rblock # b
        BY <1>1, <1>4, Handled_Open, Order_Open DEF CountBlock
    <2> QED
        BY <1>1, <1>2, <1>4, <2>1, CountBlock_Finds
<1>5. CASE SettlePiece
    <2>1. PieceOf[b] # PieceOf[rblock]
        BY <1>1, <1>5, Settle_Finds DEF SettlePiece
    <2> QED
        BY <1>1, <1>5, <2>1, Settle_Verified
<1>6. ~Expire /\ ~ChangeAllStatus /\ ~ResetDamaged
    BY <1>1 DEF Expire, ChangeAllStatus, ResetDamaged, ChooserAt
<1> QED
    BY <1>1, <1>3, <1>4, <1>5, <1>6, TableSteps

\* A block to be picked from the other copy stays on order from nobody but by
\* this round, and is not held.
LEMMA Emptied_Alone ==
    ASSUME Known, CalmState, [Next]_vars, DownloadTypes', NEW b \in snapEmpty, ~Send
    PROVE  /\ ~HeldBlock(b)'
           /\ \A q \in Peer : /\ ToCome(q, b)' = 0
                              /\ open'[q][b] > 0 => <<q, b, "Empty">> \in picked'
<1>1. pc \in {"nextPeer", "pick"} /\ Looping /\ b \in Block /\ ~HeldBlock(b)
    BY DEF Known, RoundInv, CalmState, CopiesFresh, Looping, DownloadInv, DownloadTypes,
       ChooserTypeOK
<1>2. \A q \in Peer : /\ ToCome(q, b) = 0
                      /\ open[q][b] > 0 => <<q, b, "Empty">> \in picked
    BY DEF CalmState, CopiesFresh
<1>3. ~AnyBegin /\ ~Expire /\ ~ChangeAllStatus /\ ~CopyEmpty /\ ~CopyDownloading
    BY <1>1 DEF AnyBegin, BeginRound, Expire, ChangeAllStatus, CopyEmpty, CopyDownloading,
       ChooserAt
<1>4. ~HeldBlock(b)'
    <2>1. CountBlock => rblock # b
        BY <1>1, Handled_Open, Order_Open DEF CountBlock
    <2> QED
        BY <1>1, <1>3, <2>1, HeldSteps
<1>5. ASSUME NEW q \in Peer PROVE ToCome(q, b)' = 0
    <2>1. CASE AnyPick
        BY <1>1, <1>2, <2>1, Pick_Counts DEF AnyPick
    <2>2. CASE AnyAnswer
        BY <1>1, <1>2, <2>2, Answer_Counts DEF AnyAnswer
    <2>3. CASE CountBlock \/ SettlePiece
        BY <1>1, <1>2, <2>3, Handle_Counts
    <2>4. CASE AnyLose
        BY <1>1, <1>2, <2>4, Lose_Counts
    <2>5. ~Credit
        BY <1>1 DEF Credit, Choosing
    <2>6. CASE UNCHANGED requestsAndAnswers
        BY <1>2, <2>6, Same_Counts
    <2> QED
        BY <1>3, <2>1, <2>2, <2>3, <2>4, <2>5, <2>6, OtherSteps
<1>6. ASSUME NEW q \in Peer, open'[q][b] > 0 PROVE <<q, b, "Empty">> \in picked'
    <2>1. CASE AnyPick
        <3>1. PICK c \in Block : Pick(c)
            BY <2>1 DEF AnyPick
        <3>2. picked' = picked \cup {<<cur, c, Copy>>}
            BY <3>1 DEF Pick
        <3>3. CASE q = cur /\ c = b
            <4>1. Copy = "Empty"
                <5>1. CASE Copy = "Downloading"
                    <6>1. b \in snapDownloading
                        BY <3>1, <3>3, <5>1 DEF Pick, Eligible, FromDownloading
                    <6> QED
                        BY <6>1 DEF CalmState, CopiesFresh
                <5> QED
                    BY <5>1 DEF Copy
            <4> QED
                BY <3>2, <3>3, <4>1
        <3>4. CASE ~(q = cur /\ c = b)
            <4>1. open'[q][b] = open[q][b]
                BY <1>1, <3>1, <3>4, Pick_Counts
            <4> QED
                BY <1>2, <1>6, <3>2, <4>1
        <3> QED
            BY <3>3, <3>4
    <2>2. CASE ~AnyPick
        <3>1. open' = open /\ picked' = picked
            BY <1>3, <2>2, OpenSteps, CopySteps
        <3> QED
            BY <1>2, <1>6, <3>1
    <2> QED
        BY <2>1, <2>2
<1> QED
    BY <1>4, <1>5, <1>6

\* The copies hold what is still to be asked for.
LEMMA CopiesFresh_Step ==
    ASSUME Known, CalmState, [Next]_vars, DownloadTypes'
    PROVE  CopiesFresh'
<1>1. ASSUME NEW b \in snapDownloading'
      PROVE  blockStatus'[b] = "Empty" /\ pieceStatus'[PieceOf[b]] # "Empty"
    <2>1. CASE CopyDownloading
        BY <1>1, <2>1 DEF CopyDownloading, EmptyBlocks, progressVars
    <2>2. CASE ~CopyDownloading
        <3>1. b \in snapDownloading /\ ~\E c \in Block : Pick(c) /\ c = b
            <4>1. CASE CopyEmpty
                BY <1>1, <4>1 DEF CopyEmpty, Pick, ChooserAt
            <4>2. CASE AnyPick
                BY <1>1, <4>2 DEF AnyPick, Pick
            <4>3. CASE Send
                BY <1>1, <4>3 DEF Send
            <4>4. CASE UNCHANGED snapDownloading /\ ~AnyPick
                BY <1>1, <4>4 DEF AnyPick
            <4> QED
                BY <2>2, <4>1, <4>2, <4>3, <4>4, CopySteps
        <3> QED
            BY <3>1, Copied_Alone
    <2> QED
        BY <2>1, <2>2
<1>2. snapDownloading' \cap snapEmpty' = {}
    <2>1. CASE CopyEmpty
        <3>1. /\ snapDownloading' = snapDownloading /\ snapEmpty' = EmptyBlocks("Empty")
            BY <2>1 DEF CopyEmpty
        <3> QED
            BY <3>1 DEF EmptyBlocks, CalmState, CopiesFresh
    <2>2. CASE CopyDownloading
        <3>1. snapEmpty' = {}
            BY <2>2 DEF CopyDownloading, ChooserAt, Known, RoundInv
        <3> QED
            BY <3>1
    <2>3. CASE ~CopyEmpty /\ ~CopyDownloading
        <3>1. snapDownloading' \subseteq snapDownloading /\ snapEmpty' \subseteq snapEmpty
            <4>1. CASE AnyPick
                BY <4>1 DEF AnyPick, Pick
            <4>2. CASE Send
                BY <4>2 DEF Send
            <4> QED
                BY <2>3, <4>1, <4>2, CopySteps
        <3> QED
            BY <3>1 DEF CalmState, CopiesFresh
    <2> QED
        BY <2>1, <2>2, <2>3
<1>3. ASSUME NEW b \in snapEmpty'
      PROVE  /\ ~HeldBlock(b)'
             /\ \A q \in Peer : /\ ToCome(q, b)' = 0
                                /\ open'[q][b] > 0 => <<q, b, "Empty">> \in picked'
    <2>1. CASE CopyEmpty
        <3>1. /\ b \in Block /\ blockStatus[b] = "Empty" /\ pc = "snapEmpty"
              /\ UNCHANGED <<blockStatus, open, got, asked, rpc, rpeer, rblock>>
            BY <1>3, <2>1 DEF CopyEmpty, EmptyBlocks, ChooserAt, progressVars, requestVars,
               responderVars
        <3>2. ~HeldBlock(b)'
            BY <3>1 DEF HeldBlock, Held
        <3>3. ASSUME NEW q \in Peer PROVE open'[q][b] = 0 /\ ToCome(q, b)' = 0
            <4>1. open[q][b] = 0
                BY <3>1 DEF CalmState, OrdersMatch, Looping
            <4>2. ASSUME ToCome(q, b) > 0 PROVE FALSE
                <5>1. open[q][b] = 1
                    BY <3>1, <4>2, Order_Open
                <5> QED
                    BY <4>1, <5>1
            <4>3. ToCome(q, b) \in Nat
                BY <3>1 DEF Known, Counts
            <4>4. ToCome(q, b)' = ToCome(q, b)
                BY <3>1 DEF ToCome
            <4> QED
                BY <3>1, <4>1, <4>2, <4>3, <4>4
        <3> QED
            BY <3>2, <3>3
    <2>2. CASE ~CopyEmpty
        <3>1. b \in snapEmpty /\ ~Send
            <4>1. CASE AnyPick
                BY <1>3, <4>1 DEF AnyPick, Pick, Send, ChooserAt
            <4>2. CASE CopyDownloading
                BY <1>3, <4>2 DEF CopyDownloading, Send, ChooserAt
            <4>3. CASE Send
                BY <1>3, <4>3 DEF Send
            <4> QED
                BY <1>3, <2>2, <4>1, <4>2, <4>3, CopySteps
        <3> QED
            BY <3>1, Emptied_Alone
    <2> QED
        BY <2>1, <2>2
<1> QED
    BY <1>1, <1>2, <1>3 DEF CopiesFresh

\* What is announced stays held.
LEMMA ShownHeld_Step ==
    ASSUME Known, CalmState, [Next]_vars
    PROVE  ShownHeld'
<1> SUFFICES ASSUME Looping'
             PROVE  /\ \A p \in announced' : HeldPiece(p)'
                    /\ verdict' /\ rpc' = "credit" => HeldPiece(PieceOf[rblock])'
    BY DEF ShownHeld
<1>1. Looping
    BY LoopingBefore
<1>2. /\ \A p \in announced : HeldPiece(p)
      /\ verdict /\ rpc = "credit" => HeldPiece(PieceOf[rblock])
    BY <1>1 DEF CalmState, ShownHeld
<1>3. announced \subseteq Piece
    BY DEF Known, DownloadInv, DownloadTypes, HandlerTypeOK
<1>4. ASSUME NEW p \in announced' PROVE HeldPiece(p)'
    <2>1. p \in Piece /\ HeldPiece(p)
        <3>1. CASE Credit
            <4>1. CASE verdict
                <5>1. PieceOf[rblock] \in Piece /\ rpc = "credit"
                    BY <3>1, Handled_Open DEF Credit
                <5>2. announced' = announced \cup {PieceOf[rblock]}
                    BY <3>1, <4>1 DEF Credit
                <5> QED
                    BY <1>2, <1>3, <1>4, <4>1, <5>1, <5>2
            <4>2. CASE ~verdict
                <5>1. announced' = announced
                    BY <3>1, <4>2 DEF Credit
                <5> QED
                    BY <1>2, <1>3, <1>4, <5>1
            <4> QED
                BY <4>1, <4>2
        <3>2. CASE announced' = announced
            BY <1>2, <1>3, <1>4, <3>2
        <3>3. ~Credit => announced' = announced
            BY DEF Next, ChooserNext, ResponderNext, Check, VerifyFile, Scan, ResetDamaged,
               EndReset, BeginRound, Expire, CopyDownloading, CopyEmpty, ServePeer, Pick,
               EndPeer, Send, BecomeSeed, ChangeAllStatus, TestCompleted, Answer, CountBlock,
               SettlePiece, Stop, Lose, vars
        <3> QED
            BY <3>1, <3>2, <3>3
    <2> QED
        BY <1>1, <2>1, HeldSteps
<1>5. ASSUME verdict', rpc' = "credit" PROVE HeldPiece(PieceOf[rblock])'
    <2>1. CASE CountBlock
        BY <1>5, <2>1, CountBlock_Finds
    <2>2. CASE ~CountBlock
        <3>1. ~AnyAnswer /\ ~Credit
            BY <1>5 DEF AnyAnswer, Answer, Credit
        <3>2. CASE SettlePiece
            <4>1. /\ rblock' = rblock /\ PieceOf[rblock] \in Piece
                  /\ pieceStatus'[PieceOf[rblock]] = "Verified"
                BY <1>1, <3>2, Settle_Finds, Settle_Verified DEF SettlePiece
            <4> QED
                BY <4>1 DEF HeldPiece, Held
        <3>3. CASE ~SettlePiece
            <4>1. UNCHANGED <<rpc, rblock, verdict>>
                BY <2>2, <3>1, <3>3, ResponderSteps
            <4>2. PICK p \in Piece : p = PieceOf[rblock]
                BY <1>5, <4>1, Handled_Open
            <4>3. HeldPiece(p)'
                BY <1>1, <1>2, <1>5, <4>1, <4>2, HeldSteps
            <4>4. pieceStatus'[p] \in Held
                BY <4>3 DEF HeldPiece
            <4> QED
                BY <4>1, <4>2, <4>4 DEF HeldPiece
        <3> QED
            BY <3>2, <3>3
    <2> QED
        BY <2>1, <2>2
<1> QED
    BY <1>4, <1>5

\* The initial state is calm.
LEMMA Init_Calm == Init => CalmState
<1> SUFFICES ASSUME Init PROVE CalmState
    OBVIOUS
<1>1. /\ timeouts = 0 /\ corrupt = 0 /\ ~spilt /\ lost = 0 /\ expired = {} /\ picked = {}
      /\ open = [q \in Peer |-> [b \in Block |-> 0]] /\ got = {}
      /\ asked = [q \in Peer |-> [b \in Block |-> 0]]
      /\ window = [q \in Peer |-> InitialWindow] /\ slots = 0
      /\ snapDownloading = {} /\ snapEmpty = {} /\ announced = {}
      /\ pc = "check" /\ rpc = "idle" /\ running = TRUE
    BY DEF Init
<1>2. \A q \in Peer, b \in Block : /\ open[q][b] = 0 /\ Entries(q, b) = 0 /\ ToCome(q, b) = 0
                                   /\ Ready(q, b) = 0
    BY <1>1 DEF Entries, ToCome, Ready, FromCopy
<1>3. /\ pieceStatus = [p \in Piece |-> "Empty"] /\ blockStatus = [b \in Block |-> "Empty"]
      /\ total = 0
    BY DEF Init, ProgressInit
<1>4. \A b \in Block : ~HeldBlock(b) /\ ~HeldPiece(PieceOf[b])
    BY <1>3, LayoutAssumption DEF HeldBlock, HeldPiece, Held
<1>5. WithinWindow
    <2>1. ASSUME NEW q \in Peer PROVE Cardinality(Owed(q)) <= window[q]
        <3>1. Owed(q) = {}
            BY <1>2 DEF Owed
        <3>2. Cardinality(Owed(q)) = 0 /\ window[q] \in Nat
            BY <1>1, <3>1, FS_EmptySet, DownloadAssumption
        <3> QED
            BY <3>2
    <2> QED
        BY <1>1, <2>1, DownloadAssumption DEF WithinWindow
<1>6. TableExact
    <2>1. Counted = {}
        BY <1>4, CountedHeld
    <2> QED
        BY <1>1, <1>3, <1>4, <2>1, SizeOfNone DEF TableExact
<1>7. Calm /\ OneEach /\ NoneLost
    BY <1>1, <1>2 DEF Calm, OneEach, NoneLost
<1>8. HeldIsGood /\ OrdersMatch /\ CopiesFresh /\ ShownHeld
    BY <1>1, <1>2, <1>4 DEF HeldIsGood, OrdersMatch, CopiesFresh, ShownHeld
<1> QED
    BY <1>5, <1>6, <1>7, <1>8 DEF CalmState

\* The inductive step, as long as no first fault has come.
LEMMA Calm_Step ==
    Known /\ DownloadTypes' /\ (Calm => CalmState) /\ [Next]_vars => (Calm => CalmState)'
<1> SUFFICES ASSUME Known, DownloadTypes', Calm => CalmState, [Next]_vars, Calm'
             PROVE  CalmState'
    OBVIOUS
<1>1. CalmState
    BY CalmBefore
<1>2. timeouts' = 0
    BY DEF Calm
<1>3. OneEach' /\ NoneLost'
    BY <1>1, <1>2, OneEach_Step, NoneLost_Step
<1>4. WithinWindow' /\ TableExact'
    BY <1>1, WithinWindow_Step, TableExact_Step
<1>5. HeldIsGood' /\ OrdersMatch'
    BY <1>1, HeldIsGood_Step, OrdersMatch_Step
<1>6. CopiesFresh' /\ ShownHeld'
    BY <1>1, CopiesFresh_Step, ShownHeld_Step
<1> QED
    BY <1>3, <1>4, <1>5, <1>6 DEF CalmState

\* What has been proved of all states, together.
LEMMA KnownAlways == Spec => []Known
<1>1. DownloadInv /\ RoundInv /\ LateInv /\ NoPieceStuckDownloaded /\ WrittenInv => Known
    BY CountsOfTypes DEF Known, DownloadInv
<1> QED
    BY <1>1, TrackedAlways, NoPieceStuck, WrittenAlways, PTL

\* The invariant of undisturbed downloads, with all it rests on.
LEMMA CalmAlways == Spec => [](Known /\ DownloadTypes /\ (Calm => CalmState))
<1>1. Init => (Calm => CalmState)
    BY Init_Calm
<1>2. Known => DownloadTypes
    BY DEF Known, DownloadInv
<1> QED
    BY <1>1, <1>2, KnownAlways, Calm_Step, PTL DEF Spec

\* As long as nothing is disturbed the total is exact, no peer is asked for more
\* than its window holds, and none is asked twice for a block.
THEOREM ExactUndisturbed == Spec => []ExactWhenUndisturbed
<1>1. (Calm => CalmState) => ExactWhenUndisturbed
    BY DEF Calm, OnePeer, CalmState, TableExact, WithinWindow, OneEach, ExactWhenUndisturbed
<1> QED
    BY <1>1, CalmAlways, PTL

-----------------------------------------------------------------------------
(* A corrupted block is caught.  Up to the answer that is corrupted all is *)
(* calm, so that the block is not one that is held: no piece is Verified   *)
(* or announced with it, and the file is not about to be found whole.      *)
(* From then on a good piece stays good, and what is not is found out by   *)
(* the responder's verdict or the chooser's look at the file.              *)

Checked == running /\ timeouts = 0 /\ corrupt <= 1 /\ ~spilt /\ OnePeer

SeedInv == isSeed => pc \in {"changeAll", "seed"}

GoodInv ==
    /\ \A p \in Piece : pieceStatus[p] = "Verified" \/ p \in announced => PieceGood(p)
    /\ pc \in {"finish", "changeAll", "seed"} => FileGood
    /\ verdict => rpc \in {"settle", "credit"} /\ PieceGood(PieceOf[rblock])

\* The chooser seeds at its end.
LEMMA Seed_End == SeedInv /\ [Next]_vars => SeedInv'
<1> SUFFICES ASSUME SeedInv, [Next]_vars PROVE SeedInv'
    OBVIOUS
<1>1. CASE BecomeSeed
    BY <1>1 DEF BecomeSeed, SeedInv
<1>2. CASE ~BecomeSeed
    <2>1. isSeed' = isSeed
        BY <1>2 DEF Next, ChooserNext, ResponderNext, Check, VerifyFile, Scan, ResetDamaged,
           EndReset, BeginRound, Expire, CopyDownloading, CopyEmpty, ServePeer, Pick, EndPeer,
           Send, ChangeAllStatus, TestCompleted, Answer, CountBlock, SettlePiece, Credit,
           Stop, Lose, vars, handlerVars
    <2>2. pc \in {"changeAll", "seed"} => pc' \in {"changeAll", "seed"}
        BY DEF Next, ChooserNext, ResponderNext, Check, VerifyFile, Scan, ResetDamaged,
           EndReset, BeginRound, Expire, CopyDownloading, CopyEmpty, ServePeer, Pick, EndPeer,
           Send, BecomeSeed, ChangeAllStatus, TestCompleted, Answer, CountBlock, SettlePiece,
           Credit, Stop, Lose, vars, chooserVars, ChooserAt
    <2> QED
        BY <2>1, <2>2 DEF SeedInv
<1> QED
    BY <1>1, <1>2

\* Faults are not taken back.
LEMMA CheckedBefore ==
    ASSUME Known, [Next]_vars, Checked'
    PROVE  Checked
<1>1. timeouts = 0 /\ running /\ OnePeer
    BY TimeoutsGrow, WrittenStays DEF Known, DownloadInv, Checked, OnePeer
<1>2. CASE AnyAnswer
    <2>1. PICK q \in Peer, b \in Block, content \in {"good", "bad"} : Answer(q, b, content)
        BY <1>2 DEF AnyAnswer
    <2>2. corrupt \in Nat
        BY DownloadAssumption DEF Known, DownloadInv, DownloadTypes, HandlerTypeOK
    <2>3. corrupt <= 1
        BY <2>1, <2>2 DEF Answer, Checked
    <2>4. spilt' = (spilt \/ SpiltOn(q, b) # {}) /\ ~spilt'
        BY <2>1 DEF Answer, Checked
    <2>5. ~spilt
        BY <2>4, Zenon
    <2> QED
        BY <1>1, <2>3, <2>5 DEF Checked
<1>3. CASE ~AnyAnswer
    BY <1>1, <1>3, DiskSteps DEF Checked
<1> QED
    BY <1>2, <1>3

\* The corrupted answer is for a block that is not held.
LEMMA Bad_Answer ==
    ASSUME Known, Calm => CalmState, Checked, Checked', GoodInv,
           NEW q \in Peer, NEW b \in Block, Answer(q, b, "bad")
    PROVE  GoodInv'
<1>1. corrupt = 0
    <2>1. corrupt \in Nat
        BY DownloadAssumption DEF Known, DownloadInv, DownloadTypes, HandlerTypeOK
    <2> QED
        BY <2>1 DEF Answer, Checked
<1>2. CalmState
    BY <1>1 DEF Calm, Checked
<1>3. rpc = "idle" /\ ToCome(q, b) > 0
    <2>1. asked[q][b] \in Nat
        BY DEF Known, DownloadInv, DownloadTypes, HandlerTypeOK
    <2>2. rpc = "idle" /\ asked[q][b] > 0
        BY DEF Answer
    <2>3. ToCome(q, b) = asked[q][b] + 0
        BY <2>2 DEF ToCome
    <2> QED
        BY <2>1, <2>2, <2>3
<1>4. ~HeldBlock(b)
    <2>1. Entries(q, b) = 1
        BY <1>2, <1>3, Order_Open
    <2>2. After(q, b) = 0
        BY <1>3 DEF After
    <2> QED
        BY <1>2, <2>1, <2>2 DEF CalmState, OrdersMatch, Looping, Checked
<1>5. ~HeldPiece(PieceOf[b])
    BY <1>2, <1>4 DEF CalmState, TableExact
<1>6. /\ \A c \in Block : disk'[c] = IF c = b THEN "bad" ELSE disk[c]
      /\ UNCHANGED <<pieceStatus, announced, pc, verdict>>
    <2>1. SpiltOn(q, b) = {}
        <3>1. spilt' = (spilt \/ SpiltOn(q, b) # {}) /\ ~spilt'
            BY DEF Answer, Checked
        <3> QED
            BY <3>1, Zenon
    <2> QED
        BY <2>1 DEF Answer, progressVars, chooserVars
<1>7. ASSUME NEW p \in Piece, pieceStatus'[p] = "Verified" \/ p \in announced'
      PROVE  PieceGood(p)'
    <2>1. HeldPiece(p)
        BY <1>2, <1>6, <1>7 DEF HeldPiece, Held, CalmState, ShownHeld, Looping, Checked
    <2>2. p # PieceOf[b] /\ PieceGood(p)
        BY <1>5, <1>6, <1>7, <2>1 DEF GoodInv
    <2> QED
        BY <1>6, <2>2 DEF PieceGood, BlocksOf
<1>8. pc' \notin {"finish", "changeAll", "seed"}
    BY <1>2, <1>4, <1>6 DEF CalmState, HeldIsGood, Checked
<1>9. ~verdict'
    BY <1>3, <1>6 DEF GoodInv
<1> QED
    BY <1>7, <1>8, <1>9 DEF GoodInv

\* Any other step leaves good what is good.
LEMMA GoodStays ==
    ASSUME Known, [Next]_vars, Checked',
           ~\E q \in Peer, b \in Block : Answer(q, b, "bad")
    PROVE  /\ \A p \in Piece : PieceGood(p) => PieceGood(p)'
           /\ FileGood => FileGood'
<1>1. \A b \in Block : disk[b] = "good" => disk'[b] = "good"
    <2>1. CASE AnyAnswer
        <3>1. PICK q \in Peer, b \in Block, content \in {"good", "bad"} : Answer(q, b, content)
            BY <2>1 DEF AnyAnswer
        <3>2. content = "good"
            BY <3>1
        <3>3. SpiltOn(q, b) = {}
            <4>1. spilt' = (spilt \/ SpiltOn(q, b) # {}) /\ ~spilt'
                BY <3>1 DEF Answer, Checked
            <4> QED
                BY <4>1, Zenon
        <3> QED
            BY <3>1, <3>2, <3>3 DEF Answer
    <2>2. CASE ~AnyAnswer
        BY <2>2, DiskSteps
    <2> QED
        BY <2>1, <2>2
<1>2. \A p \in Piece : PieceGood(p) => PieceGood(p)'
    BY <1>1 DEF PieceGood, BlocksOf
<1>3. FileGood => FileGood'
    BY <1>2 DEF FileGood
<1> QED
    BY <1>2, <1>3

\* So what is Verified, announced or seeded is found good.
LEMMA Good_Other ==
    ASSUME Known, Checked, Checked', GoodInv, [Next]_vars,
           ~\E q \in Peer, b \in Block : Answer(q, b, "bad")
    PROVE  GoodInv'
<1>1. pieceStatus \in [Piece -> Status]
    BY StatusTypes
<1>2. /\ \A p \in Piece : PieceGood(p) => PieceGood(p)'
      /\ FileGood => FileGood'
    BY GoodStays
<1>3. rpc # "idle" => rblock \in Block /\ PieceOf[rblock] \in Piece
    BY LayoutAssumption DEF Known, DownloadInv, DownloadTypes, ThreadsOK
<1>4. announced \subseteq Piece
    BY DEF Known, DownloadInv, DownloadTypes, HandlerTypeOK
<1>5. ASSUME NEW p \in Piece, pieceStatus'[p] = "Verified"
      PROVE  PieceGood(p)
    <2>1. CASE pieceStatus[p] = "Verified"
        BY <2>1 DEF GoodInv
    <2>2. CASE pieceStatus[p] # "Verified" /\ SettlePiece
        <3>1. PieceOf[rblock] = p /\ verdict
            BY <1>1, <1>5, <2>2 DEF SettlePiece, UpdatePieceStatus, Outcome
        <3> QED
            BY <3>1 DEF GoodInv
    <2>3. CASE ChangeAllStatus
        BY <2>3 DEF ChangeAllStatus, ChooserAt, GoodInv, FileGood
    <2>4. CASE ResetDamaged /\ pieceStatus[p] # "Verified"
        BY <1>1, <1>5, <2>4 DEF ResetDamaged, UpdatePieceStatus
    <2>5. CASE CountBlock /\ pieceStatus[p] # "Verified"
        BY <1>1, <1>5, <2>5 DEF CountBlock, DownloadedBlock
    <2>6. CASE (Expire \/ AnyPick) /\ pieceStatus[p] # "Verified"
        BY <1>1, <1>5, <2>6 DEF Expire, AnyPick, Pick, UpdateBlockStatus
    <2>7. CASE UNCHANGED pieceStatus
        BY <1>5, <2>7 DEF GoodInv
    <2> QED
        BY <2>1, <2>2, <2>3, <2>4, <2>5, <2>6, <2>7, TableSteps
<1>6. ASSUME NEW p \in announced' PROVE p \in Piece /\ PieceGood(p)
    <2>1. CASE Credit /\ verdict
        <3>1. announced' = announced \cup {PieceOf[rblock]} /\ rpc = "credit"
            BY <2>1 DEF Credit
        <3> QED
            BY <1>3, <1>4, <1>6, <2>1, <3>1 DEF GoodInv
    <2>2. CASE ~(Credit /\ verdict)
        <3>1. announced' = announced
            BY <2>2 DEF Next, ChooserNext, ResponderNext, Check, VerifyFile, Scan,
               ResetDamaged, EndReset, BeginRound, Expire, CopyDownloading, CopyEmpty,
               ServePeer, Pick, EndPeer, Send, BecomeSeed, ChangeAllStatus, TestCompleted,
               Answer, CountBlock, SettlePiece, Credit, Stop, Lose, vars
        <3> QED
            BY <1>4, <1>6, <3>1 DEF GoodInv
    <2> QED
        BY <2>1, <2>2
<1>7. ASSUME pc' \in {"finish", "changeAll", "seed"} PROVE FileGood
    <2>1. pc \in {"verify", "finish", "changeAll", "seed"}
        BY <1>7, PcSteps DEF Checked
    <2>2. CASE pc = "verify"
        <3>1. VerifyFile
            BY <1>7, <2>2 DEF Next, ChooserNext, ResponderNext, Check, VerifyFile, Scan,
               ResetDamaged, EndReset, BeginRound, Expire, CopyDownloading, CopyEmpty,
               ServePeer, Pick, EndPeer, Send, BecomeSeed, ChangeAllStatus, TestCompleted,
               Answer, CountBlock, SettlePiece, Credit, Stop, Lose, vars, chooserVars,
               ChooserAt
        <3> QED
            BY <1>7, <3>1 DEF VerifyFile
    <2>3. CASE pc # "verify"
        BY <2>1, <2>3 DEF GoodInv
    <2> QED
        BY <2>2, <2>3
<1>8. ASSUME verdict'
      PROVE  /\ rpc' \in {"settle", "credit"} /\ rblock' = rblock
             /\ PieceOf[rblock] \in Piece /\ PieceGood(PieceOf[rblock])
    <2>1. CASE CountBlock
        <3>1. rpc = "count" /\ rblock' = rblock
            BY <2>1 DEF CountBlock
        <3>2. verdict' = (pieceStatus'[PieceOf[rblock]] = "Downloaded" /\ PieceGood(PieceOf[rblock]))
            BY <2>1 DEF CountBlock
        <3>3. pieceStatus'[PieceOf[rblock]] = "Downloaded" /\ PieceGood(PieceOf[rblock])
            BY <1>8, <3>2, Zenon
        <3>4. rpc' = "settle"
            BY <2>1, <3>3 DEF CountBlock
        <3> QED
            BY <1>3, <3>1, <3>3, <3>4
    <2>2. CASE SettlePiece
        <3>1. rpc = "settle" /\ rpc' = "credit" /\ rblock' = rblock /\ verdict
            BY <1>8, <2>2 DEF SettlePiece
        <3> QED
            BY <1>3, <3>1 DEF GoodInv
    <2>3. CASE AnyAnswer
        BY <1>8, <2>3 DEF AnyAnswer, Answer, GoodInv
    <2>4. ~Credit
        BY <1>8 DEF Credit
    <2>5. CASE UNCHANGED <<rpc, rblock, verdict>>
        <3>1. verdict /\ rpc \in {"settle", "credit"} /\ rpc' = rpc /\ rblock' = rblock
            BY <1>8, <2>5 DEF GoodInv
        <3> QED
            BY <1>3, <3>1 DEF GoodInv
    <2> QED
        BY <2>1, <2>2, <2>3, <2>4, <2>5, ResponderSteps
<1>9. (\A p \in Piece : pieceStatus[p] = "Verified" \/ p \in announced => PieceGood(p))'
    BY <1>2, <1>5, <1>6
<1>10. (pc \in {"finish", "changeAll", "seed"} => FileGood)'
    BY <1>2, <1>7
<1>11. (verdict => rpc \in {"settle", "credit"} /\ PieceGood(PieceOf[rblock]))'
    <2> SUFFICES ASSUME verdict' PROVE rpc' \in {"settle", "credit"} /\ PieceGood(PieceOf[rblock])'
        OBVIOUS
    <2>1. PICK p \in Piece : p = PieceOf[rblock] /\ PieceGood(p) /\ rblock' = rblock
        BY <1>8
    <2>2. PieceGood(p)'
        BY <1>2, <2>1
    <2> QED
        BY <1>8, <2>1, <2>2 DEF PieceGood
<1> QED
    BY <1>9, <1>10, <1>11 DEF GoodInv

\* What is checked stays good through every step.
LEMMA Good_Step ==
    Known /\ (Calm => CalmState) /\ (Checked => GoodInv) /\ [Next]_vars => (Checked => GoodInv)'
<1> SUFFICES ASSUME Known, Calm => CalmState, Checked => GoodInv, [Next]_vars, Checked'
             PROVE  GoodInv'
    OBVIOUS
<1>1. Checked /\ GoodInv
    BY CheckedBefore
<1>2. CASE \E q \in Peer, b \in Block : Answer(q, b, "bad")
    BY <1>1, <1>2, Bad_Answer
<1>3. CASE ~\E q \in Peer, b \in Block : Answer(q, b, "bad")
    BY <1>1, <1>3, Good_Other
<1> QED
    BY <1>2, <1>3

\* A first corrupted block is found out, by the hash of its piece or of the file.
THEOREM CorruptionIsCaught == Spec => []CorruptionCaught
<1>1. Init => SeedInv /\ (Checked => GoodInv)
    BY DEF Init, ProgressInit, SeedInv, GoodInv
<1>2. SeedInv /\ (Checked => GoodInv) => CorruptionCaught
    <2> SUFFICES ASSUME SeedInv, Checked, GoodInv PROVE Kept
        BY DEF CorruptionCaught, Checked, OnePeer
    <2> QED
        BY DEF SeedInv, GoodInv, Kept
<1> QED
    BY <1>1, <1>2, CalmAlways, Seed_End, Good_Step, PTL DEF Spec
=============================================================================
