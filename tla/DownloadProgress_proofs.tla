----------------------- MODULE DownloadProgress_proofs -----------------------
(***************************************************************************)
(* The total of DownloadProgress never falls short of the bytes held, for  *)
(* every layout of the file and every number of threads.                   *)
(***************************************************************************)
EXTENDS DownloadProgress, FiniteSetTheorems, TLAPS

\* The number of bytes in a set of blocks is a natural number.
LEMMA SizeType ==
    ASSUME NEW S
    PROVE  Size(S) \in Nat
<1>1. {y \in Byte : BlockOf[y] \in S} \subseteq Byte
    OBVIOUS
<1> QED
    BY <1>1, LayoutAssumption, FS_Subset, FS_CardinalityType DEF Size

\* More blocks, no fewer bytes.
LEMMA SizeMonotone ==
    ASSUME NEW S, NEW T, S \subseteq T
    PROVE  Size(S) <= Size(T)
<1> DEFINE Bytes(R) == {y \in Byte : BlockOf[y] \in R}
<1>1. Bytes(T) \subseteq Byte /\ Bytes(S) \subseteq Bytes(T)
    OBVIOUS
<1>2. IsFiniteSet(Bytes(T))
    BY <1>1, LayoutAssumption, FS_Subset
<1> QED
    BY <1>1, <1>2, FS_Subset DEF Size

\* The bytes of two disjoint sets of blocks are counted once each.
LEMMA SizeOfDisjoint ==
    ASSUME NEW S, NEW T, S \cap T = {}
    PROVE  Size(S \cup T) = Size(S) + Size(T)
<1> DEFINE Bytes(R) == {y \in Byte : BlockOf[y] \in R}
<1>1. Bytes(S) \subseteq Byte /\ Bytes(T) \subseteq Byte
    OBVIOUS
<1>2. IsFiniteSet(Bytes(S)) /\ IsFiniteSet(Bytes(T))
    BY <1>1, LayoutAssumption, FS_Subset
<1>3. Bytes(S \cup T) = Bytes(S) \cup Bytes(T)
    OBVIOUS
<1>4. Bytes(S) \cap Bytes(T) = {}
    OBVIOUS
<1>5. Cardinality(Bytes(S) \cap Bytes(T)) = 0
    BY <1>4, FS_EmptySet
<1>6. Cardinality(Bytes(S)) \in Nat /\ Cardinality(Bytes(T)) \in Nat
    BY <1>2, FS_CardinalityType
<1>7. Cardinality(Bytes(S) \cup Bytes(T))
        = Cardinality(Bytes(S)) + Cardinality(Bytes(T)) - Cardinality(Bytes(S) \cap Bytes(T))
    BY <1>2, FS_Union
<1>8. Cardinality(Bytes(S \cup T)) = Cardinality(Bytes(S)) + Cardinality(Bytes(T))
    <2> HIDE DEF Bytes
    <2>1. Cardinality(Bytes(S) \cup Bytes(T)) = Cardinality(Bytes(S)) + Cardinality(Bytes(T))
        BY <1>5, <1>6, <1>7
    <2> QED
        BY <1>3, <2>1
<1>9. \A R : Size(R) = Cardinality(Bytes(R))
    BY DEF Size
<1> HIDE DEF Bytes
<1> QED
    BY <1>8, <1>9

\* The bytes of a union are at most those of its parts.
LEMMA SizeOfUnion ==
    ASSUME NEW S, NEW T
    PROVE  Size(S \cup T) <= Size(S) + Size(T)
<1>1. S \cup T = S \cup (T \ S) /\ S \cap (T \ S) = {}
    OBVIOUS
<1>2. Size(S \cup T) = Size(S) + Size(T \ S)
    BY <1>1, SizeOfDisjoint
<1>3. Size(T \ S) <= Size(T)
    BY SizeMonotone
<1> QED
    BY <1>2, <1>3, SizeType

\* A number that covers the blocks of S covers those of T, too, when what is
\* taken off it is for blocks of S that are not in T, and what is put on it for
\* all the blocks of T that are not in S.
LEMMA SizeCovered ==
    ASSUME NEW S, NEW T, NEW off, NEW on, off \subseteq S, T \subseteq (S \ off) \cup on,
           NEW n \in Int, n >= Size(S)
    PROVE  n - Size(off) + Size(on) >= Size(T)
<1>1. Size(S) = Size(S \ off) + Size(off)
    <2>1. S = (S \ off) \cup off /\ (S \ off) \cap off = {}
        OBVIOUS
    <2> QED
        BY <2>1, SizeOfDisjoint
<1>2. Size(T) <= Size((S \ off) \cup on)
    BY SizeMonotone
<1>3. Size((S \ off) \cup on) <= Size(S \ off) + Size(on)
    BY SizeOfUnion
<1>4. /\ Size(S) \in Nat /\ Size(T) \in Nat /\ Size(off) \in Nat /\ Size(on) \in Nat
      /\ Size(S \ off) \in Nat /\ Size((S \ off) \cup on) \in Nat
    BY SizeType
<1> QED
    BY <1>1, <1>2, <1>3, <1>4

\* No blocks, no bytes.
LEMMA SizeOfNone == Size({}) = 0
<1>1. {y \in Byte : BlockOf[y] \in {}} = {}
    OBVIOUS
<1> QED
    BY <1>1, FS_EmptySet DEF Size

\* The whole file is the bytes of all its blocks.
LEMMA SizeOfAll == Size(Block) = FileSize
<1>1. {y \in Byte : BlockOf[y] \in Block} = Byte
    BY LayoutAssumption
<1> QED
    BY <1>1 DEF Size, FileSize

-----------------------------------------------------------------------------
(* The inductive invariant is the conjunction of the two: that total stays *)
(* a natural number when a piece is emptied needs that it was no less than *)
(* the bytes taken off.                                                    *)

ProgressInv == ProgressTypeOK /\ NeverUndercounts

\* A fresh table counts nothing and holds nothing.
LEMMA ProgressInit_Inv == ProgressInit => ProgressInv
<1> SUFFICES ASSUME ProgressInit PROVE ProgressInv
    OBVIOUS
<1> USE DEF ProgressInit
<1>1. ProgressTypeOK
    BY DEF ProgressTypeOK, Status
<1>2. Counted = {}
    BY LayoutAssumption DEF Counted, Held
<1>3. Size({}) = 0
    <2>1. {y \in Byte : BlockOf[y] \in {}} = {}
        OBVIOUS
    <2> QED
        BY <2>1, FS_EmptySet DEF Size
<1> QED
    BY <1>1, <1>2, <1>3 DEF ProgressInv, NeverUndercounts

\* downloadedBlock adds the block's bytes unless they were held already.
LEMMA DownloadedBlock_Inv ==
    ASSUME ProgressInv, NEW t \in Thread, NEW b \in Block, DownloadedBlock(t, b)
    PROVE  ProgressInv'
<1> USE LayoutAssumption DEF ProgressInv, ProgressTypeOK
<1>1. Size({b}) \in Nat /\ Size(Counted) \in Nat
    BY SizeType
<1>2. ProgressTypeOK'
    <2>1. pieceStatus' \in [Piece -> Status] /\ blockStatus' \in [Block -> Status]
        BY DEF DownloadedBlock, Status
    <2>2. total' \in Nat
        BY <1>1 DEF DownloadedBlock, NewBytes
    <2>3. completed' = completed /\ checking' = checking
        BY DEF DownloadedBlock
    <2> QED
        BY <2>1, <2>2, <2>3
<1>3. Counted' \subseteq Counted \cup {b}
    BY DEF DownloadedBlock, Counted, Held, BlocksOf, Status
<1>4. CASE blockStatus[b] \in Held
    <2>1. b \in Counted
        BY <1>4 DEF Counted
    <2>2. Size(Counted') <= Size(Counted)
        BY <1>3, <2>1, SizeMonotone
    <2>3. total' = total
        BY <1>4 DEF DownloadedBlock, NewBytes
    <2> QED
        BY <1>1, <1>2, <2>2, <2>3, SizeType DEF NeverUndercounts
<1>5. CASE blockStatus[b] \notin Held
    <2>1. Size(Counted') <= Size(Counted \cup {b})
        BY <1>3, SizeMonotone
    <2>2. Size(Counted \cup {b}) <= Size(Counted) + Size({b})
        BY SizeOfUnion
    <2>3. total' = total + Size({b})
        BY <1>5 DEF DownloadedBlock, NewBytes
    <2>4. Size(Counted') \in Nat /\ Size(Counted \cup {b}) \in Nat
        BY SizeType
    <2> QED
        BY <1>1, <1>2, <2>1, <2>2, <2>3, <2>4 DEF NeverUndercounts
<1> QED
    BY <1>4, <1>5

\* setStatus(Empty) takes off the bytes held by the piece, which were counted.
LEMMA EmptyPiece_Inv ==
    ASSUME ProgressInv, NEW t \in Thread, NEW p \in Piece, UpdatePieceStatus(t, p, "Empty")
    PROVE  ProgressInv'
<1> USE LayoutAssumption DEF ProgressInv
<1> DEFINE Rem == Removed(p, "Empty")
<1>1. Added(p, "Empty") = {} /\ Size({}) = 0
    <2>1. {y \in Byte : BlockOf[y] \in {}} = {}
        OBVIOUS
    <2> QED
        BY <2>1, FS_EmptySet DEF Added, Held, Size
<1>2. Rem \subseteq Counted /\ Rem \cap Counted' = {} /\ Counted' \subseteq Counted
    BY DEF UpdatePieceStatus, Removed, Counted, BlocksOf, Held, ProgressTypeOK
<1>3. Size(Counted' \cup Rem) = Size(Counted') + Size(Rem)
    BY <1>2, SizeOfDisjoint
<1>4. Size(Counted' \cup Rem) <= Size(Counted)
    BY <1>2, SizeMonotone
<1>5. /\ Size(Counted) \in Nat /\ Size(Counted') \in Nat
      /\ Size(Rem) \in Nat /\ Size(Counted' \cup Rem) \in Nat
    BY SizeType
<1>6. total' = total - Size(Rem)
    BY <1>1, <1>5 DEF UpdatePieceStatus, ProgressTypeOK
<1>7. total' \in Nat /\ total' >= Size(Counted')
    BY <1>3, <1>4, <1>5, <1>6 DEF NeverUndercounts, ProgressTypeOK
<1>8. ProgressTypeOK'
    BY <1>7 DEF UpdatePieceStatus, ProgressTypeOK, Status
<1> QED
    BY <1>7, <1>8 DEF NeverUndercounts

\* setStatus(Downloaded) and setStatus(Verified) put on what was not held.
LEMMA HeldPiece_Inv ==
    ASSUME ProgressInv, NEW t \in Thread, NEW p \in Piece, NEW s \in Held,
           UpdatePieceStatus(t, p, s)
    PROVE  ProgressInv'
<1> USE LayoutAssumption DEF ProgressInv
<1> DEFINE Add == Added(p, s)
<1>1. Removed(p, s) = {} /\ Size({}) = 0
    <2>1. {y \in Byte : BlockOf[y] \in {}} = {}
        OBVIOUS
    <2> QED
        BY <2>1, FS_EmptySet DEF Removed, Held, Size
<1>2. Counted' \subseteq Counted \cup Add
    BY DEF UpdatePieceStatus, Added, Counted, BlocksOf, Held, ProgressTypeOK
<1>3. Size(Counted') <= Size(Counted \cup Add)
    BY <1>2, SizeMonotone
<1>4. Size(Counted \cup Add) <= Size(Counted) + Size(Add)
    BY SizeOfUnion
<1>5. /\ Size(Counted) \in Nat /\ Size(Counted') \in Nat
      /\ Size(Add) \in Nat /\ Size(Counted \cup Add) \in Nat
    BY SizeType
<1>6. total' = total + Size(Add)
    BY <1>1, <1>5 DEF UpdatePieceStatus, ProgressTypeOK
<1>7. total' \in Nat /\ total' >= Size(Counted')
    BY <1>3, <1>4, <1>5, <1>6 DEF NeverUndercounts, ProgressTypeOK
<1>8. ProgressTypeOK'
    BY <1>7 DEF UpdatePieceStatus, ProgressTypeOK, Status, Held
<1> QED
    BY <1>7, <1>8 DEF NeverUndercounts

\* updateBlockStatus leaves the total and holds nothing more.
LEMMA UpdateBlockStatus_Inv ==
    ASSUME ProgressInv, NEW t \in Thread, NEW b \in Block,
           NEW s \in {"Empty", "Downloading"}, UpdateBlockStatus(t, b, s)
    PROVE  ProgressInv'
<1> USE LayoutAssumption DEF ProgressInv
<1>1. ProgressTypeOK'
    BY DEF UpdateBlockStatus, ProgressTypeOK, Status
<1>2. Counted' \subseteq Counted
    BY DEF UpdateBlockStatus, Counted, Held, ProgressTypeOK
<1>3. Size(Counted') <= Size(Counted)
    BY <1>2, SizeMonotone
<1>4. Size(Counted) \in Nat /\ Size(Counted') \in Nat
    BY SizeType
<1> QED
    BY <1>1, <1>3, <1>4 DEF NeverUndercounts, UpdateBlockStatus, ProgressTypeOK

\* Every step of the table keeps the invariant.
LEMMA ProgressNext_Inv == ProgressInv /\ [ProgressNext]_progressVars => ProgressInv'
<1> SUFFICES ASSUME ProgressInv, [ProgressNext]_progressVars
             PROVE  ProgressInv'
    OBVIOUS
<1>1. ASSUME NEW t \in Thread, NEW b \in Block, DownloadedBlock(t, b)
      PROVE  ProgressInv'
    BY <1>1, DownloadedBlock_Inv
<1>2. ASSUME NEW t \in Thread, NEW p \in Piece, NEW s \in {"Empty", "Downloaded", "Verified"},
             UpdatePieceStatus(t, p, s)
      PROVE  ProgressInv'
    <2>1. CASE s = "Empty"
        BY <1>2, <2>1, EmptyPiece_Inv
    <2>2. CASE s \in Held
        BY <1>2, <2>2, HeldPiece_Inv
    <2> QED
        BY <2>1, <2>2 DEF Held
<1>3. ASSUME NEW t \in Thread, NEW b \in Block, NEW s \in {"Empty", "Downloading"},
             UpdateBlockStatus(t, b, s)
      PROVE  ProgressInv'
    BY <1>3, UpdateBlockStatus_Inv
<1>4. ASSUME NEW t \in Thread, CheckCompleted(t)
      PROVE  ProgressInv'
    BY <1>4 DEF CheckCompleted, ProgressInv, ProgressTypeOK, NeverUndercounts, Counted, Full
<1>5. CASE Done
    <2>1. Size(Block) \in Nat
        BY SizeType
    <2>2. ProgressTypeOK'
        BY <1>5, <2>1 DEF Done, ProgressInv, ProgressTypeOK, Status
    <2>3. Counted' = Block
        BY <1>5, LayoutAssumption DEF Done, Counted, Held
    <2> QED
        BY <1>5, <2>1, <2>2, <2>3 DEF Done, ProgressInv, NeverUndercounts
<1>6. CASE UNCHANGED progressVars
    BY <1>6 DEF progressVars, ProgressInv, ProgressTypeOK, NeverUndercounts, Counted
<1> QED
    BY <1>1, <1>2, <1>3, <1>4, <1>5, <1>6 DEF ProgressNext

\* Type correctness: in particular _totalDownloadBytes never wraps below zero.
THEOREM ProgressTypeCorrect == ProgressSpec => []ProgressTypeOK
<1>1. ProgressInv => ProgressTypeOK
    BY DEF ProgressInv
<1> QED
    BY <1>1, ProgressInit_Inv, ProgressNext_Inv, PTL DEF ProgressSpec

\* Whatever calls interleave, the total covers every byte held.
THEOREM ProgressNeverUndercounts == ProgressSpec => []NeverUndercounts
<1>1. ProgressInv => NeverUndercounts
    BY DEF ProgressInv
<1> QED
    BY <1>1, ProgressInit_Inv, ProgressNext_Inv, PTL DEF ProgressSpec

\* Hence progress() is at least 1 whenever every block is held.
THEOREM CompletionNotMissed == ProgressSpec => []NoMissedCompletion
<1>1. NeverUndercounts => NoMissedCompletion
    BY SizeOfAll DEF NeverUndercounts, NoMissedCompletion, Full
<1> QED
    BY <1>1, ProgressNeverUndercounts, PTL

=============================================================================
