--------------------------- MODULE Layout_proofs ----------------------------
(***************************************************************************)
(* Lemmas about sequences of fields: how long they are and where each      *)
(* field is. What a recursive function computes is proved by looking at    *)
(* the least number for which it were wrong.                               *)
(***************************************************************************)
EXTENDS Layout, SequenceTheorems, WellFoundedInduction, TLAPS

\* A set of natural numbers has a least one.
LEMMA LeastNumber ==
    ASSUME NEW S, S \subseteq Nat, S # {}
    PROVE  \E x \in S : \A y \in S : x <= y
<1>1. \E x \in S : \A y \in S : ~ (<<y, x>> \in OpToRel(<, Nat))
    BY NatLessThanWellFounded, WFMin
<1>2. PICK x \in S : \A y \in S : ~ (<<y, x>> \in OpToRel(<, Nat))
    BY <1>1
<1>3. ASSUME NEW y \in S PROVE x <= y
    <2>1. x \in Nat /\ y \in Nat
        OBVIOUS
    <2>2. <<y, x>> \notin OpToRel(<, Nat)
        BY <1>2
    <2>3. ~ (y < x)
        BY <2>1, <2>2 DEF OpToRel
    <2> QED
        BY <2>1, <2>3
<1> QED
    BY <1>3

\* What holds at 0, and after every number at the next, holds up to n.
LEMMA UpTo ==
    ASSUME NEW n \in Nat, NEW T, 0 \in T, \A m \in 0..(n - 1) : m \in T => m + 1 \in T
    PROVE  0..n \subseteq T
<1>1. SUFFICES ASSUME (0..n) \ T # {} PROVE FALSE
    OBVIOUS
<1>2. PICK x \in (0..n) \ T : \A y \in (0..n) \ T : x <= y
    <2>1. (0..n) \ T \subseteq Nat
        OBVIOUS
    <2> QED
        BY <1>1, <2>1, LeastNumber
<1>3. x - 1 \in 0..(n - 1) /\ x - 1 \in T /\ (x - 1) + 1 = x
    BY <1>2
<1> QED
    BY <1>2, <1>3

-----------------------------------------------------------------------------
(* Totals.                                                                 *)

\* t[i] is the length of the first i fields.
Totals(fields, t) ==
    /\ DOMAIN t = 0..Len(fields)
    /\ t[0] = 0
    /\ \A i \in 1..Len(fields) : t[i] = t[i - 1] + fields[i].length

\* Every field has a length.
Sized(fields) == Len(fields) \in Nat /\ \A i \in 1..Len(fields) : fields[i].length \in Nat

\* There is but one way to count the bytes up to each field.
LEMMA TotalsUnique ==
    ASSUME NEW fields, NEW t, NEW u, Sized(fields), Totals(fields, t), Totals(fields, u)
    PROVE  \A i \in 0..Len(fields) : t[i] \in Nat /\ u[i] = t[i]
<1> DEFINE T == {i \in 0..Len(fields) : t[i] \in Nat /\ u[i] = t[i]}
<1>1. Len(fields) \in Nat
    BY DEF Sized
<1>2. 0 \in T
    BY <1>1 DEF Totals
<1>3. ASSUME NEW i \in 0..(Len(fields) - 1), i \in T PROVE i + 1 \in T
    <2>1. i + 1 \in 1..Len(fields) /\ (i + 1) - 1 = i /\ i + 1 \in 0..Len(fields)
        BY <1>1
    <2>2. t[i + 1] = t[i] + fields[i + 1].length /\ u[i + 1] = u[i] + fields[i + 1].length
        BY <2>1 DEF Totals
    <2>3. fields[i + 1].length \in Nat
        BY <2>1 DEF Sized
    <2> QED
        BY <1>3, <2>1, <2>2, <2>3
<1>4. 0..Len(fields) \subseteq T
    <2> HIDE DEF T
    <2> QED
        BY <1>1, <1>2, <1>3, UpTo
<1> QED
    BY <1>4

\* They can be counted, however many fields there are.
LEMMA TotalsExist ==
    ASSUME NEW fields, Sized(fields)
    PROVE  \E t : Totals(fields, t)
<1> DEFINE Good(n, t) == /\ t[0] = 0
                         /\ \A i \in 1..n : t[i] = t[i - 1] + fields[i].length
           T == {n \in 0..Len(fields) : \E t : Good(n, t)}
<1>1. Len(fields) \in Nat
    BY DEF Sized
<1>2. 0 \in T
    <2>1. Good(0, [i \in {0} |-> 0])
        OBVIOUS
    <2>2. 0 \in 0..Len(fields)
        BY <1>1
    <2> HIDE DEF Good
    <2> QED
        BY <2>1, <2>2
<1>3. ASSUME NEW n \in 0..(Len(fields) - 1), n \in T PROVE n + 1 \in T
    <2>1. PICK t : Good(n, t)
        BY <1>3
    <2> DEFINE u == [i \in 0..(n + 1) |-> IF i = n + 1 THEN t[n] + fields[n + 1].length ELSE t[i]]
    <2>2. u[0] = 0
        BY <1>1, <2>1
    <2>3. ASSUME NEW i \in 1..(n + 1) PROVE u[i] = u[i - 1] + fields[i].length
        BY <1>1, <2>1, <2>3
    <2>4. Good(n + 1, u)
        BY <2>2, <2>3
    <2>5. n + 1 \in 0..Len(fields)
        BY <1>1
    <2> HIDE DEF Good, u
    <2> QED
        BY <2>4, <2>5
<1>4. 0..Len(fields) \subseteq T
    <2> HIDE DEF T
    <2> QED
        BY <1>1, <1>2, <1>3, UpTo
<1>5. Len(fields) \in T
    BY <1>1, <1>4
<1>6. PICK t : Good(Len(fields), t)
    BY <1>5
<1> DEFINE u == [i \in 0..Len(fields) |-> t[i]]
<1>7. \A i \in 0..Len(fields) : u[i] = t[i]
    OBVIOUS
<1>8. 0 \in 0..Len(fields) /\ \A i \in 1..Len(fields) : i \in 0..Len(fields) /\ i - 1 \in 0..Len(fields)
    BY <1>1
<1>9. Totals(fields, u)
    BY <1>6, <1>7, <1>8 DEF Totals
<1> QED
    BY <1>9

\* The function that TotalLength defines is that of the totals.
LEMMA TotalIs ==
    ASSUME NEW fields, NEW t, Sized(fields), Totals(fields, t)
    PROVE  TotalLength(fields) = t[Len(fields)]
<1> DEFINE Body(u) == [n \in 0..Len(fields) |-> IF n = 0 THEN 0 ELSE u[n - 1] + fields[n].length]
           c == CHOOSE total : total = Body(total)
<1>1. TotalLength(fields) = c[Len(fields)]
    BY DEF TotalLength
<1>2. Len(fields) \in Nat
    BY DEF Sized
<1>3. ASSUME NEW u, u = Body(u) PROVE Totals(fields, u)
    <2>1. DOMAIN u = 0..Len(fields)
        BY <1>3
    <2>2. \A i \in 0..Len(fields) : u[i] = IF i = 0 THEN 0 ELSE u[i - 1] + fields[i].length
        BY <1>3
    <2> QED
        BY <1>2, <2>1, <2>2 DEF Totals
<1>4. [i \in 0..Len(fields) |-> t[i]] = Body([i \in 0..Len(fields) |-> t[i]])
    BY <1>2 DEF Totals
<1>5. c = Body(c)
    <2> HIDE DEF Body
    <2> QED
        BY <1>4, Zenon
<1>6. Totals(fields, c)
    BY <1>3, <1>5
<1>7. c[Len(fields)] = t[Len(fields)]
    <2> HIDE DEF c
    <2> QED
        BY <1>2, <1>6, TotalsUnique
<1> QED
    BY <1>1, <1>7

\* Where the fields are, by the totals.
LEMMA Places ==
    ASSUME NEW X, NEW fields \in Seq(X), NEW t, Sized(fields), Totals(fields, t)
    PROVE  /\ TotalLength(fields) = t[Len(fields)]
           /\ \A i \in 1..Len(fields) : Start(fields, i) = t[i - 1]
           /\ Written(fields) = {Placed(fields[i].name, t[i - 1], fields[i].length) : i \in 1..Len(fields)}
<1>1. ASSUME NEW i \in 1..Len(fields) PROVE Start(fields, i) = t[i - 1]
    <2> DEFINE first == SubSeq(fields, 1, i - 1)
               u == [j \in 0..(i - 1) |-> t[j]]
    <2>1. /\ Len(fields) \in Nat /\ Len(first) = i - 1
          /\ \A j \in 1..(i - 1) : first[j] = fields[j] /\ j \in 1..Len(fields)
        OBVIOUS
    <2>2. Sized(first)
        BY <2>1 DEF Sized
    <2>3. Totals(first, u)
        BY <2>1 DEF Totals
    <2>4. TotalLength(first) = u[i - 1]
        <3> HIDE DEF first, u
        <3> QED
            BY <2>1, <2>2, <2>3, TotalIs
    <2> QED
        BY <2>1, <2>4 DEF Start
<1>2. DOMAIN fields = 1..Len(fields)
    OBVIOUS
<1> QED
    BY <1>1, <1>2, TotalIs DEF Written

-----------------------------------------------------------------------------
(* Sequences of fields that are put together.                              *)

\* The fields with these names.
Fields(N) == [name : N, length : Nat]

\* A field with a name and a length.
LEMMA FieldIs ==
    ASSUME NEW N, NEW name \in N, NEW n \in Nat
    PROVE  Field(name, n) \in Fields(N) /\ Field(name, n).name = name /\ Field(name, n).length = n
    BY DEF Field, Fields

\* The lengths of such fields can be added.
LEMMA SizedFields ==
    ASSUME NEW N, NEW fields \in Seq(Fields(N))
    PROVE  Sized(fields)
<1>1. Len(fields) \in Nat /\ \A i \in 1..Len(fields) : fields[i] \in Fields(N)
    OBVIOUS
<1> QED
    BY <1>1 DEF Sized, Fields

\* The places of these, as many bytes later.
Later(places, n) == {Placed(f.name, n + f.start, f.length) : f \in places}

\* No field takes no byte.
LEMMA EmptyWritten == Written(<<>>) = {} /\ TotalLength(<<>>) = 0
<1>1. Sized(<<>>) /\ Totals(<<>>, [i \in {0} |-> 0]) /\ <<>> \in Seq({})
    BY DEF Sized, Totals
<1> QED
    BY <1>1, TotalIs DEF Written

\* Of two sequences the second begins where the first one ends.
LEMMA Joined ==
    ASSUME NEW N, NEW a \in Seq(Fields(N)), NEW b \in Seq(Fields(N))
    PROVE  /\ a \o b \in Seq(Fields(N))
           /\ TotalLength(a) \in Nat /\ TotalLength(b) \in Nat
           /\ TotalLength(a \o b) = TotalLength(a) + TotalLength(b)
           /\ Written(a \o b) = Written(a) \cup Later(Written(b), TotalLength(a))
<1> DEFINE m == Len(a)
           n == Len(b)
           c == a \o b
<1>1. /\ m \in Nat /\ n \in Nat /\ c \in Seq(Fields(N)) /\ Len(c) = m + n
      /\ \A i \in 1..m : c[i] = a[i]
      /\ \A i \in 1..n : c[m + i] = b[i]
    OBVIOUS
<1>2. Sized(a) /\ Sized(b) /\ Sized(c)
    BY <1>1, SizedFields
<1>3. PICK t : Totals(a, t)
    BY <1>2, TotalsExist
<1>4. PICK u : Totals(b, u)
    BY <1>2, TotalsExist
<1>5. /\ \A i \in 0..m : t[i] \in Nat
      /\ \A i \in 0..n : u[i] \in Nat
    BY <1>2, <1>3, <1>4, TotalsUnique
<1> DEFINE v == [i \in 0..(m + n) |-> IF i <= m THEN t[i] ELSE t[m] + u[i - m]]
<1> HIDE DEF m, n, c
<1>6. /\ \A i \in 0..m : v[i] = t[i]
      /\ \A i \in 0..n : v[m + i] = t[m] + u[i]
    <2>1. u[0] = 0
        BY <1>4 DEF Totals
    <2>2. ASSUME NEW i \in 0..m PROVE v[i] = t[i]
        BY <1>1
    <2>3. ASSUME NEW i \in 0..n PROVE v[m + i] = t[m] + u[i]
        <3>1. CASE i = 0
            BY <1>1, <1>5, <2>1, <3>1
        <3>2. CASE i # 0
            <4>1. m + i \in 0..(m + n) /\ ~ (m + i <= m) /\ (m + i) - m = i
                BY <1>1, <3>2
            <4> QED
                BY <4>1
        <3> QED
            BY <3>1, <3>2
    <2> QED
        BY <2>2, <2>3
<1>7. ASSUME NEW i \in 1..(m + n) PROVE v[i] = v[i - 1] + c[i].length
    <2>1. CASE i <= m
        <3>1. i \in 1..m /\ i \in 0..m /\ i - 1 \in 0..m
            BY <1>1, <2>1
        <3>2. t[i] = t[i - 1] + a[i].length
            BY <1>3, <3>1 DEF Totals, m
        <3> HIDE DEF v
        <3> QED
            BY <1>1, <1>6, <3>1, <3>2
    <2>2. CASE i > m
        <3> DEFINE j == i - m
        <3>1. j \in 1..n /\ j \in 0..n /\ j - 1 \in 0..n /\ m + j = i /\ m + (j - 1) = i - 1
            BY <1>1, <2>2
        <3>2. u[j] = u[j - 1] + b[j].length
            BY <1>4, <3>1 DEF Totals, n
        <3>3. b[j].length \in Nat
            BY <1>2, <3>1 DEF Sized, n
        <3> HIDE DEF v, j
        <3>4. v[i] = t[m] + u[j] /\ v[i - 1] = t[m] + u[j - 1] /\ c[i] = b[j]
            BY <1>1, <1>6, <3>1
        <3>5. t[m] \in Nat /\ u[j - 1] \in Nat
            BY <1>1, <1>5, <3>1
        <3> QED
            BY <3>2, <3>3, <3>4, <3>5
    <2> QED
        BY <1>1, <2>1, <2>2
<1>8. Totals(c, v)
    <2>1. DOMAIN v = 0..Len(c) /\ v[0] = 0
        BY <1>1, <1>3, <1>6 DEF Totals
    <2> HIDE DEF v
    <2> QED
        BY <1>1, <1>7, <2>1 DEF Totals
<1> HIDE DEF v
<1>9. /\ TotalLength(a) = t[m]
      /\ Written(a) = {Placed(a[i].name, t[i - 1], a[i].length) : i \in 1..m}
    BY <1>2, <1>3, Places DEF m
<1>10. /\ TotalLength(b) = u[n]
       /\ Written(b) = {Placed(b[i].name, u[i - 1], b[i].length) : i \in 1..n}
    BY <1>2, <1>4, Places DEF n
<1>11. /\ TotalLength(c) = v[m + n]
       /\ Written(c) = {Placed(c[i].name, v[i - 1], c[i].length) : i \in 1..(m + n)}
    <2>1. /\ TotalLength(c) = v[Len(c)]
          /\ Written(c) = {Placed(c[i].name, v[i - 1], c[i].length) : i \in 1..Len(c)}
        <3>1. c \in Seq(Fields(N))
            BY <1>1
        <3> QED
            BY <1>2, <1>8, <3>1, Places
    <2> QED
        BY <1>1, <2>1
<1>12. /\ m \in 0..m /\ n \in 0..n
       /\ t[m] \in Nat /\ u[n] \in Nat /\ v[m + n] = t[m] + u[n]
    BY <1>1, <1>5, <1>6
<1>13. Written(c) = Written(a) \cup Later(Written(b), t[m])
    <2>1. ASSUME NEW i \in 1..m PROVE Placed(a[i].name, t[i - 1], a[i].length) \in Written(c)
        <3>1. i \in 1..(m + n) /\ i - 1 \in 0..m
            BY <1>1
        <3>2. c[i] = a[i] /\ v[i - 1] = t[i - 1]
            BY <1>1, <1>6, <3>1
        <3>3. Placed(c[i].name, v[i - 1], c[i].length) \in Written(c)
            BY <1>11, <3>1
        <3> QED
            BY <3>2, <3>3
    <2>2. ASSUME NEW i \in 1..n PROVE Placed(b[i].name, t[m] + u[i - 1], b[i].length) \in Written(c)
        <3>1. m + i \in 1..(m + n) /\ i - 1 \in 0..n /\ (m + i) - 1 = m + (i - 1)
            BY <1>1
        <3>2. c[m + i] = b[i] /\ v[(m + i) - 1] = t[m] + u[i - 1]
            BY <1>1, <1>6, <3>1
        <3>3. Placed(c[m + i].name, v[(m + i) - 1], c[m + i].length) \in Written(c)
            BY <1>11, <3>1
        <3> QED
            BY <3>2, <3>3
    <2>3. ASSUME NEW i \in 1..(m + n)
          PROVE  \/ \E j \in 1..m : Placed(c[i].name, v[i - 1], c[i].length) = Placed(a[j].name, t[j - 1], a[j].length)
                 \/ \E j \in 1..n : Placed(c[i].name, v[i - 1], c[i].length)
                                    = Placed(b[j].name, t[m] + u[j - 1], b[j].length)
        <3>1. CASE i <= m
            <4>1. i \in 1..m /\ i - 1 \in 0..m
                BY <1>1, <3>1
            <4>2. c[i] = a[i] /\ v[i - 1] = t[i - 1]
                BY <1>1, <1>6, <4>1
            <4> QED
                BY <4>1, <4>2
        <3>2. CASE i > m
            <4> DEFINE j == i - m
            <4>1. j \in 1..n /\ j - 1 \in 0..n /\ m + j = i /\ m + (j - 1) = i - 1
                BY <1>1, <3>2
            <4> HIDE DEF j
            <4>2. c[i] = b[j] /\ v[i - 1] = t[m] + u[j - 1]
                BY <1>1, <1>6, <4>1
            <4> QED
                BY <4>1, <4>2
        <3> QED
            BY <1>1, <3>1, <3>2
    <2>4. Later(Written(b), t[m]) = {Placed(b[i].name, t[m] + u[i - 1], b[i].length) : i \in 1..n}
        <3>1. \A i : LET f == Placed(b[i].name, u[i - 1], b[i].length)
                     IN  f.name = b[i].name /\ f.start = u[i - 1] /\ f.length = b[i].length
            BY DEF Placed
        <3> QED
            BY <1>10, <3>1 DEF Later
    <2> QED
        BY <1>9, <1>11, <2>1, <2>2, <2>3, <2>4
<1> QED
    BY <1>1, <1>9, <1>10, <1>11, <1>12, <1>13 DEF c

\* One field,
LEMMA OneField ==
    ASSUME NEW N, NEW f \in Fields(N)
    PROVE  /\ <<f>> \in Seq(Fields(N))
           /\ TotalLength(<<f>>) = f.length
           /\ Written(<<f>>) = {Placed(f.name, 0, f.length)}
<1> DEFINE fields == <<f>>
           t == [i \in 0..1 |-> IF i = 0 THEN 0 ELSE f.length]
<1>1. fields \in Seq(Fields(N)) /\ Len(fields) = 1 /\ fields[1] = f /\ f.length \in Nat
    BY DEF Fields
<1>2. t[0] = 0 /\ t[1] = f.length
    OBVIOUS
<1>3. Sized(fields) /\ Totals(fields, t)
    BY <1>1, <1>2 DEF Sized, Totals
<1>4. /\ TotalLength(fields) = t[Len(fields)]
      /\ Written(fields) = {Placed(fields[i].name, t[i - 1], fields[i].length) : i \in 1..Len(fields)}
    <2>1. fields \in Seq(Fields(N))
        BY <1>1
    <2> HIDE DEF fields, t
    <2> QED
        BY <1>3, <2>1, Places
<1>5. Written(fields) = {Placed(fields[1].name, t[0], fields[1].length)}
    <2> HIDE DEF fields, t
    <2> QED
        BY <1>1, <1>4
<1> QED
    BY <1>1, <1>2, <1>4, <1>5

\* one more, and
LEMMA OneMore ==
    ASSUME NEW N, NEW a \in Seq(Fields(N)), NEW f \in Fields(N)
    PROVE  /\ a \o <<f>> \in Seq(Fields(N))
           /\ TotalLength(a) \in Nat
           /\ TotalLength(a \o <<f>>) = TotalLength(a) + f.length
           /\ Written(a \o <<f>>) = Written(a) \cup {Placed(f.name, TotalLength(a), f.length)}
<1>1. /\ a \o <<f>> \in Seq(Fields(N))
      /\ TotalLength(a) \in Nat
      /\ TotalLength(a \o <<f>>) = TotalLength(a) + TotalLength(<<f>>)
      /\ Written(a \o <<f>>) = Written(a) \cup Later(Written(<<f>>), TotalLength(a))
    BY OneField, Joined
<1>2. Later({Placed(f.name, 0, f.length)}, TotalLength(a)) = {Placed(f.name, TotalLength(a), f.length)}
    BY <1>1 DEF Later, Placed
<1> QED
    BY <1>1, <1>2, OneField

\* two
LEMMA TwoFields ==
    ASSUME NEW N, NEW f \in Fields(N), NEW g \in Fields(N)
    PROVE  /\ <<f, g>> \in Seq(Fields(N))
           /\ TotalLength(<<f, g>>) = f.length + g.length
           /\ Written(<<f, g>>) = {Placed(f.name, 0, f.length), Placed(g.name, f.length, g.length)}
<1> DEFINE a == <<f, g>>
           c == <<f>>
           b == c \o <<g>>
<1>1. c \in Seq(Fields(N))
    OBVIOUS
<1>2. /\ a \in Seq(Fields(N)) /\ Len(a) = 2
      /\ a[1] = f /\ a[2] = g
    OBVIOUS
<1>3. /\ b \in Seq(Fields(N)) /\ Len(b) = 2
      /\ b[1] = f /\ b[2] = g
    OBVIOUS
<1>4. a = b
    <2> HIDE DEF a, b
    <2>1. \A i \in 1..Len(a) : a[i] = b[i]
        BY <1>2, <1>3
    <2> QED
        BY <1>2, <1>3, <2>1, SeqEqual
<1>5. /\ TotalLength(c) = f.length
      /\ Written(c) = {Placed(f.name, 0, f.length)}
    BY OneField
<1>6. f.length \in Nat /\ g.length \in Nat
    BY DEF Fields
<1>7. /\ TotalLength(b) = f.length + g.length
      /\ Written(b) = {Placed(f.name, 0, f.length),
            Placed(g.name, f.length, g.length)}
    <2> HIDE DEF c
    <2> QED
        BY <1>1, <1>5, <1>6, OneMore
<1> HIDE DEF b
<1> QED
    BY <1>2, <1>4, <1>7

\* or three of them.
LEMMA ThreeFields ==
    ASSUME NEW N, NEW f \in Fields(N), NEW g \in Fields(N), NEW h \in Fields(N)
    PROVE  /\ <<f, g, h>> \in Seq(Fields(N))
           /\ TotalLength(<<f, g, h>>) = f.length + g.length + h.length
           /\ Written(<<f, g, h>>) = {Placed(f.name, 0, f.length), Placed(g.name, f.length, g.length),
                                      Placed(h.name, f.length + g.length, h.length)}
<1> DEFINE a == <<f, g, h>>
           c == <<f, g>>
           b == c \o <<h>>
<1>1. c \in Seq(Fields(N))
    OBVIOUS
<1>2. /\ a \in Seq(Fields(N)) /\ Len(a) = 3
      /\ a[1] = f /\ a[2] = g /\ a[3] = h
    OBVIOUS
<1>3. /\ b \in Seq(Fields(N)) /\ Len(b) = 3
      /\ b[1] = f /\ b[2] = g /\ b[3] = h
    OBVIOUS
<1>4. a = b
    <2> HIDE DEF a, b
    <2>1. \A i \in 1..Len(a) : a[i] = b[i]
        BY <1>2, <1>3
    <2> QED
        BY <1>2, <1>3, <2>1, SeqEqual
<1>5. /\ TotalLength(c) = f.length + g.length
      /\ Written(c) = {Placed(f.name, 0, f.length),
            Placed(g.name, f.length, g.length)}
    BY TwoFields
<1>6. f.length \in Nat /\ g.length \in Nat /\ h.length \in Nat
    BY DEF Fields
<1>7. /\ TotalLength(b) = f.length + g.length + h.length
      /\ Written(b) = {Placed(f.name, 0, f.length),
            Placed(g.name, f.length, g.length),
            Placed(h.name, f.length + g.length, h.length)}
    <2> HIDE DEF c
    <2> QED
        BY <1>1, <1>5, <1>6, OneMore
<1> HIDE DEF b
<1> QED
    BY <1>2, <1>4, <1>7
=============================================================================
