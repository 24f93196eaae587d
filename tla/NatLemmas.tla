------------------------------ MODULE NatLemmas ------------------------------
(***************************************************************************)
(* Facts about numbers and sequences that several proofs share: induction  *)
(* in the form of the least number of a set, division, multiples of a      *)
(* segment size, what is left of a sequence without one of its elements,   *)
(* and the entries of an event list.                                       *)
(***************************************************************************)
EXTENDS Integers, Sequences, SequencesExt, SequenceTheorems, FiniteSets,
        FiniteSetTheorems, WellFoundedInduction, TLAPS

(* Induction: a set of natural numbers has a least element.                *)
LEMMA LeastNumber ==
  ASSUME NEW T \in SUBSET Nat, T # {}
  PROVE  \E n \in T : \A m \in T : n <= m
<1> DEFINE R == OpToRel(<, Nat)
<1>1. IsWellFoundedOn(R, Nat)
  BY NatLessThanWellFounded
<1>2. PICK n \in T : \A m \in T : ~ (<<m, n>> \in R)
  <2> HIDE DEF R
  <2> QED
    BY <1>1, WFMin
<1>3. \A m \in T : ~ (m < n)
  BY <1>2 DEF OpToRel
<1> QED
  BY <1>3

(* Of the first numbers up to l, as many as there are without a break are  *)
(* in T.                                                                   *)
LEMMA LongestPrefix ==
  ASSUME NEW l \in Nat, NEW T
  PROVE  \E n \in 0 .. l : (\A i \in 1 .. n : i \in T) /\ (n < l => n + 1 \notin T)
<1> DEFINE N == {n \in 0 .. l : n < l => n + 1 \notin T}
<1>1. N \in SUBSET Nat /\ l \in N
  OBVIOUS
<1>2. PICK n \in N : \A m \in N : n <= m
  BY <1>1, LeastNumber
<1>3. ASSUME NEW i \in 1 .. n PROVE i \in T
  <2>1. i - 1 \in 0 .. l /\ i - 1 < l /\ ~ (n <= i - 1) /\ (i - 1) + 1 = i
    BY <1>2
  <2> QED
    BY <1>2, <2>1
<1> QED
  BY <1>2, <1>3

-----------------------------------------------------------------------------
(* Multiples.                                                              *)

(* b divides a.                                                            *)
Divides(b, a) == a % b = 0

(* Division with remainder.                                                *)
LEMMA DivMod ==
  ASSUME NEW a \in Int, NEW b \in Nat \ {0}
  PROVE  /\ a % b \in 0 .. (b - 1)
         /\ a \div b \in Int
         /\ a = b * (a \div b) + (a % b)
OBVIOUS

(* Division of natural numbers.                                            *)
LEMMA DivNat ==
  ASSUME NEW a \in Nat, NEW b \in Nat \ {0}
  PROVE  /\ a \div b \in Nat
         /\ a % b \in 0 .. (b - 1)
         /\ a = b * (a \div b) + (a % b)
<1> DEFINE k == a \div b
           r == a % b
<1>1. k \in Int /\ r \in 0 .. (b - 1) /\ a = b * k + r
  BY DivMod
<1> HIDE DEF k, r
<1>2. CASE k < 0
  <2>1. b * k <= 0 - b
    BY <1>1, <1>2
  <2> QED
    BY <1>1, <2>1
<1>3. k \in Nat
  BY <1>1, <1>2
<1> QED
  BY <1>1, <1>3 DEF k, r

(* What is b times an integer leaves no remainder.                         *)
LEMMA DividesProduct ==
  ASSUME NEW b \in Nat \ {0}, NEW k \in Int
  PROVE  Divides(b, b * k)
<1> DEFINE q == (b * k) \div b
           r == (b * k) % b
<1>1. b * k \in Int
  OBVIOUS
<1>2. q \in Int /\ r \in 0 .. (b - 1) /\ b * k = b * q + r
  BY <1>1, DivMod
<1> HIDE DEF q, r
<1>3. b * (k - q) = r
  BY <1>2
<1>4. k - q = 0
  BY <1>2, <1>3
<1> QED
  BY <1>2, <1>3, <1>4 DEF r, Divides

(* What leaves no remainder is b times an integer.                         *)
LEMMA DividesQuotient ==
  ASSUME NEW a \in Int, NEW b \in Nat \ {0}, Divides(b, a)
  PROVE  \E k \in Int : a = b * k
<1> DEFINE k == a \div b
<1>1. k \in Int /\ a = b * k + (a % b)
  BY DivMod
<1> HIDE DEF k
<1> QED
  BY <1>1 DEF Divides

(* Sums and differences of multiples are multiples.                        *)
LEMMA DividesSum ==
  ASSUME NEW a \in Int, NEW c \in Int, NEW b \in Nat \ {0}, Divides(b, a), Divides(b, c)
  PROVE  Divides(b, a + c) /\ Divides(b, a - c)
<1>1. PICK k \in Int : a = b * k
  BY DividesQuotient
<1>2. PICK l \in Int : c = b * l
  BY DividesQuotient
<1>3. /\ a + c = b * (k + l) /\ k + l \in Int
      /\ a - c = b * (k - l) /\ k - l \in Int
  BY <1>1, <1>2
<1> QED
  BY <1>3, DividesProduct

(* 0 and b are multiples of b.                                             *)
LEMMA DividesBase ==
  ASSUME NEW b \in Nat \ {0}
  PROVE  Divides(b, 0) /\ Divides(b, b)
<1>1. b * 0 = 0 /\ b * 1 = b
  OBVIOUS
<1> QED
  BY <1>1, DividesProduct

(* Different multiples are at least b apart.                               *)
LEMMA DividesGap ==
  ASSUME NEW a \in Int, NEW c \in Int, NEW b \in Nat \ {0},
         Divides(b, a), Divides(b, c), a < c
  PROVE  a + b <= c
<1>1. PICK k \in Int : a = b * k
  BY DividesQuotient
<1>2. PICK l \in Int : c = b * l
  BY DividesQuotient
<1>3. b * (l - k) > 0
  BY <1>1, <1>2
<1>4. l - k >= 1
  BY <1>3
<1>5. b * (l - k) >= b
  BY <1>4
<1> QED
  BY <1>1, <1>2, <1>5

-----------------------------------------------------------------------------
(* Sequences.                                                              *)

(* A sequence without its i-th element.                                    *)
LEMMA RemoveAtFacts ==
  ASSUME NEW S, NEW s \in Seq(S), NEW i \in 1 .. Len(s)
  PROVE  /\ RemoveAt(s, i) \in Seq(S)
         /\ Len(RemoveAt(s, i)) = Len(s) - 1
         /\ \A j \in 1 .. (Len(s) - 1) :
              RemoveAt(s, i)[j] = s[IF j < i THEN j ELSE j + 1]
<1> DEFINE b == SubSeq(s, 1, i - 1)
           a == SubSeq(s, i + 1, Len(s))
<1>1. b \in Seq(S) /\ Len(b) = i - 1 /\ \A j \in 1 .. (i - 1) : b[j] = s[j]
  OBVIOUS
<1>2. a \in Seq(S) /\ Len(a) = Len(s) - i /\ \A j \in 1 .. (Len(s) - i) : a[j] = s[i + j]
  OBVIOUS
<1>3. RemoveAt(s, i) = b \o a
  BY DEF RemoveAt
<1> HIDE DEF a, b
<1>4. /\ b \o a \in Seq(S) /\ Len(b \o a) = Len(s) - 1
      /\ \A j \in 1 .. (Len(s) - 1) : (b \o a)[j] = IF j <= i - 1 THEN b[j] ELSE a[j - (i - 1)]
  BY <1>1, <1>2, ConcatProperties, SMTT(60)
<1>5. ASSUME NEW j \in 1 .. (Len(s) - 1)
      PROVE  (b \o a)[j] = s[IF j < i THEN j ELSE j + 1]
  <2>1. CASE j < i
    BY <1>1, <1>4, <2>1
  <2>2. CASE ~ (j < i)
    <3>1. j - (i - 1) \in 1 .. (Len(s) - i) /\ i + (j - (i - 1)) = j + 1
      BY <2>2
    <3>2. a[j - (i - 1)] = s[j + 1]
      BY <1>2, <3>1
    <3> QED
      BY <1>4, <2>2, <3>2, SMTT(60)
  <2> QED
    BY <2>1, <2>2
<1> QED
  BY <1>3, <1>4, <1>5

(* A sequence with the element e put in before its i-th.                   *)
LEMMA InsertAtFacts ==
  ASSUME NEW S, NEW s \in Seq(S), NEW i \in 1 .. (Len(s) + 1), NEW e \in S
  PROVE  /\ InsertAt(s, i, e) \in Seq(S)
         /\ Len(InsertAt(s, i, e)) = Len(s) + 1
         /\ \A j \in 1 .. (Len(s) + 1) :
              InsertAt(s, i, e)[j] = IF j < i THEN s[j] ELSE IF j = i THEN e ELSE s[j - 1]
<1> DEFINE b == SubSeq(s, 1, i - 1)
           p == b \o <<e>>
           a == SubSeq(s, i, Len(s))
<1>1. b \in Seq(S) /\ Len(b) = i - 1 /\ \A j \in 1 .. (i - 1) : b[j] = s[j]
  OBVIOUS
<1>2. /\ a \in Seq(S) /\ Len(a) = Len(s) - i + 1
      /\ \A j \in 1 .. (Len(s) - i + 1) : a[j] = s[i + j - 1]
  OBVIOUS
<1>3. <<e>> \in Seq(S) /\ Len(<<e>>) = 1 /\ <<e>>[1] = e
  OBVIOUS
<1>4. InsertAt(s, i, e) = p \o a
  BY DEF InsertAt
<1>5. /\ p \in Seq(S) /\ Len(p) = i
      /\ \A j \in 1 .. i : p[j] = IF j < i THEN s[j] ELSE e
  <2> HIDE DEF b
  <2> QED
    BY <1>1, <1>3, ConcatProperties
<1> HIDE DEF a, b, p
<1>6. Len(s) \in Nat /\ i \in Nat /\ Len(p) + Len(a) = Len(s) + 1
  BY <1>2, <1>5
<1>7. /\ p \o a \in Seq(S) /\ Len(p \o a) = Len(s) + 1
      /\ \A j \in 1 .. (Len(s) + 1) : (p \o a)[j] = IF j <= i THEN p[j] ELSE a[j - i]
  <2>1. /\ p \o a \in Seq(S) /\ Len(p \o a) = Len(p) + Len(a)
        /\ \A j \in 1 .. (Len(p) + Len(a)) :
             (p \o a)[j] = IF j <= Len(p) THEN p[j] ELSE a[j - Len(p)]
    BY <1>2, <1>5, ConcatProperties, ZenonT(60)
  <2> QED
    BY <1>5, <1>6, <2>1
<1>8. ASSUME NEW j \in 1 .. (Len(s) + 1)
      PROVE  (p \o a)[j] = IF j < i THEN s[j] ELSE IF j = i THEN e ELSE s[j - 1]
  <2>1. CASE j <= i
    <3>1. (p \o a)[j] = p[j] /\ j \in 1 .. i
      BY <1>6, <1>7, <2>1
    <3> QED
      BY <1>5, <3>1
  <2>2. CASE j > i
    <3>1. j - i \in 1 .. (Len(s) - i + 1) /\ i + (j - i) - 1 = j - 1
      BY <1>6, <2>2
    <3>2. a[j - i] = s[j - 1]
      BY <1>2, <3>1
    <3>3. ~ (j <= i) /\ ~ (j < i) /\ j # i
      BY <1>6, <2>2
    <3> QED
      BY <1>7, <3>2, <3>3
  <2> QED
    BY <1>6, <2>1, <2>2
<1> QED
  BY <1>4, <1>7, <1>8

(* The elements of a sequence.                                             *)
LEMMA ElementType ==
  ASSUME NEW S, NEW s \in Seq(S)
  PROVE  \A m \in 1 .. Len(s) : s[m] \in S
OBVIOUS

(* A sequence whose neighbours are in order is in order.                   *)
LEMMA Ordered ==
  ASSUME NEW s \in Seq(Nat), \A i \in 1 .. Len(s) : i > 1 => s[i - 1] < s[i]
  PROVE  \A i, j \in 1 .. Len(s) : i < j => s[i] < s[j]
<1> SUFFICES ASSUME NEW i \in 1 .. Len(s), NEW k \in 1 .. Len(s), i < k, ~ (s[i] < s[k])
             PROVE  FALSE
  OBVIOUS
<1> DEFINE T == {j \in 1 .. Len(s) : i < j /\ ~ (s[i] < s[j])}
<1>1. T \in SUBSET Nat /\ k \in T
  OBVIOUS
<1>2. PICK j \in T : \A m \in T : j <= m
  BY <1>1, LeastNumber
<1>3. j - 1 \in 1 .. Len(s) /\ j \in 1 .. Len(s) /\ j > 1 /\ s[j - 1] < s[j]
  BY <1>2
<1>4. s[i] \in Nat /\ s[j] \in Nat /\ s[j - 1] \in Nat
  <2>1. \A m \in 1 .. Len(s) : s[m] \in Nat
    BY ElementType, ZenonT(60)
  <2> QED
    BY <1>3, <2>1
<1>5. CASE j - 1 = i
  BY <1>2, <1>3, <1>4, <1>5
<1>6. CASE j - 1 > i
  <2>1. j - 1 \notin T
    BY <1>2, <1>3
  <2>2. s[i] < s[j - 1] /\ ~ (s[i] < s[j])
    BY <1>2, <1>3, <1>6, <2>1
  <2> QED
    BY ONLY <1>3, <1>4, <2>2
<1> QED
  BY <1>2, <1>3, <1>5, <1>6

(* The same where neighbours may be equal.                                 *)
LEMMA WeaklyOrdered ==
  ASSUME NEW s \in Seq(Nat), \A i \in 2 .. Len(s) : s[i - 1] <= s[i],
         NEW i \in 1 .. Len(s), NEW k \in 1 .. Len(s), i <= k
  PROVE  s[i] <= s[k]
<1> SUFFICES ASSUME ~ (s[i] <= s[k])
             PROVE  FALSE
  OBVIOUS
<1> DEFINE T == {j \in 1 .. Len(s) : i <= j /\ ~ (s[i] <= s[j])}
<1>1. T \in SUBSET Nat /\ k \in T
  OBVIOUS
<1>2. PICK j \in T : \A m \in T : j <= m
  BY <1>1, LeastNumber
<1>3. \A m \in 1 .. Len(s) : s[m] \in Nat
  BY SMTT(60)
<1>4. j \in 1 .. Len(s) /\ i <= j /\ ~ (s[i] <= s[j]) /\ s[i] \in Nat /\ s[j] \in Nat
  BY <1>2, <1>3
<1>5. j # i
  BY <1>4
<1>6. j \in 2 .. Len(s) /\ j - 1 \in 1 .. Len(s) /\ i <= j - 1 /\ ~ (j <= j - 1)
  BY <1>4, <1>5
<1>7. s[j - 1] \in Nat /\ s[j - 1] <= s[j]
  BY <1>3, <1>6
<1>8. j - 1 \notin T
  BY <1>2, <1>6
<1>9. s[i] <= s[j - 1]
  BY <1>6, <1>8
<1> QED
  BY <1>4, <1>7, <1>9, SMTT(60)
-----------------------------------------------------------------------------
(* Lists of entries with a source, as the event list has them.             *)

(* The places of the entries of src.                                       *)
EntriesOf(list, src) == {k \in 1 .. Len(list) : list[k].src = src}

(* Where the entry at k is when another one is inserted at i.              *)
Moved(i, k) == IF k < i THEN k ELSE k + 1

(* What an entry that is inserted does to the places of the others.        *)
LEMMA InsertPlaces ==
  ASSUME NEW S, NEW s \in Seq(S), NEW i \in 1 .. (Len(s) + 1), NEW e \in S
  PROVE  LET t == InsertAt(s, i, e)
         IN  /\ t \in Seq(S) /\ Len(t) = Len(s) + 1 /\ t[i] = e
             /\ \A k \in 1 .. Len(s) : Moved(i, k) \in 1 .. Len(t) /\ t[Moved(i, k)] = s[k]
             /\ \A src : EntriesOf(t, src) = {Moved(i, k) : k \in EntriesOf(s, src)}
                                          \cup (IF e.src = src THEN {i} ELSE {})
<1> DEFINE t == InsertAt(s, i, e)
<1>1. /\ t \in Seq(S) /\ Len(t) = Len(s) + 1
      /\ \A j \in 1 .. (Len(s) + 1) :
           t[j] = IF j < i THEN s[j] ELSE IF j = i THEN e ELSE s[j - 1]
  BY InsertAtFacts
<1> HIDE DEF t
<1>2. Len(s) \in Nat /\ i \in Nat /\ i >= 1 /\ i <= Len(s) + 1
  OBVIOUS
<1>3. t[i] = e /\ i \in 1 .. Len(t)
  BY <1>1, <1>2
<1>4. ASSUME NEW k \in 1 .. Len(s)
      PROVE  Moved(i, k) \in 1 .. Len(t) /\ t[Moved(i, k)] = s[k]
  <2>1. CASE k < i
    BY <1>1, <1>2, <2>1 DEF Moved
  <2>2. CASE ~ (k < i)
    <3>1. k + 1 \in 1 .. (Len(s) + 1) /\ ~ (k + 1 < i) /\ k + 1 # i /\ (k + 1) - 1 = k
      BY <1>2, <2>2
    <3>2. t[k + 1] = s[k]
      BY <1>1, <3>1
    <3> QED
      BY <1>1, <2>2, <3>1, <3>2 DEF Moved
  <2> QED
    BY <2>1, <2>2
<1>5. ASSUME NEW j \in 1 .. Len(t), j # i
      PROVE  \E k \in 1 .. Len(s) : j = Moved(i, k)
  <2>1. CASE j < i
    <3>1. j \in 1 .. Len(s) /\ j = Moved(i, j)
      BY <1>2, <2>1 DEF Moved
    <3> QED
      BY <3>1
  <2>2. CASE ~ (j < i)
    <3>1. j - 1 \in 1 .. Len(s) /\ j = Moved(i, j - 1)
      BY <1>1, <1>2, <1>5, <2>2 DEF Moved
    <3> QED
      BY <3>1
  <2> QED
    BY <2>1, <2>2
<1>6. ASSUME NEW src
      PROVE  EntriesOf(t, src) = {Moved(i, k) : k \in EntriesOf(s, src)}
                              \cup (IF e.src = src THEN {i} ELSE {})
  <2>1. ASSUME NEW j \in EntriesOf(t, src), j # i
        PROVE  j \in {Moved(i, k) : k \in EntriesOf(s, src)}
    BY <1>4, <1>5, <2>1 DEF EntriesOf
  <2>2. ASSUME NEW k \in EntriesOf(s, src)
        PROVE  Moved(i, k) \in EntriesOf(t, src)
    BY <1>4 DEF EntriesOf
  <2>3. i \in EntriesOf(t, src) <=> e.src = src
    BY <1>3 DEF EntriesOf
  <2> QED
    BY <2>1, <2>2, <2>3
<1> QED
  BY <1>1, <1>3, <1>4, <1>6 DEF t

(* What is left of the places without the first entry.                     *)
LEMMA TailPlaces ==
  ASSUME NEW S, NEW s \in Seq(S), s # <<>>
  PROVE  /\ Tail(s) \in Seq(S) /\ Len(Tail(s)) = Len(s) - 1 /\ 1 \in 1 .. Len(s)
         /\ Head(s) = s[1] /\ Head(s) \in S
         /\ \A k \in 1 .. Len(s) : k # 1 => k - 1 \in 1 .. Len(Tail(s)) /\ Tail(s)[k - 1] = s[k]
         /\ \A src : EntriesOf(Tail(s), src) = {k - 1 : k \in EntriesOf(s, src) \ {1}}
<1> DEFINE t == Tail(s)
<1>1. /\ t \in Seq(S) /\ Len(t) = Len(s) - 1 /\ Len(s) \in Nat /\ Len(s) >= 1
      /\ \A j \in 1 .. Len(t) : t[j] = s[j + 1]
  OBVIOUS
<1>2. Head(s) = s[1] /\ Head(s) \in S
  OBVIOUS
<1> HIDE DEF t
<1>3. \A k \in 1 .. Len(s) : k # 1 => k - 1 \in 1 .. Len(t) /\ t[k - 1] = s[k]
  <2> SUFFICES ASSUME NEW k \in 1 .. Len(s), k # 1
               PROVE  k - 1 \in 1 .. Len(t) /\ t[k - 1] = s[k]
    OBVIOUS
  <2>1. k - 1 \in 1 .. Len(t) /\ (k - 1) + 1 = k
    BY <1>1
  <2> QED
    BY <1>1, <2>1
<1>4. \A j \in 1 .. Len(t) : j + 1 \in 1 .. Len(s) /\ j + 1 # 1 /\ j = (j + 1) - 1 /\ t[j] = s[j + 1]
  BY <1>1
<1>5. ASSUME NEW src
      PROVE  EntriesOf(t, src) = {k - 1 : k \in EntriesOf(s, src) \ {1}}
  <2>1. ASSUME NEW j \in EntriesOf(t, src)
        PROVE  j \in {k - 1 : k \in EntriesOf(s, src) \ {1}}
    BY <1>4 DEF EntriesOf
  <2>2. ASSUME NEW k \in EntriesOf(s, src) \ {1}
        PROVE  k - 1 \in EntriesOf(t, src)
    BY <1>3 DEF EntriesOf
  <2> QED
    BY <2>1, <2>2
<1>6. 1 \in 1 .. Len(s)
  BY <1>1
<1> QED
  BY <1>1, <1>2, <1>3, <1>5, <1>6 DEF t

(* Lists of entries with a time, in the order of their times.              *)
InOrder(list) == \A k, l \in 1 .. Len(list) : k < l => list[k].when <= list[l].when

(* The place behind all entries that are not later.                        *)
PlaceFor(list, when) == Cardinality({k \in 1 .. Len(list) : list[k].when <= when}) + 1

(* The entries before that place, and no others, are not later.            *)
LEMMA CountBefore ==
  ASSUME NEW S, \A x \in S : x.when \in Nat,
         NEW list \in Seq(S), InOrder(list), NEW when \in Nat
  PROVE  /\ PlaceFor(list, when) \in 1 .. (Len(list) + 1)
         /\ \A i \in 1 .. Len(list) : list[i].when <= when <=> i < PlaceFor(list, when)
<1> DEFINE before == {k \in 1 .. Len(list) : list[k].when <= when}
           T == {n \in 1 .. (Len(list) + 1) : n = Len(list) + 1 \/ ~ (list[n].when <= when)}
<1>1. Len(list) \in Nat /\ \A i \in 1 .. Len(list) : list[i].when \in Nat
  <2>1. \A i \in 1 .. Len(list) : list[i] \in S
    BY ElementType, ZenonT(60)
  <2> QED
    BY <2>1
<1>2. T \in SUBSET Nat /\ Len(list) + 1 \in T
  BY <1>1
<1>3. PICK n \in T : \A m \in T : n <= m
  BY <1>2, LeastNumber
<1>4. n \in Nat /\ n >= 1 /\ n <= Len(list) + 1
  BY <1>1, <1>3
<1>5. ASSUME NEW i \in 1 .. Len(list)
      PROVE  list[i].when <= when <=> i < n
  <2>1. CASE i < n
    <3>1. i \notin T
      BY <1>3, <1>4, <2>1
    <3> QED
      BY <1>1, <2>1, <3>1
  <2>2. CASE ~ (i < n)
    <3>1. n \in 1 .. Len(list) /\ ~ (list[n].when <= when)
      BY <1>1, <1>3, <1>4, <2>2
    <3>2. list[n].when <= list[i].when
      <4>1. CASE n = i
        BY <1>1, <4>1
      <4>2. CASE n < i
        BY <3>1, <4>2 DEF InOrder
      <4> QED
        BY <1>4, <2>2, <4>1, <4>2
    <3> QED
      BY <1>1, <2>2, <3>1, <3>2, SMTT(60)
  <2> QED
    BY <2>1, <2>2
<1>6. before = 1 .. (n - 1)
  <2> HIDE DEF T
  <2> QED
    BY <1>1, <1>4, <1>5
<1>7. Cardinality(before) = n - 1
  <2>1. Cardinality(1 .. (n - 1)) = IF 1 > n - 1 THEN 0 ELSE (n - 1) - 1 + 1
    BY <1>4, FS_Interval
  <2> HIDE DEF before, T
  <2> QED
    BY <1>4, <1>6, <2>1
<1> HIDE DEF before, T
<1>8. /\ Cardinality(before) + 1 \in 1 .. (Len(list) + 1)
      /\ \A i \in 1 .. Len(list) : list[i].when <= when <=> i < Cardinality(before) + 1
  BY <1>1, <1>4, <1>5, <1>7
<1> QED
  BY <1>8 DEF before, PlaceFor

(* A list stays in order when an entry is added at the place for its time. *)
LEMMA InsertInOrder ==
  ASSUME NEW S, \A x \in S : x.when \in Nat,
         NEW list \in Seq(S), InOrder(list), NEW e \in S
  PROVE  InOrder(InsertAt(list, PlaceFor(list, e.when), e))
<1> DEFINE at == PlaceFor(list, e.when)
           out == InsertAt(list, at, e)
<1>1. /\ at \in 1 .. (Len(list) + 1)
      /\ \A i \in 1 .. Len(list) : list[i].when <= e.when <=> i < at
  BY CountBefore
<1>2. Len(list) \in Nat /\ e.when \in Nat /\ \A i \in 1 .. Len(list) : list[i].when \in Nat
  <2>1. \A i \in 1 .. Len(list) : list[i] \in S
    BY ElementType, ZenonT(60)
  <2> QED
    BY <2>1
<1> HIDE DEF at
<1>3. /\ Len(out) = Len(list) + 1
      /\ \A j \in 1 .. (Len(list) + 1) :
           out[j] = IF j < at THEN list[j] ELSE IF j = at THEN e ELSE list[j - 1]
  BY <1>1, InsertAtFacts, SMTT(60)
<1> HIDE DEF out
<1>4. at \in Nat /\ at >= 1 /\ at <= Len(list) + 1
  BY <1>1, <1>2
<1>5. \A i \in 1 .. Len(list) : ~ (i < at) => e.when <= list[i].when
  BY <1>1, <1>2
<1> SUFFICES ASSUME NEW j \in 1 .. Len(out), NEW l \in 1 .. Len(out), j < l
             PROVE  out[j].when <= out[l].when
  BY DEF InOrder, out, at
<1>6. j \in Nat /\ l \in Nat /\ 1 <= j /\ l <= Len(list) + 1 /\ j \in 1 .. (Len(list) + 1) /\ l \in 1 .. (Len(list) + 1)
  BY <1>2, <1>3
<1>7. CASE l < at
  <2>1. out[j] = list[j] /\ out[l] = list[l] /\ j \in 1 .. Len(list) /\ l \in 1 .. Len(list)
    BY <1>2, <1>3, <1>4, <1>6, <1>7
  <2> QED
    BY <2>1 DEF InOrder
<1>8. CASE l = at
  <2>1. out[j] = list[j] /\ out[l] = e /\ j \in 1 .. Len(list) /\ j < at
    BY <1>2, <1>3, <1>4, <1>6, <1>8
  <2> QED
    BY <1>1, <2>1
<1>9. CASE l > at
  <2>1. out[l] = list[l - 1] /\ l - 1 \in 1 .. Len(list) /\ ~ (l - 1 < at)
    BY <1>2, <1>3, <1>4, <1>6, <1>9
  <2>2. CASE j < at
    <3>1. out[j] = list[j] /\ j \in 1 .. Len(list) /\ j < l - 1
      BY <1>2, <1>3, <1>4, <1>6, <1>9, <2>2
    <3> QED
      BY <2>1, <3>1 DEF InOrder
  <2>3. CASE j = at
    BY <1>3, <1>4, <1>5, <1>6, <2>1, <2>3
  <2>4. CASE j > at
    <3>1. out[j] = list[j - 1] /\ j - 1 \in 1 .. Len(list) /\ j - 1 < l - 1
      BY <1>2, <1>3, <1>4, <1>6, <2>4
    <3> QED
      BY <2>1, <3>1 DEF InOrder
  <2> QED
    BY <1>4, <1>6, <2>2, <2>3, <2>4
<1> QED
  BY <1>4, <1>6, <1>7, <1>8, <1>9
=============================================================================
