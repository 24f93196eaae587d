--------------------------- MODULE TcpFlow_proofs ---------------------------
(***************************************************************************)
(* One TCP or DCTCP flow of any size, on a path of any capacity that keeps *)
(* or changes the order: the sink's reassembly list, its types, its timer, *)
(* the acks and the segments on their way, and that it implements          *)
(* ReliableFlow.                                                           *)
(***************************************************************************)
EXTENDS TcpFlow, NatLemmas

-----------------------------------------------------------------------------
(* The reassembly of datasink.cpp, for segments of any size that arrive in *)
(* any order: what its two searches of the list find, and that the list    *)
(* stays in order while cumulative_ack never goes back.                    *)

SinkType == cumulative_ack \in Nat /\ received \in Seq(Nat)

(* s is the first byte of a segment.                                       *)
IsSegment(s) == s \in Nat /\ s >= 1 /\ Divides(MSS_BYTES, s - 1)

-----------------------------------------------------------------------------
(* The search at the front of the list finds the segments that follow on.  *)
LEMMA InSequenceFacts ==
  ASSUME SinkType, NEW c \in Nat
  PROVE  /\ InSequence(c) \in 0 .. Len(received)
         /\ \A i \in 1 .. InSequence(c) : received[i] = c + (i - 1) * MSS_BYTES + 1
         /\ InSequence(c) < Len(received) =>
              received[InSequence(c) + 1] # c + InSequence(c) * MSS_BYTES + 1
<1> DEFINE P(n) == /\ \A i \in 1 .. n : received[i] = c + (i - 1) * MSS_BYTES + 1
                   /\ n < Len(received) => received[n + 1] # c + n * MSS_BYTES + 1
           T == {n \in 0 .. Len(received) :
                   n < Len(received) => received[n + 1] # c + n * MSS_BYTES + 1}
<1>1. Len(received) \in Nat
  BY DEF SinkType
<1>2. T \in SUBSET Nat /\ Len(received) \in T
  BY <1>1
<1>3. PICK n \in T : \A m \in T : n <= m
  BY <1>2, LeastNumber
<1>4. ASSUME NEW i \in 1 .. n PROVE received[i] = c + (i - 1) * MSS_BYTES + 1
  <2>1. i - 1 \in 0 .. Len(received) /\ i - 1 < Len(received) /\ ~ (n <= i - 1)
    BY <1>1, <1>3
  <2>2. i - 1 \notin T
    BY <1>3, <2>1
  <2>3. received[(i - 1) + 1] = c + (i - 1) * MSS_BYTES + 1
    BY <2>1, <2>2
  <2> QED
    BY <2>3
<1>5. n \in 0 .. Len(received) /\ P(n)
  BY <1>4
<1>6. InSequence(c) = CHOOSE m \in 0 .. Len(received) : P(m)
  BY DEF InSequence
<1> HIDE DEF P
<1>7. InSequence(c) \in 0 .. Len(received) /\ P(InSequence(c))
  BY <1>5, <1>6
<1> QED
  BY <1>7 DEF P

(* The search for the place of a segment ends behind all earlier ones.     *)
LEMMA BeforeFacts ==
  ASSUME SinkType, NEW s \in Nat
  PROVE  /\ Before(s) \in 0 .. Len(received)
         /\ \A i \in 1 .. Before(s) : received[i] < s
         /\ Before(s) < Len(received) => received[Before(s) + 1] >= s
<1> DEFINE P(n) == /\ \A i \in 1 .. n : received[i] < s
                   /\ n < Len(received) => received[n + 1] >= s
           T == {n \in 0 .. Len(received) : n < Len(received) => received[n + 1] >= s}
<1>1. Len(received) \in Nat /\ \A i \in 1 .. Len(received) : received[i] \in Nat
  BY DEF SinkType
<1>2. T \in SUBSET Nat /\ Len(received) \in T
  BY <1>1
<1>3. PICK n \in T : \A m \in T : n <= m
  BY <1>2, LeastNumber
<1>4. ASSUME NEW i \in 1 .. n PROVE received[i] < s
  <2>1. i - 1 \in 0 .. Len(received) /\ i - 1 < Len(received) /\ ~ (n <= i - 1)
    BY <1>1, <1>3
  <2>2. i - 1 \notin T
    BY <1>3, <2>1
  <2>3. ~ (received[(i - 1) + 1] >= s)
    BY <2>1, <2>2
  <2> QED
    BY <1>1, <2>1, <2>3
<1>5. n \in 0 .. Len(received) /\ P(n)
  BY <1>4
<1>6. Before(s) = CHOOSE m \in 0 .. Len(received) : P(m)
  BY DEF Before
<1> HIDE DEF P
<1>7. Before(s) \in 0 .. Len(received) /\ P(Before(s))
  BY <1>5, <1>6
<1> QED
  BY <1>7 DEF P

-----------------------------------------------------------------------------
(* Where the sequence ends after the expected segment and n more.          *)
LEMMA EndOfSequence ==
  ASSUME NEW a \in Nat, NEW n \in Nat, Divides(MSS_BYTES, a)
  PROVE  /\ a + MSS_BYTES + n * MSS_BYTES \in Nat
         /\ a + MSS_BYTES + n * MSS_BYTES > a
         /\ Divides(MSS_BYTES, a + MSS_BYTES + n * MSS_BYTES)
         /\ a + MSS_BYTES + (n - 1) * MSS_BYTES = a + n * MSS_BYTES
<1> USE DataSinkAssumption
<1>1. n * MSS_BYTES = MSS_BYTES * n /\ MSS_BYTES * n \in Nat
  OBVIOUS
<1>2. Divides(MSS_BYTES, n * MSS_BYTES)
  <2>1. Divides(MSS_BYTES, MSS_BYTES * n)
    BY DividesProduct
  <2> QED
    BY <1>1, <2>1
<1>3. Divides(MSS_BYTES, a + MSS_BYTES)
  BY DividesSum, DividesBase
<1>4. Divides(MSS_BYTES, a + MSS_BYTES + n * MSS_BYTES)
  BY <1>1, <1>2, <1>3, DividesSum
<1>5. (n - 1) * MSS_BYTES = n * MSS_BYTES - MSS_BYTES
  OBVIOUS
<1> QED
  BY <1>1, <1>4, <1>5

(* What is left of a list in order, without its first n segments, which    *)
(* follow on from c.                                                       *)
LEMMA RestOfList ==
  ASSUME NEW r \in Seq(Nat), NEW n \in 0 .. Len(r), NEW c \in Nat, NEW c1 \in Nat,
         Divides(MSS_BYTES, c), Divides(MSS_BYTES, c1),
         \A i \in 1 .. Len(r) :
           /\ r[i] > c + 1
           /\ Divides(MSS_BYTES, r[i] - 1)
           /\ i > 1 => r[i - 1] < r[i],
         n = 0 => c1 = c + MSS_BYTES,
         n > 0 => r[n] = c1 - MSS_BYTES + 1,
         n < Len(r) => r[n + 1] # c1 + 1
  PROVE  \A i \in 1 .. (Len(r) - n) :
           /\ n + i \in 1 .. Len(r)
           /\ r[n + i] > c1 + 1
           /\ Divides(MSS_BYTES, r[n + i] - 1)
           /\ i > 1 => r[n + (i - 1)] < r[n + i]
<1> USE DataSinkAssumption
<1>1. Len(r) \in Nat /\ n \in Nat /\ \A i \in 1 .. Len(r) : r[i] \in Nat
  BY SMTT(60)
<1>2. \A i, j \in 1 .. Len(r) : i < j => r[i] < r[j]
  BY Ordered
<1>3. ASSUME n < Len(r) PROVE r[n + 1] > c1 + 1
  <2>1. n + 1 \in 1 .. Len(r)
    BY <1>1, <1>3
  <2>2. r[n + 1] \in Nat /\ r[n + 1] - 1 > c /\ Divides(MSS_BYTES, r[n + 1] - 1)
    BY <1>1, <2>1, SMTT(60)
  <2>3. CASE n = 0
    <3> DEFINE y == r[n + 1] - 1
    <3>1. y \in Int /\ Divides(MSS_BYTES, y) /\ c < y
      BY <2>2
    <3>2. y # c1 /\ c1 = c + MSS_BYTES
      BY <1>3, <2>2, <2>3, SMTT(60)
    <3> HIDE DEF y
    <3>3. c + MSS_BYTES <= y
      BY <3>1, DividesGap
    <3>4. y > c1
      BY <3>1, <3>2, <3>3
    <3> QED
      BY <2>2, <3>4, SMTT(60) DEF y
  <2>4. CASE n > 0
    <3> DEFINE x == r[n] - 1
               y == r[n + 1] - 1
    <3>1. n \in 1 .. Len(r) /\ n < n + 1
      BY <1>1, <2>4
    <3>2. r[n] \in Nat /\ r[n] < r[n + 1]
      BY <1>1, <1>2, <2>1, <3>1
    <3>3. Divides(MSS_BYTES, x) /\ Divides(MSS_BYTES, y)
      BY <2>2, <3>1
    <3>4. x \in Int /\ y \in Int /\ x < y
      <4>1. \A u, v \in Nat : u < v => u - 1 \in Int /\ v - 1 \in Int /\ u - 1 < v - 1
        OBVIOUS
      <4> QED
        BY <2>2, <3>2, <4>1
    <3>5. x = c1 - MSS_BYTES
      BY <2>4, <3>2, SMTT(60)
    <3>6. y # c1
      BY <1>3, <2>2, SMTT(60)
    <3> HIDE DEF x, y
    <3>7. x + MSS_BYTES <= y
      BY <3>3, <3>4, DividesGap
    <3>8. y > c1
      BY <3>4, <3>5, <3>6, <3>7
    <3> QED
      BY <2>2, <3>8 DEF y
  <2> QED
    BY <1>1, <2>3, <2>4
<1> SUFFICES ASSUME NEW i \in 1 .. (Len(r) - n)
             PROVE  /\ n + i \in 1 .. Len(r)
                    /\ r[n + i] > c1 + 1
                    /\ Divides(MSS_BYTES, r[n + i] - 1)
                    /\ i > 1 => r[n + (i - 1)] < r[n + i]
  OBVIOUS
<1>4. n + i \in 1 .. Len(r) /\ n + 1 \in 1 .. Len(r) /\ n < Len(r)
  BY <1>1, SMTT(60)
<1>5. r[n + i] > c1 + 1
  <2>1. CASE i = 1
    BY <1>3, <1>4, <2>1
  <2>2. CASE i > 1
    <3>1. r[n + 1] < r[n + i]
      BY <1>1, <1>2, <1>4, <2>2
    <3> QED
      BY <1>1, <1>3, <1>4, <3>1, SMTT(60)
  <2> QED
    BY <2>1, <2>2
<1>6. Divides(MSS_BYTES, r[n + i] - 1)
  BY <1>4
<1>7. ASSUME i > 1 PROVE r[n + (i - 1)] < r[n + i]
  <2>1. n + (i - 1) \in 1 .. Len(r) /\ n + (i - 1) < n + i
    BY <1>1, <1>4, <1>7
  <2> QED
    BY <1>2, <1>4, <2>1
<1> QED
  BY <1>4, <1>5, <1>6, <1>7

(* A segment that is the next expected one, and those of the list that it  *)
(* makes part of the sequence.                                             *)
LEMMA NextSegment ==
  ASSUME SinkType, SinkList,
         LET n == InSequence(cumulative_ack + MSS_BYTES)
         IN  /\ cumulative_ack' = cumulative_ack + MSS_BYTES + n * MSS_BYTES
             /\ received' = SubSeq(received, n + 1, Len(received))
  PROVE  SinkType' /\ SinkList' /\ cumulative_ack' > cumulative_ack
<1> DEFINE c == cumulative_ack
           L == Len(received)
           n == InSequence(c + MSS_BYTES)
           c1 == c + MSS_BYTES + n * MSS_BYTES
<1>1. /\ c \in Nat /\ Divides(MSS_BYTES, c) /\ c + MSS_BYTES \in Nat /\ L \in Nat
      /\ received \in Seq(Nat)
  BY DataSinkAssumption DEF SinkType, SinkList, Divides
<1>2. /\ n \in 0 .. L
      /\ \A i \in 1 .. n : received[i] = c + MSS_BYTES + (i - 1) * MSS_BYTES + 1
      /\ n < L => received[n + 1] # c1 + 1
  BY <1>1, InSequenceFacts
<1>3. cumulative_ack' = c1 /\ received' = SubSeq(received, n + 1, L)
  OBVIOUS
<1>4. \A i \in 1 .. L :
        /\ received[i] > c + 1
        /\ Divides(MSS_BYTES, received[i] - 1)
        /\ i > 1 => received[i - 1] < received[i]
  BY DEF SinkList, Divides
<1> HIDE DEF n
<1>5. /\ c1 \in Nat /\ c1 > c /\ Divides(MSS_BYTES, c1)
      /\ c + MSS_BYTES + (n - 1) * MSS_BYTES = c1 - MSS_BYTES
      /\ n = 0 => c1 = c + MSS_BYTES
  <2>1. n \in Nat
    BY <1>1, <1>2
  <2>2. c1 \in Nat /\ c1 > c /\ Divides(MSS_BYTES, c1)
    BY <1>1, <2>1, EndOfSequence
  <2>3. c + MSS_BYTES + (n - 1) * MSS_BYTES = c1 - MSS_BYTES
    <3>1. c + MSS_BYTES + (n - 1) * MSS_BYTES = c + n * MSS_BYTES
      BY <1>1, <2>1, EndOfSequence
    <3>2. n * MSS_BYTES \in Int /\ MSS_BYTES \in Int
      BY <2>1, DataSinkAssumption
    <3> QED
      BY <1>1, <3>1, <3>2
  <2>4. n = 0 => c1 = c + MSS_BYTES
    BY <1>1, DataSinkAssumption
  <2> QED
    BY <2>2, <2>3, <2>4
<1> HIDE DEF c1
<1>6. n > 0 => received[n] = c1 - MSS_BYTES + 1
  <2> HAVE n > 0
  <2>1. n \in 1 .. n
    BY <1>1, <1>2
  <2> QED
    BY <1>2, <1>5, <2>1
<1> HIDE DEF c, L
<1>7. \A i \in 1 .. (L - n) :
        /\ n + i \in 1 .. L
        /\ received[n + i] > c1 + 1
        /\ Divides(MSS_BYTES, received[n + i] - 1)
        /\ i > 1 => received[n + (i - 1)] < received[n + i]
  BY <1>1, <1>2, <1>4, <1>5, <1>6, RestOfList DEF L
<1>8. /\ received' \in Seq(Nat) /\ Len(received') = L - n
      /\ \A i \in 1 .. (L - n) : received'[i] = received[n + i]
  <2>1. n \in Nat /\ n <= L /\ \A i \in 1 .. L : received[i] \in Nat
    BY <1>1, <1>2, SMTT(60) DEF L
  <2>2. /\ SubSeq(received, n + 1, L) \in Seq(Nat)
        /\ Len(SubSeq(received, n + 1, L)) = L - n
        /\ \A i \in 1 .. (L - n) : SubSeq(received, n + 1, L)[i] = received[n + i]
    BY <1>1, <2>1, SubSeqProperties
  <2> QED
    BY <1>3, <2>2
<1>9. ASSUME NEW i \in 1 .. Len(received')
      PROVE  /\ received'[i] > c1 + 1
             /\ Divides(MSS_BYTES, received'[i] - 1)
             /\ i > 1 => received'[i - 1] < received'[i]
  <2>1. i \in 1 .. (L - n) /\ received'[i] = received[n + i]
    BY <1>8
  <2>2. i > 1 => received'[i - 1] = received[n + (i - 1)]
    <3> HAVE i > 1
    <3>1. i - 1 \in 1 .. (L - n)
      BY <1>1, <1>2, <2>1
    <3> QED
      BY <1>8, <3>1
  <2> QED
    BY <1>7, <2>1, <2>2
<1> QED
  BY <1>3, <1>5, <1>8, <1>9 DEF SinkType, SinkList, Divides, c

(* A segment beyond a gap goes to its place in the list, unless it is      *)
(* there already.                                                          *)
LEMMA SegmentInserted ==
  ASSUME SinkType, SinkList, NEW s \in Nat, IsSegment(s), s > cumulative_ack + 1,
         received' = Inserted(s), cumulative_ack' = cumulative_ack
  PROVE  SinkType' /\ SinkList'
<1> DEFINE n == Before(s)
           L == Len(received)
<1>1. /\ received \in Seq(Nat) /\ L \in Nat /\ cumulative_ack \in Nat
      /\ \A i \in 1 .. L : received[i] \in Nat
  BY DEF SinkType
<1>2. /\ n \in 0 .. L
      /\ \A i \in 1 .. n : received[i] < s
      /\ n < L => received[n + 1] >= s
  BY BeforeFacts
<1>3. received' = IF n < L /\ received[n + 1] = s THEN received
                  ELSE InsertAt(received, n + 1, s)
  BY DEF Inserted
<1> HIDE DEF n, L
<1>4. CASE n < L /\ received[n + 1] = s
  <2>1. received' = received
    BY <1>3, <1>4
  <2> QED
    BY <2>1 DEF SinkType, SinkList
<1>5. CASE ~ (n < L /\ received[n + 1] = s)
  <2>1. received' = InsertAt(received, n + 1, s) /\ n + 1 \in 1 .. (L + 1)
    BY <1>1, <1>2, <1>3, <1>5
  <2>2. /\ received' \in Seq(Nat) /\ Len(received') = L + 1
        /\ \A j \in 1 .. (L + 1) :
             received'[j] = IF j < n + 1 THEN received[j]
                            ELSE IF j = n + 1 THEN s ELSE received[j - 1]
    <3> DEFINE i == n + 1
    <3>1. i \in 1 .. (L + 1) /\ received' = InsertAt(received, i, s)
      BY <2>1
    <3> HIDE DEF i
    <3>2. /\ received' \in Seq(Nat) /\ Len(received') = L + 1
          /\ \A j \in 1 .. (L + 1) :
               received'[j] = IF j < i THEN received[j]
                              ELSE IF j = i THEN s ELSE received[j - 1]
      <4> DEFINE t == InsertAt(received, i, s)
      <4>1. received \in Seq(Nat) /\ i \in 1 .. (Len(received) + 1) /\ s \in Nat
        BY <1>1, <3>1 DEF L
      <4>2. /\ t \in Seq(Nat) /\ Len(t) = Len(received) + 1
            /\ \A j \in 1 .. (Len(received) + 1) :
                 t[j] = IF j < i THEN received[j] ELSE IF j = i THEN s ELSE received[j - 1]
        BY <4>1, InsertAtFacts, SMTT(60)
      <4>3. t = received'
        BY <3>1
      <4> HIDE DEF t
      <4> QED
        BY <4>2, <4>3 DEF L
    <3> QED
      BY <3>2 DEF i
  <2>3. \A i \in 1 .. L :
          /\ received[i] > cumulative_ack + 1
          /\ Divides(MSS_BYTES, received[i] - 1)
          /\ i > 1 => received[i - 1] < received[i]
    BY DEF SinkList, Divides, L
  <2>4. n < L => received[n + 1] > s
    BY <1>1, <1>2, <1>5
  <2>5. ASSUME NEW j \in 1 .. (L + 1)
        PROVE  /\ received'[j] > cumulative_ack + 1
               /\ Divides(MSS_BYTES, received'[j] - 1)
               /\ j > 1 => received'[j - 1] < received'[j]
    <3>1. CASE j < n + 1
      <4>1. /\ received'[j] = received[j] /\ j \in 1 .. L
            /\ j > 1 => received'[j - 1] = received[j - 1]
        BY <1>1, <1>2, <2>2, <3>1
      <4> QED
        BY <2>3, <4>1
    <3>2. CASE j = n + 1
      <4>1. received'[j] = s
        BY <2>2, <3>2
      <4>2. j > 1 => received'[j - 1] = received[n] /\ n \in 1 .. n
        BY <1>1, <1>2, <2>2, <3>2
      <4> QED
        BY <1>2, <4>1, <4>2 DEF IsSegment
    <3>3. CASE j = n + 2
      <4>1. received'[j] = received[n + 1] /\ received'[j - 1] = s
        BY <1>1, <1>2, <2>2, <3>3, SMTT(60)
      <4>2. n < L /\ n + 1 \in 1 .. L
        BY <1>1, <1>2, <3>3
      <4> QED
        BY <2>3, <2>4, <4>1, <4>2
    <3>4. CASE j > n + 2
      <4>1. j - 1 \in 1 .. L /\ j - 1 \in 1 .. (L + 1) /\ j - 1 > 1
        BY <1>1, <1>2, <3>4
      <4>2. ~ (j < n + 1) /\ j # n + 1 /\ ~ (j - 1 < n + 1) /\ j - 1 # n + 1
        BY <1>1, <1>2, <3>4
      <4>3. received'[j] = received[j - 1]
        BY <2>2, <4>2
      <4>4. received'[j - 1] = received[(j - 1) - 1]
        BY <2>2, <4>1, <4>2
      <4> QED
        BY <2>3, <4>1, <4>3, <4>4
    <3> QED
      BY <1>1, <1>2, <3>1, <3>2, <3>3, <3>4
  <2> QED
    BY <1>1, <2>2, <2>5 DEF SinkType, SinkList, Divides
<1> QED
  BY <1>4, <1>5

(* What the sink does with any segment.                                    *)
LEMMA SinkStep ==
  ASSUME SinkType, SinkList, NEW s \in Nat, IsSegment(s), processDataPacket(s)
  PROVE  /\ SinkType' /\ SinkList'
         /\ cumulative_ack' >= cumulative_ack
         /\ s <= cumulative_ack => cumulative_ack' = cumulative_ack
<1>1. cumulative_ack \in Nat
  BY DEF SinkType
<1>2. CASE /\ s = cumulative_ack + 1
           /\ LET n == InSequence(cumulative_ack + MSS_BYTES)
              IN  /\ cumulative_ack' = cumulative_ack + MSS_BYTES + n * MSS_BYTES
                  /\ received' = SubSeq(received, n + 1, Len(received))
  <2>1. SinkType' /\ SinkList' /\ cumulative_ack' > cumulative_ack
    BY <1>2, NextSegment
  <2>2. cumulative_ack' \in Nat
    BY <2>1 DEF SinkType
  <2> QED
    BY <1>1, <1>2, <2>1, <2>2
<1>3. CASE s <= cumulative_ack /\ UNCHANGED sinkVars
  BY <1>1, <1>3 DEF sinkVars, SinkType, SinkList
<1>4. CASE s > cumulative_ack + 1 /\ received' = Inserted(s) /\ UNCHANGED cumulative_ack
  <2>1. SinkType' /\ SinkList'
    BY <1>4, SegmentInserted
  <2> QED
    BY <1>1, <1>4, <2>1
<1> QED
  BY <1>2, <1>3, <1>4 DEF processDataPacket

-----------------------------------------------------------------------------
(* The bytes of n segments.                                                *)
InBytes(n) == n * MSS_BYTES

(* Every packet of the flow is on its way in one of the two directions.    *)
PacketsCounted == mode \in Modes /\ nPackets = Len(fwd) + Len(rev)

(* Every segment on its way is one of the flow.                            *)
SegmentsOn(path) == \A i \in 1 .. Len(path) : IsSegment(path[i]) /\ path[i] <= FLOWSIZE

(* Every ack on its way ends at a segment boundary and acknowledges        *)
(* nothing that the sink does not have.                                    *)
AcksOn(path) ==
  \A i \in 1 .. Len(path) : Divides(MSS_BYTES, path[i]) /\ path[i] <= cumulative_ack

(* The source's numbers are at segment boundaries and within the flow.     *)
SourceOK ==
  /\ Divides(MSS_BYTES, last_acked) /\ last_acked <= cumulative_ack /\ last_acked < FLOWSIZE
  /\ Divides(MSS_BYTES, highest_sent) /\ highest_sent < FLOWSIZE + MSS_BYTES

(* A source that has finished was acknowledged everything, and no packet   *)
(* is left before it starts and after it is deleted.                       *)
PhaseOK ==
  /\ state \in {"FINISH", "DELETED"} => cumulative_ack >= FLOWSIZE
  /\ state \in {"IDLE", "DELETED"} => nPackets = 0
  /\ state = "IDLE" => highest_sent = 0 /\ last_acked = 0

(* The window is at least a segment, but for the source that fast recovery *)
(* has left with none, which has then sent up to its last ack.  It grows   *)
(* by a segment per new ack; in fast recovery, where it grows by a segment *)
(* per duplicate ack, by what is still on its way or unsent.               *)
WindowOK ==
  /\ ssthresh >= MSS_BYTES
  /\ Active => \/ cwnd >= MSS_BYTES
               \/ state = "CONG_AVOID" /\ cwnd = 0 /\ highest_sent = last_acked
  /\ state # "FAST_RECOV" => cwnd <= last_acked + WindowBound
  /\ state = "FAST_RECOV" =>
       /\ ssthresh <= WindowBound
       /\ cwnd + InBytes(nPackets) + (FLOWSIZE + MSS_BYTES - highest_sent) <= WindowBound

(* The inductive invariant.                                                *)
IInv ==
  /\ TypeOK /\ PacketsCounted /\ SegmentsOn(fwd) /\ AcksOn(rev) /\ SinkList
  /\ SourceOK /\ PhaseOK /\ WindowOK /\ TimerRunning /\ AcksInOrder

-----------------------------------------------------------------------------
(* The types of the constants.                                             *)
LEMMA ConstantTypes ==
  /\ MSS_BYTES \in Nat \ {0} /\ FLOWSIZE \in Nat \ {0} /\ DUPACK_LIMIT \in Nat \ {0}
  /\ PATH_CAPACITY \in Nat \ {0} /\ WORD \in Nat
BY TcpAssumption, DataSinkAssumption

(* What a path holds after packets were sent into it.                      *)
LEMMA SendFacts ==
  ASSUME NEW path \in Seq(Nat), Len(path) <= PATH_CAPACITY, NEW out \in Seq(Nat),
         NEW path1, NEW n \in Int, NEW n1, Send(path, out, path1, n, n1)
  PROVE  /\ path1 \in Seq(Nat) /\ Len(path1) <= PATH_CAPACITY
         /\ Len(path) <= Len(path1) /\ Len(path1) <= Len(path) + Len(out)
         /\ n1 = n + (Len(path1) - Len(path))
         /\ \A i \in 1 .. Len(path) : path1[i] = path[i]
         /\ \A i \in 1 .. Len(path1) :
              i > Len(path) => \E j \in 1 .. Len(out) : path1[i] = out[j]
<1> DEFINE room == PATH_CAPACITY - Len(path)
<1>1. Len(path) \in Nat /\ Len(out) \in Nat /\ room \in Nat
  BY ConstantTypes
<1>2. PICK kept \in Survivors(out, room) : path1 = path \o kept /\ n1 = n + Len(kept)
  BY DEF Send
<1> HIDE DEF room
<1>3. PICK k \in 0 .. Min2(room, Len(out)) :
        \E at \in [1 .. k -> 1 .. Len(out)] : kept = [j \in 1 .. k |-> out[at[j]]]
  BY <1>2, ZenonT(60) DEF Survivors
<1>4. k \in Nat /\ k <= room /\ k <= Len(out)
  BY <1>1, <1>3 DEF Min2
<1> PICK at \in [1 .. k -> 1 .. Len(out)] : kept = [j \in 1 .. k |-> out[at[j]]]
  BY <1>3
<1>5. \A j \in 1 .. k : at[j] \in 1 .. Len(out) /\ out[at[j]] \in Nat
  BY SMTT(60)
<1>6. kept \in Seq(Nat) /\ Len(kept) = k /\ \A j \in 1 .. k : kept[j] = out[at[j]]
  BY <1>4, <1>5
<1>7. /\ path1 \in Seq(Nat) /\ Len(path1) = Len(path) + k
      /\ \A i \in 1 .. (Len(path) + k) :
           path1[i] = IF i <= Len(path) THEN path[i] ELSE kept[i - Len(path)]
  <2>1. /\ path \o kept \in Seq(Nat) /\ Len(path \o kept) = Len(path) + Len(kept)
        /\ \A i \in 1 .. (Len(path) + Len(kept)) :
             (path \o kept)[i] = IF i <= Len(path) THEN path[i] ELSE kept[i - Len(path)]
    BY <1>6, ConcatProperties
  <2> QED
    BY <1>2, <1>6, <2>1
<1>8. ASSUME NEW i \in 1 .. Len(path1), i > Len(path)
      PROVE  \E j \in 1 .. Len(out) : path1[i] = out[j]
  <2>1. i - Len(path) \in 1 .. k
    BY <1>1, <1>4, <1>7, <1>8
  <2>2. path1[i] = kept[i - Len(path)]
    <3>1. i \in 1 .. (Len(path) + k) /\ ~ (i <= Len(path))
      BY <1>1, <1>4, <1>7, <1>8
    <3> QED
      BY <1>7, <3>1
  <2> QED
    BY <1>5, <1>6, <2>1, <2>2
<1>9. \A i \in 1 .. Len(path) : path1[i] = path[i]
  BY <1>1, <1>4, <1>7, SMTT(60)
<1>10. /\ Len(path1) <= PATH_CAPACITY
       /\ Len(path) <= Len(path1) /\ Len(path1) <= Len(path) + Len(out)
  BY <1>1, <1>4, <1>7, ConstantTypes DEF room
<1>11. n1 = n + (Len(path1) - Len(path))
  BY <1>1, <1>2, <1>4, <1>6, <1>7
<1> QED
  BY <1>7, <1>8, <1>9, <1>10, <1>11

(* How far n whole segments reach into b bytes.                            *)
LEMMA WholeSegments ==
  ASSUME NEW b \in Nat, NEW n \in Nat, n <= b \div MSS_BYTES
  PROVE  n * MSS_BYTES \in Nat /\ n * MSS_BYTES <= b
<1> DEFINE q == b \div MSS_BYTES
<1> USE DataSinkAssumption
<1>1. q \in Int /\ b = MSS_BYTES * q + (b % MSS_BYTES) /\ b % MSS_BYTES \in 0 .. (MSS_BYTES - 1)
  BY DivMod
<1>2. MSS_BYTES * q <= b /\ MSS_BYTES * q \in Int
  BY <1>1
<1>3. n <= q
  OBVIOUS
<1> HIDE DEF q
<1>4. n * MSS_BYTES <= MSS_BYTES * q
  BY <1>1, <1>3
<1> QED
  BY <1>2, <1>4

(* A segment or more fits into b bytes, or none.                           *)
LEMMA FittingSegments ==
  ASSUME NEW b \in Nat
  PROVE  /\ b \div MSS_BYTES \in Nat
         /\ b >= MSS_BYTES => b \div MSS_BYTES >= 1
         /\ b < MSS_BYTES => b \div MSS_BYTES = 0
         /\ b = MSS_BYTES => b \div MSS_BYTES = 1
<1> DEFINE q == b \div MSS_BYTES
           r == b % MSS_BYTES
<1> USE DataSinkAssumption
<1>1. q \in Int /\ b = MSS_BYTES * q + r /\ r \in 0 .. (MSS_BYTES - 1)
  BY DivMod
<1> HIDE DEF q, r
<1>2. q >= 0
  BY <1>1
<1>3. b >= MSS_BYTES => q >= 1
  BY <1>1
<1>4. b < MSS_BYTES => q = 0
  BY <1>1, <1>2
<1>5. b = MSS_BYTES => q = 1
  BY <1>1
<1> QED
  BY <1>1, <1>2, <1>3, <1>4, <1>5 DEF q

(* How many segments are sent: none that begins beyond the flow, and at    *)
(* least one when the window has room and the flow is not yet sent.        *)
LEMMA SegmentsToSendFacts ==
  ASSUME NEW acked \in Nat, NEW window \in Nat, NEW highest \in Nat,
         highest < FLOWSIZE + MSS_BYTES
  PROVE  LET n == SegmentsToSend(acked, window, highest)
         IN  /\ n \in Nat /\ n * MSS_BYTES \in Nat
             /\ highest + n * MSS_BYTES < FLOWSIZE + MSS_BYTES
             /\ highest < FLOWSIZE /\ acked + window >= highest + MSS_BYTES => n >= 1
             /\ acked + window = highest => n = 0
             /\ highest < FLOWSIZE /\ acked + window = highest + MSS_BYTES => n = 1
<1> DEFINE n == SegmentsToSend(acked, window, highest)
           room == acked + window - highest
           left == FLOWSIZE - highest + MSS_BYTES - 1
<1> USE ConstantTypes
<1>1. CASE highest >= FLOWSIZE \/ acked + window < highest
  <2>1. n = 0 /\ 0 * MSS_BYTES = 0
    BY <1>1 DEF SegmentsToSend
  <2> QED
    BY <1>1, <2>1
<1>2. CASE ~ (highest >= FLOWSIZE \/ acked + window < highest)
  <2>1. room \in Nat /\ left \in Nat /\ left >= MSS_BYTES
    BY <1>2
  <2>2. n = Min2(room \div MSS_BYTES, left \div MSS_BYTES)
    BY <1>2 DEF SegmentsToSend
  <2>3. /\ acked + window >= highest + MSS_BYTES <=> room >= MSS_BYTES
        /\ acked + window = highest <=> room = 0
        /\ acked + window = highest + MSS_BYTES <=> room = MSS_BYTES
        /\ left = FLOWSIZE - highest + MSS_BYTES - 1
    OBVIOUS
  <2> HIDE DEF n, room, left
  <2>4. /\ room \div MSS_BYTES \in Nat
        /\ room >= MSS_BYTES => room \div MSS_BYTES >= 1
        /\ room < MSS_BYTES => room \div MSS_BYTES = 0
        /\ room = MSS_BYTES => room \div MSS_BYTES = 1
    BY <2>1, FittingSegments
  <2>5. left \div MSS_BYTES \in Nat /\ left \div MSS_BYTES >= 1
    BY <2>1, FittingSegments
  <2>6. /\ n \in Nat /\ n <= left \div MSS_BYTES
        /\ room >= MSS_BYTES => n >= 1
        /\ room < MSS_BYTES => n = 0
        /\ room = MSS_BYTES => n = 1
    BY <2>2, <2>4, <2>5 DEF Min2
  <2>7. n * MSS_BYTES \in Nat /\ n * MSS_BYTES <= left
    BY <2>1, <2>6, WholeSegments
  <2>8. highest + n * MSS_BYTES < FLOWSIZE + MSS_BYTES
    BY <2>3, <2>7
  <2>9. room = 0 => n = 0
    BY <2>6
  <2> QED
    BY <2>3, <2>6, <2>7, <2>8, <2>9 DEF n
<1> QED
  BY <1>1, <1>2

(* The segments that are sent are segments of the flow.                    *)
LEMMA NewSegmentsFacts ==
  ASSUME NEW acked \in Nat, NEW window \in Nat, NEW highest \in Nat,
         highest < FLOWSIZE + MSS_BYTES, Divides(MSS_BYTES, highest)
  PROVE  LET new == NewSegments(acked, window, highest)
             n == SegmentsToSend(acked, window, highest)
         IN  /\ new \in Seq(Nat) /\ Len(new) = n /\ SegmentsOn(new)
             /\ Divides(MSS_BYTES, highest + n * MSS_BYTES)
<1> DEFINE new == NewSegments(acked, window, highest)
           n == SegmentsToSend(acked, window, highest)
<1> USE ConstantTypes
<1>1. n \in Nat /\ n * MSS_BYTES \in Nat /\ highest + n * MSS_BYTES < FLOWSIZE + MSS_BYTES
  BY SegmentsToSendFacts
<1>2. new = [i \in 1 .. n |-> highest + (i - 1) * MSS_BYTES + 1]
  BY DEF NewSegments
<1> HIDE DEF n, new
<1>3. ASSUME NEW k \in Nat PROVE k * MSS_BYTES \in Nat /\ Divides(MSS_BYTES, highest + k * MSS_BYTES)
  <2>1. k * MSS_BYTES = MSS_BYTES * k /\ MSS_BYTES * k \in Nat /\ k \in Int
    OBVIOUS
  <2>2. Divides(MSS_BYTES, MSS_BYTES * k)
    BY <2>1, DividesProduct
  <2>3. Divides(MSS_BYTES, k * MSS_BYTES) /\ k * MSS_BYTES \in Nat
    BY <2>1, <2>2
  <2> QED
    BY <2>3, DividesSum
<1>4. ASSUME NEW i \in 1 .. n
      PROVE  LET s == highest + (i - 1) * MSS_BYTES + 1
             IN  IsSegment(s) /\ s <= FLOWSIZE
  <2> DEFINE b == highest + (i - 1) * MSS_BYTES
  <2>1. i - 1 \in Nat /\ i \in Nat /\ i <= n
    BY <1>1
  <2>2. (i - 1) * MSS_BYTES \in Nat /\ Divides(MSS_BYTES, b)
    BY <1>3, <2>1
  <2>3. (i - 1) * MSS_BYTES + MSS_BYTES <= n * MSS_BYTES
    <3>1. (i - 1) * MSS_BYTES + MSS_BYTES = i * MSS_BYTES
      BY <2>1
    <3>2. i * MSS_BYTES <= n * MSS_BYTES
      BY <1>1, <2>1
    <3> QED
      BY <3>1, <3>2
  <2>4. b \in Nat /\ b + 1 <= FLOWSIZE
    BY <1>1, <2>2, <2>3
  <2> HIDE DEF b
  <2>5. b + 1 \in Nat /\ b + 1 >= 1 /\ (b + 1) - 1 = b
    BY <2>4
  <2>6. IsSegment(b + 1) /\ b + 1 <= FLOWSIZE
    BY <2>2, <2>4, <2>5 DEF IsSegment
  <2> QED
    BY <2>6 DEF b
<1>5. new \in Seq(Nat) /\ Len(new) = n
  <2>1. \A i \in 1 .. n : highest + (i - 1) * MSS_BYTES + 1 \in Nat
    BY <1>4 DEF IsSegment
  <2> QED
    BY <1>1, <1>2, <2>1
<1>6. SegmentsOn(new)
  BY <1>2, <1>4, <1>5 DEF SegmentsOn
<1>7. Divides(MSS_BYTES, highest + n * MSS_BYTES)
  BY <1>1, <1>3
<1> QED
  BY <1>5, <1>6, <1>7 DEF n, new

(* What sendPackets leaves, with or without the retransmission of the      *)
(* first segment that is not acknowledged: the packets on their way, the   *)
(* source's numbers and the timeout.                                       *)
Sent(retransmit, acked, window, armed, n) ==
  /\ fwd' \in Seq(Nat) /\ Len(fwd') <= PATH_CAPACITY /\ SegmentsOn(fwd)'
  /\ Len(fwd) <= Len(fwd') /\ nPackets' = n + (Len(fwd') - Len(fwd))
  /\ highest_sent' \in Nat /\ highest_sent' < FLOWSIZE + MSS_BYTES
  /\ Divides(MSS_BYTES, highest_sent') /\ highest_sent <= highest_sent'
  /\ InBytes(Len(fwd') - Len(fwd)) <=
       (highest_sent' - highest_sent) + (IF retransmit THEN MSS_BYTES ELSE 0)
  /\ rto' \in BOOLEAN
  /\ \/ armed \/ retransmit
     \/ highest_sent < FLOWSIZE /\ acked + window >= highest_sent + MSS_BYTES
     => rto' = TRUE
  /\ acked + window = highest_sent => highest_sent' = highest_sent
  /\ highest_sent < FLOWSIZE /\ acked + window = highest_sent + MSS_BYTES
       => highest_sent' = highest_sent + MSS_BYTES

(* sendPackets sends segments of the flow, counts them, and sets the       *)
(* timeout when it sends any.                                              *)
LEMMA SendPacketsFacts ==
  ASSUME NEW retransmit \in BOOLEAN, NEW acked \in Nat, NEW window \in Nat,
         NEW armed \in BOOLEAN, NEW n \in Int,
         fwd \in Seq(Nat), Len(fwd) <= PATH_CAPACITY, SegmentsOn(fwd),
         highest_sent \in Nat, highest_sent < FLOWSIZE + MSS_BYTES,
         Divides(MSS_BYTES, highest_sent), Divides(MSS_BYTES, acked), acked < FLOWSIZE,
         SendPackets(retransmit, acked, window, armed, n)
  PROVE  Sent(retransmit, acked, window, armed, n)
<1> DEFINE new == NewSegments(acked, window, highest_sent)
           k == SegmentsToSend(acked, window, highest_sent)
           again == IF retransmit THEN <<acked + 1>> ELSE <<>>
           out == again \o new
           a == IF retransmit THEN 1 ELSE 0
<1> USE ConstantTypes
<1>1. /\ k \in Nat /\ k * MSS_BYTES \in Nat
      /\ highest_sent + k * MSS_BYTES < FLOWSIZE + MSS_BYTES
      /\ highest_sent < FLOWSIZE /\ acked + window >= highest_sent + MSS_BYTES => k >= 1
      /\ acked + window = highest_sent => k = 0
      /\ highest_sent < FLOWSIZE /\ acked + window = highest_sent + MSS_BYTES => k = 1
  BY SegmentsToSendFacts
<1>2. /\ new \in Seq(Nat) /\ Len(new) = k /\ SegmentsOn(new)
      /\ Divides(MSS_BYTES, highest_sent + k * MSS_BYTES)
  BY NewSegmentsFacts
<1>3. /\ Send(fwd, out, fwd', n, nPackets')
      /\ highest_sent' = highest_sent + Len(new) * MSS_BYTES
      /\ rto' = (armed \/ out # <<>>)
  BY DEF SendPackets
<1> HIDE DEF k, new
<1>4. again \in Seq(Nat) /\ Len(again) = a /\ SegmentsOn(again)
  <2>1. IsSegment(acked + 1) /\ acked + 1 <= FLOWSIZE
    <3>1. acked + 1 \in Nat /\ acked + 1 >= 1 /\ (acked + 1) - 1 = acked /\ acked + 1 <= FLOWSIZE
      OBVIOUS
    <3> QED
      BY <3>1 DEF IsSegment
  <2> QED
    BY <2>1 DEF SegmentsOn
<1> HIDE DEF again
<1>5. /\ out \in Seq(Nat) /\ Len(out) = a + k
      /\ \A i \in 1 .. (a + k) : out[i] = IF i <= a THEN again[i] ELSE new[i - a]
  <2> HIDE DEF a
  <2>1. /\ again \o new \in Seq(Nat) /\ Len(again \o new) = Len(again) + Len(new)
        /\ \A i \in 1 .. (Len(again) + Len(new)) :
             (again \o new)[i] = IF i <= Len(again) THEN again[i] ELSE new[i - Len(again)]
    BY <1>2, <1>4, ConcatProperties, ZenonT(60)
  <2> QED
    BY <1>2, <1>4, <2>1
<1>6. SegmentsOn(out)
  <2> SUFFICES ASSUME NEW i \in 1 .. (a + k)
               PROVE  IsSegment(out[i]) /\ out[i] <= FLOWSIZE
    BY <1>5 DEF SegmentsOn
  <2>1. CASE i <= a
    <3>1. out[i] = again[i] /\ i \in 1 .. Len(again)
      BY <1>4, <1>5, <2>1, SMTT(60)
    <3> QED
      BY <1>4, <3>1 DEF SegmentsOn
  <2>2. CASE ~ (i <= a)
    <3>1. out[i] = new[i - a]
      BY <1>5, <2>2
    <3>2. i - a \in 1 .. Len(new)
      BY <1>1, <1>2, <2>2
    <3> QED
      BY <1>2, <3>1, <3>2 DEF SegmentsOn
  <2> QED
    BY <2>1, <2>2
<1>7. out # <<>> <=> a + k > 0
  BY <1>1, <1>5, SMTT(60)
<1> HIDE DEF out
<1>8. /\ fwd' \in Seq(Nat) /\ Len(fwd') <= PATH_CAPACITY
      /\ Len(fwd) <= Len(fwd') /\ Len(fwd') <= Len(fwd) + Len(out)
      /\ nPackets' = n + (Len(fwd') - Len(fwd))
      /\ \A i \in 1 .. Len(fwd) : fwd'[i] = fwd[i]
      /\ \A i \in 1 .. Len(fwd') :
           i > Len(fwd) => \E j \in 1 .. Len(out) : fwd'[i] = out[j]
  <2>1. fwd \in Seq(Nat) /\ Len(fwd) <= PATH_CAPACITY /\ out \in Seq(Nat) /\ n \in Int
    BY <1>5
  <2>2. Send(fwd, out, fwd', n, nPackets')
    BY <1>3
  <2> QED
    BY <2>1, <2>2, SendFacts, SMTT(60)
<1>9. SegmentsOn(fwd)'
  <2> SUFFICES ASSUME NEW i \in 1 .. Len(fwd')
               PROVE  IsSegment(fwd'[i]) /\ fwd'[i] <= FLOWSIZE
    BY DEF SegmentsOn, IsSegment
  <2>1. CASE i > Len(fwd)
    <3>1. PICK j \in 1 .. Len(out) : fwd'[i] = out[j]
      BY <1>8, <2>1
    <3> QED
      BY <1>6, <3>1 DEF SegmentsOn
  <2>2. CASE ~ (i > Len(fwd))
    <3>1. i \in 1 .. Len(fwd) /\ fwd'[i] = fwd[i]
      BY <1>8, <2>2, SMTT(60)
    <3> QED
      BY <3>1 DEF SegmentsOn
  <2> QED
    BY <2>1, <2>2
<1>10. (Len(fwd') - Len(fwd)) * MSS_BYTES <= (a + k) * MSS_BYTES
  <2>1. /\ Len(fwd') - Len(fwd) \in Nat /\ Len(fwd') - Len(fwd) <= a + k /\ a + k \in Nat
    BY <1>1, <1>5, <1>8
  <2>2. \A x, y \in Nat : x <= y => x * MSS_BYTES <= y * MSS_BYTES
    OBVIOUS
  <2> QED
    BY <2>1, <2>2
<1>11. (a + k) * MSS_BYTES = a * MSS_BYTES + k * MSS_BYTES
  BY <1>1
<1>12. a * MSS_BYTES = IF retransmit THEN MSS_BYTES ELSE 0
  OBVIOUS
<1>13. highest_sent' = highest_sent + k * MSS_BYTES
  BY <1>2, <1>3
<1> HIDE DEF a
<1>14. InBytes(Len(fwd') - Len(fwd)) <=
         (highest_sent' - highest_sent) + (IF retransmit THEN MSS_BYTES ELSE 0)
  <2> DEFINE w == (Len(fwd') - Len(fwd)) * MSS_BYTES
             x == a * MSS_BYTES
             y == k * MSS_BYTES
             z == (a + k) * MSS_BYTES
  <2>1. w \in Int /\ x \in Int /\ y \in Int /\ z \in Int /\ highest_sent \in Int
    <3>1. /\ Len(fwd') - Len(fwd) \in Int /\ a \in Int /\ k \in Int /\ a + k \in Int
          /\ MSS_BYTES \in Int
      BY <1>1, <1>5, <1>8 DEF a
    <3>2. \A i, j \in Int : i * j \in Int
      OBVIOUS
    <3> QED
      BY ONLY <3>1, <3>2, highest_sent \in Nat
  <2>2. /\ w <= z /\ z = x + y /\ highest_sent' = highest_sent + y
        /\ x = (IF retransmit THEN MSS_BYTES ELSE 0)
        /\ InBytes(Len(fwd') - Len(fwd)) = w
    BY <1>10, <1>11, <1>12, <1>13 DEF InBytes
  <2> HIDE DEF w, x, y, z
  <2> QED
    BY ONLY <2>1, <2>2
<1>15. /\ highest_sent' \in Nat /\ highest_sent' < FLOWSIZE + MSS_BYTES
       /\ Divides(MSS_BYTES, highest_sent') /\ highest_sent <= highest_sent'
  <2> DEFINE h == highest_sent + k * MSS_BYTES
  <2>1. h \in Nat /\ h < FLOWSIZE + MSS_BYTES /\ highest_sent <= h /\ Divides(MSS_BYTES, h)
    <3>1. Divides(MSS_BYTES, h)
      BY <1>2
    <3>2. h < FLOWSIZE + MSS_BYTES
      BY <1>1
    <3>3. h \in Nat /\ highest_sent <= h
      BY <1>1
    <3> QED
      BY <3>1, <3>2, <3>3
  <2>2. highest_sent' = h
    BY <1>13
  <2> HIDE DEF h
  <2> QED
    BY <2>1, <2>2
<1>16. /\ rto' \in BOOLEAN
       /\ \/ armed \/ retransmit
          \/ highest_sent < FLOWSIZE /\ acked + window >= highest_sent + MSS_BYTES
          => rto' = TRUE
  <2>1. retransmit => a + k > 0
    BY <1>1 DEF a
  <2>2. k >= 1 => a + k > 0
    BY <1>1 DEF a
  <2> QED
    BY <1>1, <1>3, <1>7, <2>1, <2>2
<1>17. /\ acked + window = highest_sent => highest_sent' = highest_sent
       /\ highest_sent < FLOWSIZE /\ acked + window = highest_sent + MSS_BYTES
            => highest_sent' = highest_sent + MSS_BYTES
  <2>1. 0 * MSS_BYTES = 0 /\ 1 * MSS_BYTES = MSS_BYTES
    OBVIOUS
  <2> QED
    BY <1>1, <1>13, <2>1
<1> QED
  BY <1>8, <1>9, <1>14, <1>15, <1>16, <1>17 DEF Sent

-----------------------------------------------------------------------------
(* The bound of the window, and how far it is from the width of uint32_t.  *)
LEMMA BoundFacts ==
  LET P == PATH_CAPACITY * MSS_BYTES
      D == DUPACK_LIMIT * MSS_BYTES
  IN  /\ P \in Nat /\ P >= MSS_BYTES /\ D \in Nat /\ D >= MSS_BYTES
      /\ WindowBound \in Nat
      /\ WindowBound = 3 * FLOWSIZE + 4 * P + 2 * D + 2 * MSS_BYTES
      /\ WORD > 4 * FLOWSIZE + 4 * P + 4 * D + 8 * MSS_BYTES
<1> DEFINE P == PATH_CAPACITY * MSS_BYTES
           D == DUPACK_LIMIT * MSS_BYTES
<1>1. \A k \in Nat \ {0} : k * MSS_BYTES \in Nat /\ k * MSS_BYTES >= MSS_BYTES
  BY DataSinkAssumption
<1>2. P \in Nat /\ P >= MSS_BYTES /\ D \in Nat /\ D >= MSS_BYTES
  BY <1>1, ConstantTypes
<1>3. WindowBound = 3 * FLOWSIZE + 4 * P + 2 * D + 2 * MSS_BYTES
  BY ConstantTypes DEF WindowBound
<1>4. 4 * (FLOWSIZE + (PATH_CAPACITY + DUPACK_LIMIT + 2) * MSS_BYTES)
        = 4 * FLOWSIZE + 4 * P + 4 * D + 8 * MSS_BYTES
  BY ConstantTypes
<1>5. WORD > 4 * FLOWSIZE + 4 * P + 4 * D + 8 * MSS_BYTES
  BY <1>4, TcpAssumption
<1> HIDE DEF P, D
<1>6. WindowBound \in Nat
  BY <1>2, <1>3, ConstantTypes
<1> QED
  BY <1>2, <1>3, <1>5, <1>6 DEF P, D

(* A segment is no more than the bound, and both are within uint32_t.      *)
LEMMA BoundRange ==
  /\ MSS_BYTES <= WindowBound /\ WindowBound \in Nat
  /\ 2 * MSS_BYTES \in 1 .. (WORD - 1) /\ MSS_BYTES \in 1 .. (WORD - 1)
  /\ 2 * MSS_BYTES <= WindowBound
  /\ FLOWSIZE + WindowBound + MSS_BYTES < WORD
  /\ 2 * FLOWSIZE + 4 * MSS_BYTES < WORD
<1> DEFINE P == PATH_CAPACITY * MSS_BYTES
           D == DUPACK_LIMIT * MSS_BYTES
<1>1. /\ P \in Nat /\ P >= MSS_BYTES /\ D \in Nat /\ D >= MSS_BYTES
      /\ WindowBound = 3 * FLOWSIZE + 4 * P + 2 * D + 2 * MSS_BYTES
      /\ WORD > 4 * FLOWSIZE + 4 * P + 4 * D + 8 * MSS_BYTES
  BY BoundFacts
<1> HIDE DEF P, D
<1> QED
  BY <1>1, ConstantTypes

(* The window and the threshold after the DCTCP part of an ack.            *)
LEMMA EcnFacts ==
  ASSUME TypeOK, WindowOK, Active, NEW e \in EcnOutcomes
  PROVE  /\ e.st \in {"SLOW_START", "CONG_AVOID", "FAST_RECOV"}
         /\ e.st = "FAST_RECOV" <=> state = "FAST_RECOV"
         /\ e.sst \in MSS_BYTES .. (WORD - 1)
         /\ e.cw \in 0 .. (WORD - 1)
         /\ \/ e.cw >= MSS_BYTES
            \/ e.st = "CONG_AVOID" /\ e.cw = 0 /\ highest_sent = last_acked
         /\ e.st # "FAST_RECOV" => e.cw <= last_acked + WindowBound
         /\ e.st = "FAST_RECOV" => e.cw <= cwnd /\ (e.sst = ssthresh \/ e.sst <= cwnd)
<1> USE ConstantTypes
<1>1. /\ cwnd \in 0 .. (WORD - 1) /\ ssthresh \in 0 .. (WORD - 1) /\ last_acked \in Nat
      /\ highest_sent \in Nat
  BY DEF TypeOK
<1>2. state \in {"SLOW_START", "CONG_AVOID", "FAST_RECOV"}
  BY DEF Active
<1>3. /\ ssthresh >= MSS_BYTES
      /\ \/ cwnd >= MSS_BYTES
         \/ state = "CONG_AVOID" /\ cwnd = 0 /\ highest_sent = last_acked
      /\ state # "FAST_RECOV" => cwnd <= last_acked + WindowBound
  BY DEF WindowOK
<1>4. MSS_BYTES <= WORD - 1 /\ MSS_BYTES <= WindowBound /\ WindowBound \in Nat
  BY BoundRange
<1>5. \/ e.st = state /\ e.sst = ssthresh /\ e.cw = cwnd
      \/ state = "SLOW_START" /\ e.st = "CONG_AVOID" /\ e.sst = cwnd /\ e.cw = cwnd
      \/ /\ e.st = state \/ (e.st = "CONG_AVOID" /\ state = "SLOW_START")
         /\ \E c \in 0 .. cwnd : e.sst = Max2(c, MSS_BYTES) /\ e.cw = Max2(c, MSS_BYTES)
  <2>1. \A c \in (cwnd \div 2) .. cwnd : c \in 0 .. cwnd
    BY <1>1
  <2>2. CASE mode.dctcp
    BY <2>1, <2>2 DEF EcnOutcomes
  <2>3. CASE ~ mode.dctcp
    BY <2>3 DEF EcnOutcomes
  <2> QED
    BY <2>2, <2>3
<1>6. CASE e.st = state /\ e.sst = ssthresh /\ e.cw = cwnd
  BY <1>1, <1>2, <1>3, <1>4, <1>6
<1>7. CASE state = "SLOW_START" /\ e.st = "CONG_AVOID" /\ e.sst = cwnd /\ e.cw = cwnd
  BY <1>1, <1>2, <1>3, <1>4, <1>7
<1>8. CASE /\ e.st = state \/ (e.st = "CONG_AVOID" /\ state = "SLOW_START")
           /\ \E c \in 0 .. cwnd : e.sst = Max2(c, MSS_BYTES) /\ e.cw = Max2(c, MSS_BYTES)
  <2>1. PICK c \in 0 .. cwnd : e.sst = Max2(c, MSS_BYTES) /\ e.cw = Max2(c, MSS_BYTES)
    BY <1>8
  <2>2. e.sst \in MSS_BYTES .. (WORD - 1) /\ e.cw = e.sst /\ (e.cw <= cwnd \/ e.cw = MSS_BYTES)
    BY <1>1, <1>4, <2>1 DEF Max2
  <2> QED
    BY <1>1, <1>2, <1>3, <1>4, <1>8, <2>2
<1> QED
  BY <1>5, <1>6, <1>7, <1>8

(* A quotient by what is at least d, of what is at most d times d.         *)
LEMMA QuotientBound ==
  ASSUME NEW d \in Nat \ {0}, NEW k \in 0 .. d, NEW w \in Nat, w >= d
  PROVE  (k * d) \div w \in 0 .. d
<1> DEFINE q == (k * d) \div w
           r == (k * d) % w
<1>1. k * d \in Nat /\ k * d <= d * d /\ d * d <= d * w /\ d * w \in Nat
  OBVIOUS
<1>2. q \in Int /\ k * d = w * q + r /\ r \in 0 .. (w - 1)
  <2> DEFINE p == k * d
  <2>1. p \in Int /\ w \in Nat \ {0}
    BY <1>1
  <2> HIDE DEF p
  <2>2. p \div w \in Int /\ p = w * (p \div w) + (p % w) /\ p % w \in 0 .. (w - 1)
    BY <2>1, DivMod
  <2> QED
    BY <2>2 DEF p
<1> HIDE DEF q, r
<1>3. q >= 0
  BY <1>1, <1>2
<1>4. CASE q > d
  <2>1. w * q >= w * (d + 1)
    BY <1>2, <1>4
  <2>2. w * (d + 1) = d * w + w
    OBVIOUS
  <2> QED
    BY <1>1, <1>2, <2>1, <2>2
<1> QED
  BY <1>2, <1>3, <1>4 DEF q

(* inflateWindow adds at most a segment, and makes a window of a segment   *)
(* of none when the ack acknowledges a segment more than what was sent.    *)
LEMMA InflatedFacts ==
  ASSUME NEW acked \in Nat, NEW window \in Nat, NEW sst \in Nat,
         highest_sent \in Nat, sst >= MSS_BYTES
  PROVE  LET w == InflatedWindow(acked, window, sst)
         IN  /\ window >= MSS_BYTES => w \in Nat /\ w >= window /\ w <= window + MSS_BYTES
             /\ window = 0 /\ acked >= highest_sent + MSS_BYTES => w = MSS_BYTES
<1> DEFINE newly == Min2(acked + window - highest_sent, MSS_BYTES)
           w == InflatedWindow(acked, window, sst)
<1> SUFFICES /\ window >= MSS_BYTES => w \in Nat /\ w >= window /\ w <= window + MSS_BYTES
             /\ window = 0 /\ acked >= highest_sent + MSS_BYTES => w = MSS_BYTES
  OBVIOUS
<1> USE ConstantTypes
<1>1. /\ newly \in Int /\ newly <= MSS_BYTES
      /\ window = 0 /\ acked >= highest_sent + MSS_BYTES => newly = MSS_BYTES
  BY DEF Min2
<1>2. w = IF newly < 0 THEN window
          ELSE IF window < sst THEN window + Min2(sst - window, newly)
          ELSE window + Max2((newly * MSS_BYTES) \div window, 1)
  BY DEF InflatedWindow
<1> HIDE DEF newly, w
<1>3. CASE newly < 0
  BY <1>1, <1>2, <1>3
<1>4. CASE ~ (newly < 0) /\ window < sst
  <2>1. w = window + Min2(sst - window, newly)
    BY <1>2, <1>4
  <2>2. Min2(sst - window, newly) \in 0 .. MSS_BYTES
    BY <1>1, <1>4 DEF Min2
  <2>3. window = 0 /\ newly = MSS_BYTES => Min2(sst - window, newly) = MSS_BYTES
    BY DEF Min2
  <2> QED
    BY <1>1, <2>1, <2>2, <2>3
<1>5. CASE ~ (newly < 0) /\ ~ (window < sst)
  <2> DEFINE q == (newly * MSS_BYTES) \div window
  <2>1. w = window + Max2(q, 1)
    BY <1>2, <1>5
  <2>2. newly \in 0 .. MSS_BYTES /\ window >= MSS_BYTES
    BY <1>1, <1>5
  <2>3. q \in 0 .. MSS_BYTES
    BY <2>2, QuotientBound
  <2> HIDE DEF q
  <2>4. Max2(q, 1) \in 0 .. MSS_BYTES
    BY <2>3 DEF Max2
  <2> QED
    BY <1>1, <2>1, <2>2, <2>4
<1> QED
  BY <1>3, <1>4, <1>5

(* What is within one width of 0, in unsigned arithmetic.                  *)
LEMMA Wrapped ==
  ASSUME NEW a \in Int, NEW w \in Nat \ {0}
  PROVE  /\ 0 <= a /\ a < w => a % w = a
         /\ 0 - w <= a /\ a < 0 => a % w = a + w
         /\ a = w => a % w = 0
         /\ a % w \in 0 .. (w - 1)
<1> DEFINE q == a \div w
           r == a % w
<1>1. q \in Int /\ a = w * q + r /\ r \in 0 .. (w - 1)
  BY DivMod
<1> HIDE DEF q, r
<1>2. w * 0 = 0 /\ w * (0 - 1) = 0 - w /\ w * 1 = w
  OBVIOUS
<1>3. \A k \in Int : (k >= 1 => w * k >= w) /\ (k <= 0 - 1 => w * k <= 0 - w)
                     /\ (k >= 2 => w * k >= 2 * w) /\ (k <= 0 - 2 => w * k <= 0 - 2 * w)
  OBVIOUS
<1>4. 0 <= a /\ a < w => q = 0
  BY <1>1, <1>3
<1>5. 0 - w <= a /\ a < 0 => q = 0 - 1
  BY <1>1, <1>2, <1>3
<1>6. a = w => q = 1
  BY <1>1, <1>2, <1>3
<1> QED
  BY <1>1, <1>2, <1>4, <1>5, <1>6 DEF r

(* The window from the bytes in flight: at least a segment, but for an ack *)
(* of exactly a segment more than what was sent.                           *)
LEMMA FlightFacts ==
  ASSUME NEW acked \in Nat, NEW sst \in MSS_BYTES .. (WORD - 1),
         highest_sent \in Nat, highest_sent < FLOWSIZE + MSS_BYTES, acked < FLOWSIZE,
         Divides(MSS_BYTES, highest_sent), Divides(MSS_BYTES, acked)
  PROVE  LET w == FlightWindow(sst, acked)
         IN  /\ w \in 0 .. (WORD - 1) /\ w <= sst
             /\ w >= MSS_BYTES \/ (w = 0 /\ acked = highest_sent + MSS_BYTES)
<1> DEFINE d == highest_sent - acked
           m == d % WORD
           g == (m + MSS_BYTES) % WORD
           w == FlightWindow(sst, acked)
<1> USE ConstantTypes
<1>1. WORD \in Nat \ {0} /\ 2 * FLOWSIZE + 4 * MSS_BYTES < WORD
  BY BoundRange
<1>2. d \in Int /\ 0 - FLOWSIZE < d /\ d < FLOWSIZE + MSS_BYTES
  OBVIOUS
<1>3. d < 0 => d <= 0 - MSS_BYTES
  <2>1. highest_sent < acked => highest_sent + MSS_BYTES <= acked
    BY DividesGap
  <2> QED
    BY <2>1
<1>4. w = Min2(sst, g)
  BY DEF FlightWindow
<1>5. d < 0 - MSS_BYTES \/ d = 0 - MSS_BYTES <=> d < 0
  BY <1>2, <1>3
<1>6. d = 0 - MSS_BYTES => acked = highest_sent + MSS_BYTES
  OBVIOUS
<1>7. /\ 0 <= d /\ d < WORD => m = d
      /\ 0 - WORD <= d /\ d < 0 => m = d + WORD
      /\ m \in 0 .. (WORD - 1)
  <2> HIDE DEF d
  <2> QED
    BY <1>1, <1>2, Wrapped
<1> HIDE DEF d
<1>8. /\ m + MSS_BYTES < WORD => g = m + MSS_BYTES
      /\ m + MSS_BYTES = WORD => g = 0
      /\ g \in 0 .. (WORD - 1)
  <2> HIDE DEF m
  <2> DEFINE s == m + MSS_BYTES
  <2>1. s \in Int /\ 0 <= s
    BY <1>7
  <2>2. WORD \in Nat \ {0}
    BY <1>1
  <2> HIDE DEF s
  <2>3. /\ 0 <= s /\ s < WORD => s % WORD = s
        /\ s = WORD => s % WORD = 0
        /\ s % WORD \in 0 .. (WORD - 1)
    BY <2>1, <2>2, Wrapped
  <2>4. /\ s < WORD => s % WORD = s
        /\ s = WORD => s % WORD = 0
        /\ s % WORD \in 0 .. (WORD - 1)
    BY <2>1, <2>3
  <2> QED
    BY <2>4 DEF s
<1> HIDE DEF g, m, w
<1>9. CASE d >= 0
  <2>1. g >= MSS_BYTES /\ g \in 0 .. (WORD - 1)
    BY <1>1, <1>2, <1>7, <1>8, <1>9
  <2> QED
    BY <1>4, <2>1 DEF Min2, w
<1>10. CASE d = 0 - MSS_BYTES
  <2>1. m + MSS_BYTES = WORD
    BY <1>1, <1>2, <1>7, <1>10
  <2>2. g = 0
    BY <1>8, <2>1
  <2> QED
    BY <1>4, <1>6, <1>10, <2>2 DEF Min2, w
<1>11. CASE d < 0 - MSS_BYTES
  <2>1. m = d + WORD
    BY <1>1, <1>2, <1>7, <1>11
  <2>2. g = d + WORD + MSS_BYTES
    BY <1>2, <1>8, <1>11, <2>1
  <2>3. g >= MSS_BYTES /\ g \in 0 .. (WORD - 1)
    BY <1>1, <1>2, <1>8, <1>11, <2>2
  <2> QED
    BY <1>4, <2>3 DEF Min2, w
<1> QED
  BY <1>2, <1>5, <1>9, <1>10, <1>11

-----------------------------------------------------------------------------
(* An ack that is taken from the path is the first one on a FIFO.  What is *)
(* left is in order if it was, and not older than the one taken.           *)
LEMMA AckTaken ==
  ASSUME IInv, NEW i \in Arrivals(rev), rev' = RemoveAt(rev, i), UNCHANGED <<mode, sinkVars>>
  PROVE  /\ i \in 1 .. Len(rev) /\ rev[i] \in Nat
         /\ Divides(MSS_BYTES, rev[i]) /\ rev[i] <= cumulative_ack
         /\ rev' \in Seq(Nat) /\ Len(rev') = Len(rev) - 1 /\ Len(rev') <= PATH_CAPACITY
         /\ AcksOn(rev)'
         /\ ~mode'.reorder => /\ \A j \in 1 .. Len(rev') : rev'[j] >= rev[i]
                              /\ \A j \in 1 .. Len(rev') : Active => rev'[j] >= last_acked
                              /\ \A j, k \in 1 .. Len(rev') : j < k => rev'[j] <= rev'[k]
<1>1. rev \in Seq(Nat) /\ Len(rev) <= PATH_CAPACITY /\ Len(rev) \in Nat
  BY DEF IInv, TypeOK
<1>2. mode' = mode /\ cumulative_ack' = cumulative_ack
  BY DEF sinkVars
<1>3. i \in 1 .. Len(rev) /\ (~mode.reorder => i = 1)
  BY <1>1 DEF Arrivals, Min2
<1>4. AcksOn(rev) /\ AcksInOrder
  BY DEF IInv
<1>5. rev[i] \in Nat /\ Divides(MSS_BYTES, rev[i]) /\ rev[i] <= cumulative_ack
  BY <1>1, <1>3, <1>4 DEF AcksOn
<1>6. /\ RemoveAt(rev, i) \in Seq(Nat) /\ Len(RemoveAt(rev, i)) = Len(rev) - 1
      /\ \A j \in 1 .. (Len(rev) - 1) :
           RemoveAt(rev, i)[j] = rev[IF j < i THEN j ELSE j + 1]
  BY <1>1, <1>3, RemoveAtFacts
<1>7. /\ rev' \in Seq(Nat) /\ Len(rev') = Len(rev) - 1
      /\ \A j \in 1 .. Len(rev') : rev'[j] = rev[IF j < i THEN j ELSE j + 1]
  BY <1>6
<1>8. \A j \in 1 .. Len(rev') : (IF j < i THEN j ELSE j + 1) \in 1 .. Len(rev)
  BY <1>1, <1>3, <1>7
<1>9. Len(rev') <= PATH_CAPACITY
  BY <1>1, <1>7, ConstantTypes
<1>10. AcksOn(rev)'
  BY <1>2, <1>4, <1>7, <1>8 DEF AcksOn
<1>11. ASSUME ~mode'.reorder
       PROVE  /\ \A j \in 1 .. Len(rev') : rev'[j] >= rev[i]
              /\ \A j \in 1 .. Len(rev') : Active => rev'[j] >= last_acked
              /\ \A j, k \in 1 .. Len(rev') : j < k => rev'[j] <= rev'[k]
  <2>1. /\ i = 1 /\ \A j \in 1 .. Len(rev) : Active => rev[j] >= last_acked
        /\ \A j, k \in 1 .. Len(rev) : j < k => rev[j] <= rev[k]
    BY <1>2, <1>3, <1>4, <1>11 DEF AcksInOrder
  <2>2. \A j \in 1 .. Len(rev') : /\ rev'[j] = rev[j + 1] /\ j + 1 \in 1 .. Len(rev)
                                  /\ 1 \in 1 .. Len(rev) /\ 1 < j + 1
    <3> SUFFICES ASSUME NEW j \in 1 .. Len(rev')
                 PROVE  /\ rev'[j] = rev[j + 1] /\ j + 1 \in 1 .. Len(rev)
                        /\ 1 \in 1 .. Len(rev) /\ 1 < j + 1
      OBVIOUS
    <3>1. j \in 1 .. (Len(rev) - 1) /\ ~ (j < i)
      BY <1>7, <2>1
    <3>2. rev'[j] = rev[j + 1]
      BY <1>7, <3>1
    <3> QED
      BY <1>1, <3>1, <3>2
  <2>3. \A j, k \in 1 .. Len(rev') : j < k => j + 1 < k + 1
    OBVIOUS
  <2> QED
    BY <2>1, <2>2, <2>3
<1> QED
  BY <1>3, <1>5, <1>7, <1>9, <1>10, <1>11

(* The sink is not disturbed by what the source does.                      *)
LEMMA SinkUnchanged ==
  ASSUME SinkList, UNCHANGED sinkVars
  PROVE  SinkList'
BY DEF SinkList, sinkVars

(* The bytes of sums and differences of numbers of packets.                *)
LEMMA Bytes ==
  ASSUME NEW a \in Nat, NEW b \in Nat
  PROVE  /\ InBytes(a) \in Nat
         /\ InBytes(a + b) = InBytes(a) + InBytes(b)
         /\ a <= b => InBytes(a) <= InBytes(b)
         /\ InBytes(a - 1) = InBytes(a) - MSS_BYTES
         /\ InBytes(0) = 0 /\ InBytes(1) = MSS_BYTES
BY DataSinkAssumption DEF InBytes

(* A source that takes an ack, has a new window and calls sendPackets.     *)
LEMMA AckAndSend ==
  ASSUME IInv, UNCHANGED mode, NEW i, TakeAck(i), NEW ack \in Nat, rev[i] = ack,
         last_acked' = ack,
         NEW retransmit \in BOOLEAN, NEW window \in 0 .. (WORD - 1), NEW armed \in BOOLEAN,
         SendPackets(retransmit, ack, window, armed, nPackets - 1),
         cwnd' = window, ssthresh' \in MSS_BYTES .. (WORD - 1),
         dupacks' \in Nat, UNCHANGED recover_seq,
         state' \in {"SLOW_START", "CONG_AVOID", "FAST_RECOV"},
         armed \/ retransmit \/ (ack = highest_sent /\ window >= MSS_BYTES),
         \/ window >= MSS_BYTES
         \/ /\ state' = "CONG_AVOID" /\ window = 0
            /\ ack = highest_sent \/ ack = highest_sent + MSS_BYTES,
         state' # "FAST_RECOV" => window <= ack + WindowBound,
         state' = "FAST_RECOV" =>
           /\ ssthresh' <= WindowBound
           /\ window + InBytes(nPackets - 1) + (IF retransmit THEN MSS_BYTES ELSE 0)
                + (FLOWSIZE + MSS_BYTES - highest_sent) <= WindowBound
  PROVE  IInv'
<1> USE ConstantTypes
<1>1. /\ last_acked \in Nat /\ highest_sent \in Nat /\ recover_seq \in Nat
      /\ cumulative_ack \in Nat /\ received \in Seq(Nat)
      /\ fwd \in Seq(Nat) /\ Len(fwd) <= PATH_CAPACITY /\ Len(fwd) \in Nat
      /\ rev \in Seq(Nat) /\ Len(rev) \in Nat /\ nPackets \in Nat
  BY DEF IInv, TypeOK
<1>2. /\ SegmentsOn(fwd) /\ mode \in Modes /\ nPackets = Len(fwd) + Len(rev)
      /\ Divides(MSS_BYTES, highest_sent) /\ highest_sent < FLOWSIZE + MSS_BYTES
      /\ last_acked < FLOWSIZE /\ SinkList
  BY DEF IInv, PacketsCounted, SourceOK
<1>3. /\ Active /\ i \in Arrivals(rev) /\ last_acked <= ack /\ ack < FLOWSIZE
      /\ rev' = RemoveAt(rev, i) /\ UNCHANGED sinkVars
  BY DEF TakeAck
<1>4. /\ i \in 1 .. Len(rev) /\ ack \in Nat
      /\ Divides(MSS_BYTES, ack) /\ ack <= cumulative_ack
      /\ rev' \in Seq(Nat) /\ Len(rev') = Len(rev) - 1 /\ Len(rev') <= PATH_CAPACITY
      /\ AcksOn(rev)'
      /\ ~mode'.reorder => /\ \A j \in 1 .. Len(rev') : rev'[j] >= ack
                           /\ \A j, k \in 1 .. Len(rev') : j < k => rev'[j] <= rev'[k]
  BY <1>3, AckTaken
<1>5. cumulative_ack' = cumulative_ack /\ received' = received
  BY <1>3 DEF sinkVars
<1>6. Sent(retransmit, ack, window, armed, nPackets - 1)
  <2>1. window \in Nat /\ nPackets - 1 \in Int
    BY <1>1
  <2>2. /\ fwd \in Seq(Nat) /\ Len(fwd) <= PATH_CAPACITY /\ SegmentsOn(fwd)
        /\ highest_sent \in Nat /\ highest_sent < FLOWSIZE + MSS_BYTES
        /\ Divides(MSS_BYTES, highest_sent) /\ Divides(MSS_BYTES, ack) /\ ack < FLOWSIZE
    BY <1>1, <1>2, <1>3, <1>4
  <2>3. SendPackets(retransmit, ack, window, armed, nPackets - 1)
    OBVIOUS
  <2> QED
    BY ONLY <2>1, <2>2, <2>3, SendPacketsFacts, retransmit \in BOOLEAN, armed \in BOOLEAN, ack \in Nat,
       SMTT(30)
<1>6a. /\ fwd' \in Seq(Nat) /\ Len(fwd') <= PATH_CAPACITY /\ SegmentsOn(fwd)'
       /\ Len(fwd) <= Len(fwd') /\ nPackets' = nPackets - 1 + (Len(fwd') - Len(fwd))
       /\ highest_sent' \in Nat /\ highest_sent' < FLOWSIZE + MSS_BYTES
       /\ Divides(MSS_BYTES, highest_sent') /\ highest_sent <= highest_sent'
       /\ rto' \in BOOLEAN
  BY <1>6 DEF Sent
<1>7. rto' = TRUE
  <2>1. armed \/ retransmit \/ (highest_sent < FLOWSIZE /\ ack + window >= highest_sent + MSS_BYTES)
    BY <1>1, <1>3, SMTT(60)
  <2> QED
    BY <1>6, <2>1 DEF Sent
<1>8. Len(fwd') \in Nat /\ Len(rev') \in Nat /\ nPackets' = Len(fwd') + Len(rev') /\ nPackets' \in Nat
  <2>1. Len(fwd') \in Nat /\ Len(rev') \in Nat
    BY <1>4, <1>6a, SMTT(60)
  <2>2. nPackets' = nPackets - 1 + (Len(fwd') - Len(fwd)) /\ nPackets = Len(fwd) + Len(rev)
        /\ Len(rev') = Len(rev) - 1
    BY <1>2, <1>4, <1>6a
  <2> QED
    BY <1>1, <2>1, <2>2
<1>9. TypeOK'
  BY <1>1, <1>4, <1>5, <1>6a, <1>8 DEF TypeOK
<1>10. PacketsCounted'
  BY <1>2, <1>8 DEF PacketsCounted
<1>11. SinkList'
  BY <1>2, <1>3, SinkUnchanged
<1>12. SourceOK'
  BY <1>3, <1>4, <1>5, <1>6a DEF SourceOK
<1>13. PhaseOK'
  BY DEF PhaseOK
<1>14. WindowOK'
  <2>1. ssthresh' >= MSS_BYTES
    OBVIOUS
  <2>2. \/ cwnd' >= MSS_BYTES
        \/ state' = "CONG_AVOID" /\ cwnd' = 0 /\ highest_sent' = last_acked'
    <3>1. /\ ack + window = highest_sent => highest_sent' = highest_sent
          /\ highest_sent < FLOWSIZE /\ ack + window = highest_sent + MSS_BYTES
               => highest_sent' = highest_sent + MSS_BYTES
      BY <1>6 DEF Sent
    <3>2. CASE window >= MSS_BYTES
      BY <3>2
    <3>3. CASE window = 0 /\ state' = "CONG_AVOID" /\ ack = highest_sent
      BY <1>1, <3>1, <3>3
    <3>4. CASE window = 0 /\ state' = "CONG_AVOID" /\ ack = highest_sent + MSS_BYTES
      <4>1. highest_sent < FLOWSIZE /\ ack + window = highest_sent + MSS_BYTES
        BY <1>1, <1>3, <3>4
      <4> QED
        BY <3>1, <3>4, <4>1
    <3> QED
      BY <3>2, <3>3, <3>4
  <2>3. state' # "FAST_RECOV" => cwnd' <= last_acked' + WindowBound
    OBVIOUS
  <2>4. ASSUME state' = "FAST_RECOV"
        PROVE  cwnd' + InBytes(nPackets') + (FLOWSIZE + MSS_BYTES - highest_sent')
                 <= WindowBound
    <3> DEFINE a == Len(fwd') - Len(fwd)
               b == nPackets - 1
    <3>1. a \in Nat /\ b \in Nat /\ nPackets' = b + a
      <4>1. Len(fwd) <= Len(fwd') /\ nPackets' = nPackets - 1 + (Len(fwd') - Len(fwd))
        BY <1>6a
      <4>2. nPackets = Len(fwd) + Len(rev) /\ Len(rev) >= 1
        BY <1>1, <1>2, <1>4
      <4>3. Len(fwd) \in Nat /\ Len(rev) \in Nat /\ Len(fwd') \in Nat
        BY <1>1, <1>8
      <4> QED
        BY ONLY <4>1, <4>2, <4>3
    <3>2. /\ InBytes(a) <= (highest_sent' - highest_sent) + (IF retransmit THEN MSS_BYTES ELSE 0)
          /\ window + InBytes(b) + (IF retransmit THEN MSS_BYTES ELSE 0)
               + (FLOWSIZE + MSS_BYTES - highest_sent) <= WindowBound
      BY <1>6, <2>4 DEF Sent
    <3> HIDE DEF a, b
    <3>3. InBytes(a) \in Nat /\ InBytes(b) \in Nat /\ InBytes(b + a) = InBytes(b) + InBytes(a)
      BY <3>1, Bytes
    <3>4. WindowBound \in Nat
      BY BoundRange
    <3>5. highest_sent' \in Nat /\ cwnd' = window
      BY <1>6a
    <3>6. window + InBytes(b + a) + (FLOWSIZE + MSS_BYTES - highest_sent') <= WindowBound
      <4> DEFINE e == IF retransmit THEN MSS_BYTES ELSE 0
      <4>1. e \in Nat
        OBVIOUS
      <4>2. /\ InBytes(a) <= (highest_sent' - highest_sent) + e
            /\ window + InBytes(b) + e + (FLOWSIZE + MSS_BYTES - highest_sent) <= WindowBound
        BY <3>2
      <4>3. highest_sent \in Nat /\ window \in Nat
        BY <1>1
      <4> HIDE DEF e
      <4> QED
        BY ONLY <3>3, <3>4, <3>5, <4>1, <4>2, <4>3, ConstantTypes
    <3> QED
      BY <3>1, <3>5, <3>6
  <2> QED
    BY <2>1, <2>2, <2>3, <2>4 DEF WindowOK
<1>15. TimerRunning'
  BY <1>7 DEF TimerRunning
<1>16. AcksInOrder'
  BY <1>4 DEF AcksInOrder
<1> QED
  BY <1>4, <1>6a, <1>9, <1>10, <1>11, <1>12, <1>13, <1>14, <1>15, <1>16 DEF IInv

(* What is known of an ack and of the outcome of the DCTCP part when the   *)
(* source takes it: it ends at a segment boundary and, when new, beyond    *)
(* the last one by a segment.                                              *)
LEMMA AckFacts ==
  ASSUME IInv, UNCHANGED mode, NEW i, NEW e \in EcnOutcomes, TakeAck(i)
  PROVE  /\ rev[i] \in Nat /\ last_acked \in Nat /\ highest_sent \in Nat /\ nPackets \in Nat
         /\ highest_sent < FLOWSIZE + MSS_BYTES /\ rev[i] < FLOWSIZE
         /\ last_acked <= rev[i] /\ last_acked < FLOWSIZE
         /\ rev[i] > last_acked => rev[i] >= last_acked + MSS_BYTES
         /\ Divides(MSS_BYTES, rev[i]) /\ Divides(MSS_BYTES, highest_sent)
         /\ nPackets >= 1 /\ recover_seq \in Nat /\ dupacks \in Nat
         /\ Active /\ rto = TRUE
         /\ e.st \in {"SLOW_START", "CONG_AVOID", "FAST_RECOV"}
         /\ e.st = "FAST_RECOV" <=> state = "FAST_RECOV"
         /\ e.sst \in MSS_BYTES .. (WORD - 1)
         /\ e.cw \in 0 .. (WORD - 1)
         /\ \/ e.cw >= MSS_BYTES
            \/ e.st = "CONG_AVOID" /\ e.cw = 0 /\ highest_sent = last_acked
         /\ e.st # "FAST_RECOV" => e.cw <= last_acked + WindowBound
         /\ e.st = "FAST_RECOV" =>
              /\ e.sst <= WindowBound
              /\ e.cw + InBytes(nPackets) + (FLOWSIZE + MSS_BYTES - highest_sent) <= WindowBound
<1> USE ConstantTypes
<1>1. /\ Active /\ i \in Arrivals(rev) /\ last_acked <= rev[i] /\ rev[i] < FLOWSIZE
      /\ rev' = RemoveAt(rev, i) /\ UNCHANGED sinkVars
  BY DEF TakeAck
<1>2. /\ rev[i] \in Nat /\ Divides(MSS_BYTES, rev[i]) /\ i \in 1 .. Len(rev)
  BY <1>1, AckTaken
<1>3. /\ last_acked \in Nat /\ highest_sent \in Nat /\ nPackets \in Nat
      /\ recover_seq \in Nat /\ dupacks \in Nat /\ cwnd \in Nat /\ rto \in BOOLEAN
      /\ fwd \in Seq(Nat) /\ rev \in Seq(Nat) /\ ssthresh \in Nat
  BY DEF IInv, TypeOK
<1>4. /\ highest_sent < FLOWSIZE + MSS_BYTES /\ last_acked < FLOWSIZE
      /\ Divides(MSS_BYTES, highest_sent) /\ Divides(MSS_BYTES, last_acked)
      /\ nPackets = Len(fwd) + Len(rev)
  BY DEF IInv, SourceOK, PacketsCounted
<1>5. nPackets >= 1
  <2>1. Len(fwd) \in Nat /\ Len(rev) \in Nat /\ Len(rev) >= 1
    BY <1>2, <1>3
  <2> QED
    BY ONLY <1>4, <2>1
<1>6. rev[i] > last_acked => rev[i] >= last_acked + MSS_BYTES
  <2>1. last_acked < rev[i] => last_acked + MSS_BYTES <= rev[i]
    BY <1>2, <1>3, <1>4, DividesGap
  <2> QED
    BY <1>2, <1>3, <2>1
<1>7. rto = TRUE
  BY <1>1, <1>3 DEF IInv, TimerRunning
<1>8. TypeOK /\ WindowOK
  BY DEF IInv
<1>9. /\ e.st \in {"SLOW_START", "CONG_AVOID", "FAST_RECOV"}
      /\ e.st = "FAST_RECOV" <=> state = "FAST_RECOV"
      /\ e.sst \in MSS_BYTES .. (WORD - 1)
      /\ e.cw \in 0 .. (WORD - 1)
      /\ \/ e.cw >= MSS_BYTES
         \/ e.st = "CONG_AVOID" /\ e.cw = 0 /\ highest_sent = last_acked
      /\ e.st # "FAST_RECOV" => e.cw <= last_acked + WindowBound
      /\ e.st = "FAST_RECOV" => e.cw <= cwnd /\ (e.sst = ssthresh \/ e.sst <= cwnd)
  BY <1>1, <1>8, EcnFacts
<1>10. ASSUME e.st = "FAST_RECOV"
       PROVE  /\ e.sst <= WindowBound
              /\ e.cw + InBytes(nPackets) + (FLOWSIZE + MSS_BYTES - highest_sent) <= WindowBound
  <2>1. /\ ssthresh <= WindowBound
        /\ cwnd + InBytes(nPackets) + (FLOWSIZE + MSS_BYTES - highest_sent) <= WindowBound
    BY <1>8, <1>9, <1>10 DEF WindowOK
  <2>2. InBytes(nPackets) \in Nat /\ WindowBound \in Nat
    BY <1>3, Bytes, BoundRange
  <2>3. e.cw \in Nat /\ e.sst \in Nat /\ e.cw <= cwnd /\ (e.sst = ssthresh \/ e.sst <= cwnd)
    BY <1>9, <1>10
  <2>4. PICK b \in Nat : b = InBytes(nPackets)
    BY <2>2
  <2>5. PICK w \in Nat : w = WindowBound
    BY <2>2
  <2>6. PICK r \in Int : r = FLOWSIZE + MSS_BYTES - highest_sent
    BY ONLY <1>3, ConstantTypes
  <2>7. r >= 0
    BY ONLY <1>3, <1>4, <2>6, ConstantTypes
  <2>8. cwnd \in Nat /\ ssthresh \in Nat /\ ssthresh <= w /\ cwnd + b + r <= w
    BY ONLY <1>3, <2>1, <2>4, <2>5, <2>6
  <2>9. e.cw + b + r <= w
    BY ONLY <2>3, <2>4, <2>5, <2>6, <2>8
  <2>10. e.sst <= w
    BY ONLY <2>3, <2>4, <2>5, <2>6, <2>7, <2>8
  <2> QED
    BY ONLY <2>4, <2>5, <2>6, <2>9, <2>10
<1> QED
  BY <1>1, <1>2, <1>3, <1>4, <1>5, <1>6, <1>7, <1>9, <1>10

LEMMA AckNewInv ==
  ASSUME IInv, UNCHANGED mode, NEW i, NEW e \in EcnOutcomes, AckNew(i, e)
  PROVE  IInv'
<1> DEFINE ack == rev[i]
           window == InflatedWindow(ack, e.cw, e.sst)
           armed == ack # highest_sent
<1> USE ConstantTypes
<1>1. /\ TakeAck(i) /\ ack > last_acked /\ e.st # "FAST_RECOV"
      /\ last_acked' = ack /\ dupacks' = 0
      /\ state' = e.st /\ ssthresh' = e.sst /\ cwnd' = window
      /\ SendPackets(FALSE, ack, window, armed, nPackets - 1)
      /\ UNCHANGED recover_seq
  BY DEF AckNew
<1>2. /\ ack \in Nat /\ last_acked \in Nat /\ highest_sent \in Nat /\ ack < FLOWSIZE
      /\ ack >= last_acked + MSS_BYTES /\ last_acked < FLOWSIZE
      /\ e.st \in {"SLOW_START", "CONG_AVOID", "FAST_RECOV"}
      /\ e.sst \in MSS_BYTES .. (WORD - 1) /\ e.cw \in 0 .. (WORD - 1)
      /\ \/ e.cw >= MSS_BYTES
         \/ e.st = "CONG_AVOID" /\ e.cw = 0 /\ highest_sent = last_acked
      /\ e.cw <= last_acked + WindowBound
  BY <1>1, AckFacts
<1>3. WindowBound \in Nat /\ FLOWSIZE + WindowBound + MSS_BYTES < WORD /\ MSS_BYTES <= WindowBound
  BY BoundRange
<1> HIDE DEF ack
<1>4. /\ e.cw >= MSS_BYTES => window \in Nat /\ window >= e.cw /\ window <= e.cw + MSS_BYTES
      /\ e.cw = 0 /\ ack >= highest_sent + MSS_BYTES => window = MSS_BYTES
  <2>1. e.cw \in Nat /\ e.sst \in Nat /\ e.sst >= MSS_BYTES
    BY <1>2
  <2> QED
    BY <1>2, <2>1, InflatedFacts
<1> HIDE DEF window
<1>5. window \in 0 .. (WORD - 1) /\ window >= MSS_BYTES /\ window <= ack + WindowBound
  BY ONLY <1>2, <1>3, <1>4, ConstantTypes
<1> HIDE DEF armed
<1>6. armed \in BOOLEAN /\ (armed \/ ack = highest_sent)
  BY DEF armed
<1>7. rev[i] = ack
  BY DEF ack
<1> QED
  BY <1>1, <1>2, <1>5, <1>6, <1>7, AckAndSend

LEMMA AckRecoveredInv ==
  ASSUME IInv, UNCHANGED mode, NEW i, NEW e \in EcnOutcomes, AckRecovered(i, e)
  PROVE  IInv'
<1> DEFINE ack == rev[i]
           window == FlightWindow(e.sst, ack)
           armed == ack # highest_sent
<1> USE ConstantTypes
<1>1. /\ TakeAck(i) /\ ack > last_acked /\ e.st = "FAST_RECOV"
      /\ last_acked' = ack /\ dupacks' = 0
      /\ state' = "CONG_AVOID" /\ ssthresh' = e.sst /\ cwnd' = window
      /\ SendPackets(FALSE, ack, window, armed, nPackets - 1)
      /\ UNCHANGED recover_seq
  BY DEF AckRecovered
<1>2. /\ ack \in Nat /\ last_acked \in Nat /\ highest_sent \in Nat /\ ack < FLOWSIZE
      /\ highest_sent < FLOWSIZE + MSS_BYTES
      /\ Divides(MSS_BYTES, ack) /\ Divides(MSS_BYTES, highest_sent)
      /\ e.sst \in MSS_BYTES .. (WORD - 1) /\ e.sst <= WindowBound
  BY <1>1, AckFacts
<1>3. WindowBound \in Nat /\ MSS_BYTES <= WindowBound
  BY BoundRange
<1> HIDE DEF ack
<1>4. /\ window \in 0 .. (WORD - 1) /\ window <= e.sst
      /\ window >= MSS_BYTES \/ (window = 0 /\ ack = highest_sent + MSS_BYTES)
  BY <1>2, FlightFacts
<1> HIDE DEF window
<1>5. window <= ack + WindowBound
  BY ONLY <1>2, <1>3, <1>4, ConstantTypes
<1>6. ack = highest_sent => window >= MSS_BYTES
  BY ONLY <1>2, <1>4, ConstantTypes
<1> HIDE DEF armed
<1>7. armed \in BOOLEAN /\ (armed \/ ack = highest_sent)
  BY DEF armed
<1>8. rev[i] = ack
  BY DEF ack
<1> QED
  BY <1>1, <1>2, <1>4, <1>5, <1>6, <1>7, <1>8, AckAndSend

LEMMA AckPartialInv ==
  ASSUME IInv, UNCHANGED mode, NEW i, NEW e \in EcnOutcomes, AckPartial(i, e)
  PROVE  IInv'
<1> DEFINE ack == rev[i]
           window == Max2(e.cw - (ack - last_acked), 0) + MSS_BYTES
           armed == ack # highest_sent
<1> USE ConstantTypes
<1>1. /\ TakeAck(i) /\ ack > last_acked /\ e.st = "FAST_RECOV"
      /\ last_acked' = ack /\ UNCHANGED <<dupacks, recover_seq>>
      /\ state' = e.st /\ ssthresh' = e.sst /\ cwnd' = window
      /\ SendPackets(TRUE, ack, window, armed, nPackets - 1)
  BY DEF AckPartial
<1>2. /\ ack \in Nat /\ last_acked \in Nat /\ highest_sent \in Nat /\ ack < FLOWSIZE
      /\ highest_sent < FLOWSIZE + MSS_BYTES /\ nPackets \in Nat
      /\ ack >= last_acked + MSS_BYTES /\ dupacks \in Nat
      /\ e.sst \in MSS_BYTES .. (WORD - 1) /\ e.cw \in 0 .. (WORD - 1) /\ e.cw >= MSS_BYTES
      /\ e.sst <= WindowBound
      /\ e.cw + InBytes(nPackets) + (FLOWSIZE + MSS_BYTES - highest_sent) <= WindowBound
  BY <1>1, AckFacts
<1>3. WindowBound \in Nat /\ FLOWSIZE + WindowBound + MSS_BYTES < WORD
  BY BoundRange
<1> HIDE DEF ack
<1>4. window \in Nat /\ window >= MSS_BYTES /\ window <= e.cw
  BY <1>2 DEF Max2
<1> HIDE DEF window
<1>5. InBytes(nPackets) \in Nat /\ InBytes(nPackets - 1) = InBytes(nPackets) - MSS_BYTES
  BY <1>2, Bytes
<1>6. /\ window \in 0 .. (WORD - 1)
      /\ window + InBytes(nPackets - 1) + MSS_BYTES + (FLOWSIZE + MSS_BYTES - highest_sent)
           <= WindowBound
  BY ONLY <1>2, <1>3, <1>4, <1>5, ConstantTypes
<1> HIDE DEF armed
<1>7. armed \in BOOLEAN /\ TRUE \in BOOLEAN
  BY DEF armed
<1>8. rev[i] = ack /\ dupacks' \in Nat
  BY <1>1, <1>2 DEF ack
<1> QED
  BY <1>1, <1>2, <1>4, <1>6, <1>7, <1>8, AckAndSend

LEMMA AckDupInv ==
  ASSUME IInv, UNCHANGED mode, NEW i, NEW e \in EcnOutcomes, AckDup(i, e)
  PROVE  IInv'
<1> DEFINE ack == rev[i]
           window == IF e.st = "FAST_RECOV" THEN e.cw + MSS_BYTES ELSE e.cw
<1> USE ConstantTypes
<1>1. /\ TakeAck(i) /\ ack = last_acked
      /\ last_acked' = last_acked /\ UNCHANGED recover_seq
      /\ dupacks' = IF e.st = "FAST_RECOV" THEN dupacks ELSE dupacks + 1
      /\ state' = e.st /\ ssthresh' = e.sst /\ cwnd' = window
      /\ SendPackets(FALSE, last_acked, window, rto, nPackets - 1)
  BY DEF AckDup
<1>2. /\ ack \in Nat /\ last_acked \in Nat /\ highest_sent \in Nat /\ ack < FLOWSIZE
      /\ highest_sent < FLOWSIZE + MSS_BYTES /\ nPackets \in Nat
      /\ dupacks \in Nat /\ rto = TRUE
      /\ e.st \in {"SLOW_START", "CONG_AVOID", "FAST_RECOV"}
      /\ e.sst \in MSS_BYTES .. (WORD - 1) /\ e.cw \in 0 .. (WORD - 1)
      /\ \/ e.cw >= MSS_BYTES
         \/ e.st = "CONG_AVOID" /\ e.cw = 0 /\ highest_sent = last_acked
      /\ e.st # "FAST_RECOV" => e.cw <= last_acked + WindowBound
      /\ e.st = "FAST_RECOV" =>
           /\ e.sst <= WindowBound
           /\ e.cw + InBytes(nPackets) + (FLOWSIZE + MSS_BYTES - highest_sent) <= WindowBound
      /\ nPackets >= 1
  BY <1>1, AckFacts
<1>3. WindowBound \in Nat /\ FLOWSIZE + WindowBound + MSS_BYTES < WORD
  BY BoundRange
<1>4. /\ InBytes(nPackets) \in Nat /\ InBytes(nPackets - 1) = InBytes(nPackets) - MSS_BYTES
      /\ InBytes(nPackets - 1) \in Nat
  <2>1. nPackets - 1 \in Nat
    BY <1>2
  <2> QED
    BY <1>2, <2>1, Bytes
<1>5. /\ window \in 0 .. (WORD - 1)
      /\ \/ window >= MSS_BYTES
         \/ e.st = "CONG_AVOID" /\ window = 0 /\ ack = highest_sent
      /\ e.st # "FAST_RECOV" => window <= ack + WindowBound
      /\ e.st = "FAST_RECOV" =>
           window + InBytes(nPackets - 1) + 0 + (FLOWSIZE + MSS_BYTES - highest_sent)
             <= WindowBound
  <2>1. CASE e.st = "FAST_RECOV"
    BY <1>1, <1>2, <1>3, <1>4, <2>1
  <2>2. CASE e.st # "FAST_RECOV"
    BY <1>1, <1>2, <1>3, <2>2
  <2> QED
    BY <2>1, <2>2
<1>6. dupacks' \in Nat
  BY <1>1, <1>2
<1>7. rev[i] = ack /\ SendPackets(FALSE, ack, window, TRUE, nPackets - 1) /\ last_acked' = ack
  BY <1>1, <1>2
<1> HIDE DEF ack, window
<1> QED
  BY <1>1, <1>2, <1>5, <1>6, <1>7, AckAndSend

(* The retransmission of the first segment that is not acknowledged.       *)
LEMMA RetransmitFacts ==
  ASSUME fwd \in Seq(Nat), Len(fwd) <= PATH_CAPACITY, SegmentsOn(fwd), last_acked \in Nat,
         Divides(MSS_BYTES, last_acked), last_acked < FLOWSIZE, NEW n \in Int,
         Send(fwd, <<last_acked + 1>>, fwd', n, nPackets')
  PROVE  /\ fwd' \in Seq(Nat) /\ Len(fwd') <= PATH_CAPACITY /\ SegmentsOn(fwd)'
         /\ Len(fwd) <= Len(fwd') /\ Len(fwd') <= Len(fwd) + 1
         /\ nPackets' = n + (Len(fwd') - Len(fwd))
<1> DEFINE s == last_acked + 1
           out == <<s>>
<1>1. s \in Nat /\ IsSegment(s) /\ s <= FLOWSIZE
  <2>1. s \in Nat /\ s >= 1 /\ s - 1 = last_acked /\ s <= FLOWSIZE
    BY ConstantTypes
  <2> HIDE DEF s
  <2> QED
    BY <2>1 DEF IsSegment
<1>2. Send(fwd, out, fwd', n, nPackets')
  OBVIOUS
<1> HIDE DEF s
<1>3. out \in Seq(Nat) /\ Len(out) = 1 /\ \A j \in 1 .. Len(out) : out[j] = s
  BY <1>1
<1> HIDE DEF out
<1>4. /\ fwd' \in Seq(Nat) /\ Len(fwd') <= PATH_CAPACITY
      /\ Len(fwd) <= Len(fwd') /\ Len(fwd') <= Len(fwd) + Len(out)
      /\ nPackets' = n + (Len(fwd') - Len(fwd))
      /\ \A i \in 1 .. Len(fwd) : fwd'[i] = fwd[i]
      /\ \A i \in 1 .. Len(fwd') :
           i > Len(fwd) => \E j \in 1 .. Len(out) : fwd'[i] = out[j]
  <2>1. fwd \in Seq(Nat) /\ Len(fwd) <= PATH_CAPACITY /\ out \in Seq(Nat)
    BY <1>3
  <2> QED
    BY <1>2, <2>1, SendFacts
<1>5. SegmentsOn(fwd)'
  <2> SUFFICES ASSUME NEW i \in 1 .. Len(fwd')
               PROVE  IsSegment(fwd'[i]) /\ fwd'[i] <= FLOWSIZE
    BY DEF SegmentsOn, IsSegment
  <2>1. CASE i > Len(fwd)
    BY <1>1, <1>3, <1>4, <2>1
  <2>2. CASE ~ (i > Len(fwd))
    <3>1. i \in 1 .. Len(fwd) /\ fwd'[i] = fwd[i]
      BY <1>4, <2>2, SMTT(60)
    <3> QED
      BY <3>1 DEF SegmentsOn
  <2> QED
    BY <2>1, <2>2
<1> QED
  BY <1>3, <1>4, <1>5

LEMMA AckDupNoRecoveryInv ==
  ASSUME IInv, UNCHANGED mode, NEW i, NEW e \in EcnOutcomes, AckDupNoRecovery(i, e)
  PROVE  IInv'
<1> USE ConstantTypes
<1>1. /\ TakeAck(i) /\ e.st # "FAST_RECOV" /\ dupacks' = DUPACK_LIMIT
      /\ state' = e.st /\ ssthresh' = e.sst /\ cwnd' = e.cw /\ nPackets' = nPackets - 1
      /\ UNCHANGED <<recover_seq, highest_sent, last_acked, rto, fwd>>
  BY DEF AckDupNoRecovery
<1>2. /\ i \in Arrivals(rev) /\ rev' = RemoveAt(rev, i) /\ UNCHANGED sinkVars
  BY <1>1 DEF TakeAck
<1>3. /\ rev' \in Seq(Nat) /\ Len(rev') = Len(rev) - 1 /\ Len(rev') <= PATH_CAPACITY
      /\ AcksOn(rev)'
      /\ ~mode'.reorder => /\ \A j \in 1 .. Len(rev') : Active => rev'[j] >= last_acked
                           /\ \A j, k \in 1 .. Len(rev') : j < k => rev'[j] <= rev'[k]
  BY <1>2, AckTaken
<1>4. /\ e.st \in {"SLOW_START", "CONG_AVOID", "FAST_RECOV"} /\ nPackets \in Nat /\ nPackets >= 1
      /\ e.sst \in MSS_BYTES .. (WORD - 1) /\ e.cw \in 0 .. (WORD - 1)
      /\ \/ e.cw >= MSS_BYTES
         \/ e.st = "CONG_AVOID" /\ e.cw = 0 /\ highest_sent = last_acked
      /\ e.cw <= last_acked + WindowBound
      /\ rto = TRUE /\ Active
  BY <1>1, AckFacts
<1>5. TypeOK'
  BY <1>1, <1>2, <1>3, <1>4, SMTT(60) DEF IInv, TypeOK, sinkVars
<1>6. PacketsCounted'
  <2>1. Len(fwd) \in Nat /\ Len(rev) \in Nat
    BY DEF IInv, TypeOK
  <2> QED
    BY <1>1, <1>3, <2>1 DEF IInv, PacketsCounted
<1>7. SegmentsOn(fwd)' /\ SinkList'
  BY <1>1, <1>2, SinkUnchanged DEF IInv, SegmentsOn
<1>8. SourceOK' /\ PhaseOK'
  BY <1>1, <1>2, <1>4 DEF IInv, SourceOK, PhaseOK, sinkVars
<1>9. WindowOK'
  BY <1>1, <1>4 DEF WindowOK
<1>10. TimerRunning' /\ AcksInOrder'
  BY <1>1, <1>3, <1>4 DEF TimerRunning, AcksInOrder
<1> QED
  BY <1>3, <1>5, <1>6, <1>7, <1>8, <1>9, <1>10 DEF IInv

LEMMA AckDupRecoveryInv ==
  ASSUME IInv, UNCHANGED mode, NEW i, NEW e \in EcnOutcomes, AckDupRecovery(i, e)
  PROVE  IInv'
<1> DEFINE sst == Max2(e.cw \div 2, 2 * MSS_BYTES)
<1> USE ConstantTypes
<1>1. /\ TakeAck(i) /\ e.st # "FAST_RECOV" /\ dupacks' = DUPACK_LIMIT
      /\ ssthresh' = sst /\ cwnd' = sst + DUPACK_LIMIT * MSS_BYTES /\ state' = "FAST_RECOV"
      /\ recover_seq' = highest_sent /\ rto' = TRUE
      /\ Send(fwd, <<last_acked + 1>>, fwd', nPackets - 1, nPackets')
      /\ UNCHANGED <<highest_sent, last_acked>>
  BY DEF AckDupRecovery
<1>2. /\ i \in Arrivals(rev) /\ rev' = RemoveAt(rev, i) /\ UNCHANGED sinkVars
  BY <1>1 DEF TakeAck
<1>3. /\ rev' \in Seq(Nat) /\ Len(rev') = Len(rev) - 1 /\ Len(rev') <= PATH_CAPACITY
      /\ AcksOn(rev)'
      /\ ~mode'.reorder => /\ \A j \in 1 .. Len(rev') : Active => rev'[j] >= last_acked
                           /\ \A j, k \in 1 .. Len(rev') : j < k => rev'[j] <= rev'[k]
  BY <1>2, AckTaken
<1>4. /\ last_acked \in Nat /\ highest_sent \in Nat /\ nPackets \in Nat /\ nPackets >= 1
      /\ highest_sent < FLOWSIZE + MSS_BYTES /\ last_acked < FLOWSIZE
      /\ e.cw \in 0 .. (WORD - 1) /\ e.cw <= last_acked + WindowBound /\ Active
  BY <1>1, AckFacts
<1>5. /\ fwd \in Seq(Nat) /\ Len(fwd) <= PATH_CAPACITY /\ SegmentsOn(fwd)
      /\ Divides(MSS_BYTES, last_acked) /\ nPackets = Len(fwd) + Len(rev)
      /\ Len(fwd) \in Nat /\ Len(rev) \in Nat /\ Len(rev) <= PATH_CAPACITY
  BY DEF IInv, TypeOK, SourceOK, PacketsCounted
<1>6. /\ fwd' \in Seq(Nat) /\ Len(fwd') <= PATH_CAPACITY /\ SegmentsOn(fwd)'
      /\ Len(fwd) <= Len(fwd') /\ Len(fwd') <= Len(fwd) + 1
      /\ nPackets' = nPackets - 1 + (Len(fwd') - Len(fwd))
  <2>1. nPackets - 1 \in Int
    BY <1>4
  <2>2. Send(fwd, <<last_acked + 1>>, fwd', nPackets - 1, nPackets')
    BY <1>1
  <2> QED
    BY <1>4, <1>5, <2>1, <2>2, RetransmitFacts
<1>7. Len(fwd') \in Nat /\ Len(rev') \in Nat
  BY <1>3, <1>6
<1>8. nPackets' = Len(fwd') + Len(rev') /\ nPackets' \in Nat /\ nPackets' <= 2 * PATH_CAPACITY
  BY ONLY <1>3, <1>4, <1>5, <1>6, <1>7, ConstantTypes, SMTT(60)
<1>9. /\ sst \in Nat /\ sst >= 2 * MSS_BYTES
      /\ 2 * sst <= last_acked + WindowBound \/ sst = 2 * MSS_BYTES
  <2> DEFINE h == e.cw \div 2
  <2>1. h \in Nat /\ 2 * h <= e.cw
    BY <1>4
  <2>2. WindowBound \in Nat
    BY BoundRange
  <2> HIDE DEF h
  <2>3. 2 * h <= last_acked + WindowBound
    BY <1>4, <2>1, <2>2
  <2> QED
    BY <2>1, <2>3, <1>4 DEF Max2, h
<1> HIDE DEF sst
<1>10. /\ sst <= WindowBound
       /\ cwnd' + InBytes(nPackets') + (FLOWSIZE + MSS_BYTES - highest_sent) <= WindowBound
       /\ cwnd' \in MSS_BYTES .. (WORD - 1) /\ sst \in MSS_BYTES .. (WORD - 1)
  <2> DEFINE P == PATH_CAPACITY * MSS_BYTES
             D == DUPACK_LIMIT * MSS_BYTES
  <2>1. /\ P \in Nat /\ P >= MSS_BYTES /\ D \in Nat /\ D >= MSS_BYTES
        /\ WindowBound = 3 * FLOWSIZE + 4 * P + 2 * D + 2 * MSS_BYTES
        /\ WORD > 4 * FLOWSIZE + 4 * P + 4 * D + 8 * MSS_BYTES
    BY BoundFacts
  <2>2. cwnd' = sst + D
    BY <1>1
  <2>3. InBytes(nPackets') \in Nat /\ InBytes(nPackets') <= 2 * P
    <3>1. InBytes(2 * PATH_CAPACITY) = 2 * P
      BY DEF InBytes
    <3>2. 2 * PATH_CAPACITY \in Nat
      OBVIOUS
    <3> HIDE DEF P
    <3> QED
      BY <1>8, <3>1, <3>2, Bytes
  <2> HIDE DEF P, D
  <2> QED
    BY ONLY <1>4, <1>9, <2>1, <2>2, <2>3, ConstantTypes
<1>11. TypeOK'
  BY <1>1, <1>2, <1>3, <1>6, <1>8, <1>10 DEF IInv, TypeOK, sinkVars
<1>12. PacketsCounted'
  BY <1>8 DEF IInv, PacketsCounted
<1>13. SinkList'
  BY <1>2, SinkUnchanged DEF IInv
<1>14. SourceOK' /\ PhaseOK'
  BY <1>1, <1>2 DEF IInv, SourceOK, PhaseOK, sinkVars
<1>15. WindowOK'
  BY <1>1, <1>10 DEF WindowOK
<1>16. TimerRunning' /\ AcksInOrder'
  BY <1>1, <1>3, <1>4 DEF TimerRunning, AcksInOrder
<1> QED
  BY <1>3, <1>6, <1>11, <1>12, <1>13, <1>14, <1>15, <1>16 DEF IInv

LEMMA StartFlowInv ==
  ASSUME IInv, UNCHANGED mode, StartFlow
  PROVE  IInv'
<1> DEFINE window == 2 * MSS_BYTES
<1> USE ConstantTypes
<1>1. /\ state = "IDLE" /\ state' = "SLOW_START" /\ cwnd' = window
      /\ SendPackets(FALSE, last_acked, window, rto, nPackets)
      /\ UNCHANGED <<ssthresh, recover_seq, dupacks, last_acked, sinkVars, rev>>
  BY DEF StartFlow
<1>2. /\ fwd \in Seq(Nat) /\ Len(fwd) <= PATH_CAPACITY /\ SegmentsOn(fwd)
      /\ highest_sent = 0 /\ last_acked = 0 /\ nPackets = 0 /\ rto \in BOOLEAN
      /\ Divides(MSS_BYTES, last_acked) /\ Divides(MSS_BYTES, highest_sent)
      /\ nPackets = Len(fwd) + Len(rev) /\ Len(fwd) \in Nat /\ Len(rev) \in Nat
  BY <1>1 DEF IInv, TypeOK, SourceOK, PhaseOK, PacketsCounted
<1>3. Len(rev) = 0
  BY ONLY <1>2
<1>4. window \in 1 .. (WORD - 1) /\ window <= WindowBound /\ WindowBound \in Nat
  BY BoundRange
<1>5. window >= MSS_BYTES
  OBVIOUS
<1> HIDE DEF window
<1>6. Sent(FALSE, last_acked, window, rto, nPackets)
  <2>1. /\ highest_sent \in Nat /\ highest_sent < FLOWSIZE + MSS_BYTES
        /\ last_acked \in Nat /\ last_acked < FLOWSIZE /\ window \in Nat /\ nPackets \in Int
    BY <1>2, <1>4
  <2>2. SendPackets(FALSE, last_acked, window, rto, nPackets)
    BY <1>1
  <2>3. FALSE \in BOOLEAN /\ rto \in BOOLEAN
    BY <1>2
  <2> QED
    BY ONLY <1>2, <2>1, <2>2, <2>3, SendPacketsFacts
<1>7. /\ fwd' \in Seq(Nat) /\ Len(fwd') <= PATH_CAPACITY /\ SegmentsOn(fwd)'
      /\ nPackets' = nPackets + (Len(fwd') - Len(fwd))
      /\ highest_sent' \in Nat /\ highest_sent' < FLOWSIZE + MSS_BYTES
      /\ Divides(MSS_BYTES, highest_sent')
  BY <1>6 DEF Sent
<1>8. rto' = TRUE
  <2>1. highest_sent < FLOWSIZE /\ last_acked + window >= highest_sent + MSS_BYTES
    BY <1>2, <1>4, <1>5
  <2> QED
    BY <1>6, <2>1 DEF Sent
<1>9. nPackets' = Len(fwd') + Len(rev') /\ nPackets' \in Nat
  <2>1. Len(fwd') \in Nat /\ rev' = rev
    BY <1>1, <1>7
  <2> QED
    BY <1>2, <1>7, <2>1
<1>10. TypeOK'
  BY <1>1, <1>4, <1>7, <1>8, <1>9 DEF IInv, TypeOK, sinkVars
<1>11. PacketsCounted'
  BY <1>9 DEF IInv, PacketsCounted
<1>12. AcksOn(rev)'
  BY <1>1, <1>3 DEF AcksOn
<1>13. SinkList'
  BY <1>1, SinkUnchanged DEF IInv
<1>14. SourceOK' /\ PhaseOK'
  BY <1>1, <1>7 DEF IInv, SourceOK, PhaseOK, sinkVars
<1>15. WindowOK'
  <2>1. window <= last_acked + WindowBound
    BY <1>2, <1>4
  <2> QED
    BY <1>1, <1>5, <2>1 DEF IInv, WindowOK
<1>16. TimerRunning' /\ AcksInOrder'
  BY <1>1, <1>3, <1>8 DEF TimerRunning, AcksInOrder
<1> QED
  BY <1>7, <1>10, <1>11, <1>12, <1>13, <1>14, <1>15, <1>16 DEF IInv

LEMMA TimeoutInv ==
  ASSUME IInv, UNCHANGED mode, Timeout
  PROVE  IInv'
<1> DEFINE window == IF state = "FAST_RECOV" THEN FlightWindow(ssthresh, last_acked) ELSE cwnd
           sst == Max2(window \div 2, 2 * MSS_BYTES)
           h == last_acked + MSS_BYTES
<1> USE ConstantTypes
<1>1. /\ Active /\ rto /\ ssthresh' = sst /\ cwnd' = MSS_BYTES /\ state' = "SLOW_START"
      /\ recover_seq' = highest_sent /\ highest_sent' = h /\ dupacks' = 0
      /\ Send(fwd, <<last_acked + 1>>, fwd', nPackets, nPackets')
      /\ UNCHANGED <<last_acked, rto, sinkVars, rev>>
  BY DEF Timeout
<1>2. /\ fwd \in Seq(Nat) /\ Len(fwd) <= PATH_CAPACITY /\ SegmentsOn(fwd)
      /\ highest_sent \in Nat /\ last_acked \in Nat /\ nPackets \in Nat
      /\ highest_sent < FLOWSIZE + MSS_BYTES /\ last_acked < FLOWSIZE
      /\ Divides(MSS_BYTES, last_acked) /\ Divides(MSS_BYTES, highest_sent)
      /\ nPackets = Len(fwd) + Len(rev) /\ Len(fwd) \in Nat /\ Len(rev) \in Nat
      /\ cwnd \in 0 .. (WORD - 1) /\ rto \in BOOLEAN
  BY DEF IInv, TypeOK, SourceOK, PacketsCounted
<1>3. ssthresh \in MSS_BYTES .. (WORD - 1)
  BY DEF IInv, TypeOK, WindowOK
<1>4. 2 * MSS_BYTES \in 1 .. (WORD - 1) /\ MSS_BYTES \in 1 .. (WORD - 1) /\ MSS_BYTES <= WindowBound
      /\ WindowBound \in Nat
  BY BoundRange
<1>5. window \in 0 .. (WORD - 1)
  <2>1. FlightWindow(ssthresh, last_acked) \in 0 .. (WORD - 1)
    BY <1>2, <1>3, FlightFacts
  <2> QED
    BY <1>2, <2>1
<1> HIDE DEF window
<1>6. sst \in MSS_BYTES .. (WORD - 1)
  <2>1. window \div 2 \in 0 .. (WORD - 1)
    BY <1>5
  <2> QED
    BY <1>4, <2>1 DEF Max2
<1> HIDE DEF sst
<1>7. h \in Nat /\ h < FLOWSIZE + MSS_BYTES /\ Divides(MSS_BYTES, h)
  <2>1. Divides(MSS_BYTES, MSS_BYTES) /\ MSS_BYTES \in Int
    BY DividesBase
  <2> QED
    BY <1>2, <2>1, DividesSum
<1> HIDE DEF h
<1>8. /\ fwd' \in Seq(Nat) /\ Len(fwd') <= PATH_CAPACITY /\ SegmentsOn(fwd)'
      /\ nPackets' = nPackets + (Len(fwd') - Len(fwd))
  <2>1. nPackets \in Int /\ Send(fwd, <<last_acked + 1>>, fwd', nPackets, nPackets')
    BY <1>1, <1>2
  <2> QED
    BY <1>2, <2>1, RetransmitFacts
<1>9. nPackets' = Len(fwd') + Len(rev') /\ nPackets' \in Nat
  <2>1. Len(fwd') \in Nat /\ rev' = rev
    BY <1>1, <1>8
  <2> QED
    BY <1>2, <1>8, <2>1
<1>10. TypeOK'
  BY <1>1, <1>2, <1>4, <1>6, <1>7, <1>8, <1>9 DEF IInv, TypeOK, sinkVars
<1>11. PacketsCounted'
  BY <1>9 DEF IInv, PacketsCounted
<1>12. AcksOn(rev)'
  BY <1>1 DEF IInv, AcksOn, sinkVars
<1>13. SinkList'
  BY <1>1, SinkUnchanged DEF IInv
<1>14. SourceOK' /\ PhaseOK'
  BY <1>1, <1>7 DEF IInv, SourceOK, PhaseOK, sinkVars
<1>15. WindowOK'
  <2>1. MSS_BYTES <= last_acked + WindowBound
    BY <1>2, <1>4
  <2> QED
    BY <1>1, <1>6, <2>1 DEF WindowOK
<1>16. TimerRunning' /\ AcksInOrder'
  BY <1>1 DEF IInv, TimerRunning, AcksInOrder
<1> QED
  BY <1>8, <1>10, <1>11, <1>12, <1>13, <1>14, <1>15, <1>16 DEF IInv

LEMMA CleanUpInv ==
  ASSUME IInv, UNCHANGED mode, CleanUp
  PROVE  IInv'
<1>1. /\ state = "FINISH" /\ nPackets = 0 /\ state' = "DELETED"
      /\ UNCHANGED <<cwnd, ssthresh, recover_seq, dupacks, highest_sent,
                     last_acked, rto, sinkVars, netVars>>
  BY DEF CleanUp
<1>2. TypeOK' /\ PacketsCounted' /\ SegmentsOn(fwd)' /\ AcksOn(rev)'
  BY <1>1 DEF IInv, TypeOK, PacketsCounted, SegmentsOn, AcksOn, sinkVars, netVars
<1>3. SinkList'
  BY <1>1, SinkUnchanged DEF IInv
<1>4. SourceOK' /\ PhaseOK' /\ WindowOK' /\ TimerRunning'
  BY <1>1 DEF IInv, SourceOK, PhaseOK, WindowOK, TimerRunning, Active, sinkVars, netVars
<1>5. AcksInOrder'
  BY <1>1 DEF IInv, AcksInOrder, Active, netVars
<1> QED
  BY <1>2, <1>3, <1>4, <1>5 DEF IInv

(* A source that is not disturbed keeps its window within bounds when      *)
(* packets leave the path.                                                 *)
LEMMA WindowKept ==
  ASSUME IInv, UNCHANGED <<cwnd, ssthresh, highest_sent, last_acked>>,
         state' = state, nPackets' \in Nat, nPackets' <= nPackets
  PROVE  WindowOK'
<1>1. /\ cwnd \in Nat /\ highest_sent \in Nat /\ nPackets \in Nat /\ WindowOK
      /\ highest_sent < FLOWSIZE + MSS_BYTES
  BY DEF IInv, TypeOK, SourceOK
<1>2. InBytes(nPackets') \in Nat /\ InBytes(nPackets) \in Nat /\ InBytes(nPackets') <= InBytes(nPackets)
  BY <1>1, Bytes
<1>3. WindowBound \in Nat
  BY BoundRange
<1>4. state = "FAST_RECOV" =>
        cwnd + InBytes(nPackets') + (FLOWSIZE + MSS_BYTES - highest_sent) <= WindowBound
  <2> SUFFICES ASSUME state = "FAST_RECOV"
               PROVE  cwnd + InBytes(nPackets') + (FLOWSIZE + MSS_BYTES - highest_sent)
                        <= WindowBound
    OBVIOUS
  <2>1. cwnd + InBytes(nPackets) + (FLOWSIZE + MSS_BYTES - highest_sent) <= WindowBound
    BY <1>1 DEF WindowOK
  <2> QED
    BY ONLY <1>1, <1>2, <1>3, <2>1, ConstantTypes
<1> QED
  BY <1>1, <1>4 DEF WindowOK, Active

LEMMA AckPastInv ==
  ASSUME IInv, UNCHANGED mode, NEW i, AckPast(i)
  PROVE  IInv'
<1>1. /\ i \in Arrivals(rev) /\ Active /\ rev' = RemoveAt(rev, i) /\ nPackets' = nPackets - 1
      /\ UNCHANGED <<srcVars, sinkVars, fwd>>
  BY DEF AckPast
<1>2. /\ i \in 1 .. Len(rev) /\ rev' \in Seq(Nat) /\ Len(rev') = Len(rev) - 1
      /\ Len(rev') <= PATH_CAPACITY /\ AcksOn(rev)'
      /\ ~mode'.reorder => /\ \A j \in 1 .. Len(rev') : Active => rev'[j] >= last_acked
                           /\ \A j, k \in 1 .. Len(rev') : j < k => rev'[j] <= rev'[k]
  BY <1>1, AckTaken
<1>3. nPackets' = Len(fwd') + Len(rev') /\ nPackets' \in Nat /\ nPackets' <= nPackets
  <2>1. /\ nPackets = Len(fwd) + Len(rev) /\ Len(fwd) \in Nat /\ Len(rev) \in Nat
        /\ nPackets \in Nat /\ fwd' = fwd
    BY <1>1 DEF IInv, PacketsCounted, TypeOK
  <2> QED
    BY <1>1, <1>2, <2>1
<1>4. TypeOK' /\ PacketsCounted'
  BY <1>1, <1>2, <1>3 DEF IInv, TypeOK, PacketsCounted, srcVars, sinkVars
<1>5. SegmentsOn(fwd)' /\ SinkList'
  BY <1>1, SinkUnchanged DEF IInv, SegmentsOn
<1>6. SourceOK' /\ PhaseOK'
  BY <1>1 DEF IInv, SourceOK, PhaseOK, Active, srcVars, sinkVars
<1>7. WindowOK'
  BY <1>1, <1>3, WindowKept DEF srcVars
<1>8. TimerRunning' /\ AcksInOrder'
  BY <1>1, <1>2 DEF IInv, TimerRunning, AcksInOrder, Active, srcVars
<1> QED
  BY <1>2, <1>4, <1>5, <1>6, <1>7, <1>8 DEF IInv

LEMMA AckFinishInv ==
  ASSUME IInv, UNCHANGED mode, NEW i, AckFinish(i)
  PROVE  IInv'
<1> USE ConstantTypes
<1>1. /\ i \in Arrivals(rev)
      /\ state = "FINISH" \/ (Active /\ rev[i] >= FLOWSIZE)
      /\ state' = "FINISH" /\ rev' = RemoveAt(rev, i) /\ nPackets' = nPackets - 1
      /\ UNCHANGED <<cwnd, ssthresh, recover_seq, dupacks, highest_sent,
                     last_acked, rto, sinkVars, fwd>>
  BY DEF AckFinish
<1>2. /\ i \in 1 .. Len(rev) /\ rev[i] \in Nat /\ rev[i] <= cumulative_ack
      /\ rev' \in Seq(Nat) /\ Len(rev') = Len(rev) - 1
      /\ Len(rev') <= PATH_CAPACITY /\ AcksOn(rev)'
      /\ ~mode'.reorder => \A j, k \in 1 .. Len(rev') : j < k => rev'[j] <= rev'[k]
  BY <1>1, AckTaken
<1>3. nPackets' = Len(fwd') + Len(rev') /\ nPackets' \in Nat /\ nPackets' <= nPackets
  <2>1. /\ nPackets = Len(fwd) + Len(rev) /\ Len(fwd) \in Nat /\ Len(rev) \in Nat
        /\ nPackets \in Nat /\ fwd' = fwd
    BY <1>1 DEF IInv, PacketsCounted, TypeOK
  <2> QED
    BY <1>1, <1>2, <2>1
<1>4. TypeOK' /\ PacketsCounted'
  BY <1>1, <1>2, <1>3 DEF IInv, TypeOK, PacketsCounted, sinkVars
<1>5. SegmentsOn(fwd)' /\ SinkList'
  BY <1>1, SinkUnchanged DEF IInv, SegmentsOn
<1>6. SourceOK'
  BY <1>1 DEF IInv, SourceOK, sinkVars
<1>7. PhaseOK'
  <2>1. cumulative_ack \in Nat /\ cumulative_ack' = cumulative_ack
    BY <1>1 DEF IInv, TypeOK, sinkVars
  <2>2. cumulative_ack >= FLOWSIZE
    BY <1>1, <1>2, <2>1 DEF IInv, PhaseOK
  <2> QED
    BY <1>1, <2>1, <2>2 DEF PhaseOK
<1>8. WindowOK'
  <2>1. cwnd <= last_acked + WindowBound
    <3>1. CASE state # "FAST_RECOV"
      BY <3>1 DEF IInv, WindowOK
    <3>2. CASE state = "FAST_RECOV"
      <4>1. cwnd + InBytes(nPackets) + (FLOWSIZE + MSS_BYTES - highest_sent) <= WindowBound
        BY <3>2 DEF IInv, WindowOK
      <4>2. /\ cwnd \in Nat /\ highest_sent \in Nat /\ nPackets \in Nat /\ last_acked \in Nat
            /\ highest_sent < FLOWSIZE + MSS_BYTES
        BY DEF IInv, TypeOK, SourceOK
      <4>3. InBytes(nPackets) \in Nat /\ WindowBound \in Nat
        BY <4>2, Bytes, BoundRange
      <4> QED
        BY ONLY <4>1, <4>2, <4>3, ConstantTypes
    <3> QED
      BY <3>1, <3>2
  <2> QED
    BY <1>1, <2>1 DEF IInv, WindowOK, Active
<1>9. TimerRunning' /\ AcksInOrder'
  BY <1>1, <1>2 DEF TimerRunning, AcksInOrder, Active
<1> QED
  BY <1>2, <1>4, <1>5, <1>6, <1>7, <1>8, <1>9 DEF IInv

(* The sink takes a segment of the flow, keeps its list in order and       *)
(* answers with an ack that is not older than any before.                  *)
LEMMA SinkReceiveInv ==
  ASSUME IInv, UNCHANGED mode, NEW i, SinkReceive(i)
  PROVE  IInv'
<1> DEFINE s == fwd[i]
           c == cumulative_ack'
           out == <<c>>
<1> USE ConstantTypes
<1>1. /\ i \in Arrivals(fwd) /\ processDataPacket(s) /\ fwd' = RemoveAt(fwd, i)
      /\ Send(rev, out, rev', nPackets - 1, nPackets') /\ UNCHANGED srcVars
  BY DEF SinkReceive
<1>2. /\ fwd \in Seq(Nat) /\ Len(fwd) \in Nat /\ Len(fwd) <= PATH_CAPACITY /\ SegmentsOn(fwd)
      /\ rev \in Seq(Nat) /\ Len(rev) \in Nat /\ Len(rev) <= PATH_CAPACITY /\ AcksOn(rev)
      /\ nPackets \in Nat /\ nPackets = Len(fwd) + Len(rev) /\ mode \in Modes
      /\ SinkType /\ SinkList /\ cumulative_ack \in Nat
      /\ last_acked \in Nat /\ last_acked <= cumulative_ack
  BY DEF IInv, TypeOK, SinkType, PacketsCounted, SourceOK
<1>3. i \in 1 .. Len(fwd)
  BY <1>1, <1>2 DEF Arrivals, Min2
<1>4. s \in Nat /\ IsSegment(s)
  BY <1>2, <1>3 DEF SegmentsOn
<1>5. SinkType' /\ SinkList' /\ cumulative_ack' >= cumulative_ack
  BY <1>1, <1>2, <1>4, SinkStep
<1>6. c \in Nat /\ received' \in Seq(Nat) /\ Divides(MSS_BYTES, c) /\ c >= cumulative_ack
  BY <1>5 DEF SinkType, SinkList, Divides
<1> HIDE DEF s
<1>7. /\ fwd' \in Seq(Nat) /\ Len(fwd') = Len(fwd) - 1 /\ Len(fwd') <= PATH_CAPACITY
      /\ SegmentsOn(fwd)'
  <2>1. /\ RemoveAt(fwd, i) \in Seq(Nat) /\ Len(RemoveAt(fwd, i)) = Len(fwd) - 1
        /\ \A j \in 1 .. (Len(fwd) - 1) :
             RemoveAt(fwd, i)[j] = fwd[IF j < i THEN j ELSE j + 1]
    BY <1>2, <1>3, RemoveAtFacts
  <2>2. /\ fwd' \in Seq(Nat) /\ Len(fwd') = Len(fwd) - 1
        /\ \A j \in 1 .. Len(fwd') : fwd'[j] = fwd[IF j < i THEN j ELSE j + 1]
    BY <1>1, <2>1
  <2>3. \A j \in 1 .. Len(fwd') : (IF j < i THEN j ELSE j + 1) \in 1 .. Len(fwd)
    BY <1>2, <1>3, <2>2
  <2>4. SegmentsOn(fwd)'
    BY <1>2, <2>2, <2>3 DEF SegmentsOn, IsSegment
  <2>5. Len(fwd') <= PATH_CAPACITY
    BY <1>2, <2>2
  <2> QED
    BY <2>2, <2>4, <2>5
<1> HIDE DEF c
<1>8. out \in Seq(Nat) /\ Len(out) = 1 /\ \A j \in 1 .. Len(out) : out[j] = c
  BY <1>6
<1> HIDE DEF out
<1>9. /\ rev' \in Seq(Nat) /\ Len(rev') <= PATH_CAPACITY
      /\ Len(rev) <= Len(rev') /\ Len(rev') <= Len(rev) + 1
      /\ nPackets' = nPackets - 1 + (Len(rev') - Len(rev))
      /\ \A j \in 1 .. Len(rev) : rev'[j] = rev[j]
      /\ \A j \in 1 .. Len(rev') : j > Len(rev) => rev'[j] = c
  <2>1. rev \in Seq(Nat) /\ Len(rev) <= PATH_CAPACITY /\ out \in Seq(Nat) /\ nPackets - 1 \in Int
    BY <1>2, <1>8
  <2>2. Send(rev, out, rev', nPackets - 1, nPackets')
    BY <1>1
  <2>3. /\ rev' \in Seq(Nat) /\ Len(rev') <= PATH_CAPACITY
        /\ Len(rev) <= Len(rev') /\ Len(rev') <= Len(rev) + Len(out)
        /\ nPackets' = nPackets - 1 + (Len(rev') - Len(rev))
        /\ \A j \in 1 .. Len(rev) : rev'[j] = rev[j]
        /\ \A j \in 1 .. Len(rev') :
             j > Len(rev) => \E k \in 1 .. Len(out) : rev'[j] = out[k]
    BY <2>1, <2>2, SendFacts
  <2> QED
    BY <1>8, <2>3
<1>10. /\ nPackets' = Len(fwd') + Len(rev') /\ nPackets' \in Nat /\ nPackets' <= nPackets
       /\ nPackets > 0
  <2>1. Len(fwd') \in Nat /\ Len(rev') \in Nat
    BY <1>7, <1>9
  <2> QED
    BY ONLY <1>2, <1>3, <1>7, <1>9, <2>1, SMTT(60)
<1>11. TypeOK' /\ PacketsCounted'
  BY <1>1, <1>2, <1>6, <1>7, <1>9, <1>10 DEF IInv, TypeOK, PacketsCounted, srcVars, c
<1>12. \A j \in 1 .. Len(rev') :
         /\ j > Len(rev) => rev'[j] = c
         /\ ~ (j > Len(rev)) => j \in 1 .. Len(rev) /\ rev'[j] = rev[j]
  <2> SUFFICES ASSUME NEW j \in 1 .. Len(rev')
               PROVE  /\ j > Len(rev) => rev'[j] = c
                      /\ ~ (j > Len(rev)) => j \in 1 .. Len(rev) /\ rev'[j] = rev[j]
    OBVIOUS
  <2>1. j > Len(rev) => rev'[j] = c
    BY <1>9
  <2>2. ~ (j > Len(rev)) => j \in 1 .. Len(rev)
    BY <1>2
  <2>3. j \in 1 .. Len(rev) => rev'[j] = rev[j]
    BY <1>9
  <2> QED
    BY <2>1, <2>2, <2>3
<1>13. AcksOn(rev)'
  <2> SUFFICES ASSUME NEW j \in 1 .. Len(rev')
               PROVE  Divides(MSS_BYTES, rev'[j]) /\ rev'[j] <= c
    BY DEF AcksOn, c
  <2>1. CASE j > Len(rev)
    BY <1>6, <1>12, <2>1
  <2>2. CASE ~ (j > Len(rev))
    <3>1. rev'[j] = rev[j] /\ Divides(MSS_BYTES, rev[j]) /\ rev[j] <= cumulative_ack /\ rev[j] \in Nat
      BY <1>2, <1>12, <2>2, SMTT(60) DEF AcksOn
    <3> QED
      BY <1>2, <1>6, <3>1
  <2> QED
    BY <2>1, <2>2
<1>14. SourceOK'
  <2>1. last_acked <= c
    BY <1>2, <1>6
  <2> QED
    BY <1>1, <2>1 DEF IInv, SourceOK, srcVars, c
<1>15. PhaseOK'
  <2>1. cumulative_ack >= FLOWSIZE => c >= FLOWSIZE
    BY <1>2, <1>6
  <2> QED
    BY <1>1, <1>10, <2>1 DEF IInv, PhaseOK, srcVars, c
<1>16. WindowOK'
  BY <1>1, <1>10, WindowKept DEF srcVars
<1>17. TimerRunning'
  BY <1>1 DEF IInv, TimerRunning, Active, srcVars
<1>18. AcksInOrder'
  <2> SUFFICES ASSUME ~mode.reorder
               PROVE  /\ \A j \in 1 .. Len(rev') : Active => rev'[j] >= last_acked
                      /\ \A j, k \in 1 .. Len(rev') : j < k => rev'[j] <= rev'[k]
    BY <1>1 DEF AcksInOrder, Active, srcVars
  <2>1. /\ \A j \in 1 .. Len(rev) : Active => rev[j] >= last_acked
        /\ \A j, k \in 1 .. Len(rev) : j < k => rev[j] <= rev[k]
    BY DEF IInv, AcksInOrder
  <2>2. \A j \in 1 .. Len(rev') : Active => rev'[j] >= last_acked
    <3> SUFFICES ASSUME NEW j \in 1 .. Len(rev'), Active
                 PROVE  rev'[j] >= last_acked
      OBVIOUS
    <3>1. CASE j > Len(rev)
      BY <1>2, <1>6, <1>12, <3>1
    <3>2. CASE ~ (j > Len(rev))
      BY <1>12, <2>1, <3>2
    <3> QED
      BY <3>1, <3>2
  <2>3. ASSUME NEW j \in 1 .. Len(rev'), NEW k \in 1 .. Len(rev'), j < k
        PROVE  rev'[j] <= rev'[k]
    <3>1. rev'[j] <= c /\ rev'[j] \in Nat
      BY <1>9, <1>13, SMTT(60) DEF AcksOn, c
    <3>2. CASE k > Len(rev)
      BY <1>12, <3>1, <3>2
    <3>3. CASE ~ (k > Len(rev))
      <4>1. ~ (j > Len(rev))
        BY <1>2, <2>3, <3>3
      <4> QED
        BY <1>12, <2>1, <2>3, <3>3, <4>1
    <3> QED
      BY <3>2, <3>3
  <2> QED
    BY <2>2, <2>3
<1> QED
  BY <1>5, <1>7, <1>11, <1>13, <1>14, <1>15, <1>16, <1>17, <1>18 DEF IInv

-----------------------------------------------------------------------------
LEMMA InitIInv == Init => IInv
<1> SUFFICES ASSUME Init PROVE IInv
  OBVIOUS
<1> USE ConstantTypes
<1>1. /\ mode \in Modes /\ state = "IDLE" /\ cwnd = 0 /\ ssthresh = WORD - 1
      /\ recover_seq = 0 /\ dupacks = 0 /\ highest_sent = 0 /\ last_acked = 0 /\ rto = FALSE
      /\ cumulative_ack = 0 /\ received = <<>> /\ fwd = <<>> /\ rev = <<>> /\ nPackets = 0
  BY DEF Init, SinkInit
<1>2. WindowBound \in Nat /\ MSS_BYTES \in 1 .. (WORD - 1)
  BY BoundRange
<1>3. /\ <<>> \in Seq(Nat) /\ Len(<<>>) = 0
      /\ Len(received) = 0 /\ Len(fwd) = 0 /\ Len(rev) = 0
  BY <1>1
<1>4. TypeOK
  <2>1. cwnd \in 0 .. (WORD - 1) /\ ssthresh \in 0 .. (WORD - 1)
    BY <1>1, <1>2
  <2>2. /\ received \in Seq(Nat) /\ fwd \in Seq(Nat) /\ rev \in Seq(Nat)
        /\ Len(fwd) <= PATH_CAPACITY /\ Len(rev) <= PATH_CAPACITY
    BY <1>1, <1>3
  <2>3. 0 \in Nat
    OBVIOUS
  <2> QED
    BY <1>1, <2>1, <2>2, <2>3 DEF TypeOK
<1>5. PacketsCounted /\ SegmentsOn(fwd) /\ AcksOn(rev) /\ AcksInOrder
  BY <1>1, <1>3 DEF PacketsCounted, SegmentsOn, AcksOn, AcksInOrder
<1>6. Divides(MSS_BYTES, 0)
  BY DividesBase
<1>7. SinkList
  BY <1>1, <1>3, <1>6 DEF SinkList, Divides
<1>8. SourceOK /\ PhaseOK /\ TimerRunning
  BY <1>1, <1>6 DEF SourceOK, PhaseOK, TimerRunning, Active
<1>9. WindowOK
  <2>1. ssthresh >= MSS_BYTES /\ cwnd <= last_acked + WindowBound
    BY <1>1, <1>2
  <2> QED
    BY <1>1, <2>1 DEF WindowOK, Active
<1> QED
  BY <1>4, <1>5, <1>7, <1>8, <1>9 DEF IInv

LEMMA StutterIInv ==
  ASSUME IInv, UNCHANGED vars
  PROVE  IInv'
<1>1. UNCHANGED <<mode, state, cwnd, ssthresh, recover_seq, dupacks, highest_sent, last_acked,
                  rto, cumulative_ack, received, fwd, rev, nPackets>>
  BY DEF vars, flowVars, srcVars, sinkVars, netVars
<1>2. TypeOK' /\ PacketsCounted' /\ SegmentsOn(fwd)' /\ AcksOn(rev)'
  BY <1>1 DEF IInv, TypeOK, PacketsCounted, SegmentsOn, AcksOn
<1>3. SinkList'
  BY <1>1, SinkUnchanged DEF IInv, sinkVars
<1>4. SourceOK' /\ PhaseOK' /\ WindowOK' /\ TimerRunning' /\ AcksInOrder'
  BY <1>1 DEF IInv, SourceOK, PhaseOK, WindowOK, TimerRunning, AcksInOrder, Active
<1> QED
  BY <1>2, <1>3, <1>4 DEF IInv

LEMMA NextIInv == IInv /\ [Next]_vars => IInv'
<1> SUFFICES ASSUME IInv, [Next]_vars
             PROVE  IInv'
  OBVIOUS
<1>1. CASE UNCHANGED vars
  BY <1>1, StutterIInv
<1>2. CASE Next
  <2>1. UNCHANGED mode
    BY <1>2 DEF Next
  <2>2. CASE StartFlow
    BY <2>1, <2>2, StartFlowInv
  <2>3. CASE Timeout
    BY <2>1, <2>3, TimeoutInv
  <2>4. CASE CleanUp
    BY <2>1, <2>4, CleanUpInv
  <2>5. ASSUME NEW i \in Places, AckFinish(i)
        PROVE  IInv'
    BY <2>1, <2>5, AckFinishInv
  <2>6. ASSUME NEW i \in Places, AckPast(i)
        PROVE  IInv'
    BY <2>1, <2>6, AckPastInv
  <2>7. ASSUME NEW i \in Places, ReceiveAck(i)
        PROVE  IInv'
    <3>1. PICK e \in EcnOutcomes :
            \/ AckNew(i, e) \/ AckRecovered(i, e) \/ AckPartial(i, e)
            \/ AckDup(i, e) \/ AckDupNoRecovery(i, e) \/ AckDupRecovery(i, e)
      BY <2>7 DEF ReceiveAck
    <3>2. CASE AckNew(i, e)
      BY <2>1, <3>2, AckNewInv
    <3>3. CASE AckRecovered(i, e)
      BY <2>1, <3>3, AckRecoveredInv
    <3>4. CASE AckPartial(i, e)
      BY <2>1, <3>4, AckPartialInv
    <3>5. CASE AckDup(i, e)
      BY <2>1, <3>5, AckDupInv
    <3>6. CASE AckDupNoRecovery(i, e)
      BY <2>1, <3>6, AckDupNoRecoveryInv
    <3>7. CASE AckDupRecovery(i, e)
      BY <2>1, <3>7, AckDupRecoveryInv
    <3> QED
      BY <3>1, <3>2, <3>3, <3>4, <3>5, <3>6, <3>7
  <2>8. ASSUME NEW i \in Places, SinkReceive(i)
        PROVE  IInv'
    BY <2>1, <2>8, SinkReceiveInv
  <2> QED
    BY <1>2, <2>2, <2>3, <2>4, <2>5, <2>6, <2>7, <2>8 DEF Next
<1> QED
  BY <1>1, <1>2

(* The inductive invariant holds: the window, the numbers of the source,   *)
(* the packets on their way and the list of the sink agree with each other *)
(* whatever is lost, delayed or reordered.                                 *)
THEOREM InductiveInvariant == Spec => []IInv
BY InitIInv, NextIInv, PTL DEF Spec

(* Type correctness.  What duplicate acks, new acks and recoveries add to  *)
(* cwnd never takes it past its word; the flight size may wrap.            *)
THEOREM TypeCorrect == Spec => []TypeOK
<1>1. IInv => TypeOK
  BY DEF IInv
<1> QED
  BY <1>1, InductiveInvariant, PTL

(* The window has a bound that does not depend on WORD, and is at least a  *)
(* segment but in the source that a wrapped flight size has left with none.*)
THEOREM WindowStaysInBounds == Spec => []WindowInBounds
<1>1. IInv => WindowInBounds
  <2> SUFFICES ASSUME IInv, Active
               PROVE  WindowInBounds
    BY DEF WindowInBounds
  <2>1. /\ cwnd \in Nat /\ last_acked \in Nat /\ highest_sent \in Nat /\ nPackets \in Nat
        /\ MSS_BYTES \in Nat \ {0} /\ FLOWSIZE \in Nat \ {0} /\ WORD \in Nat
    BY ConstantTypes DEF IInv, TypeOK
  <2>2. last_acked < FLOWSIZE /\ highest_sent < FLOWSIZE + MSS_BYTES /\ rto
    BY DEF IInv, SourceOK, TimerRunning
  <2>3. /\ \/ cwnd >= MSS_BYTES
           \/ state = "CONG_AVOID" /\ cwnd = 0 /\ highest_sent = last_acked
        /\ state # "FAST_RECOV" => cwnd <= last_acked + WindowBound
        /\ state = "FAST_RECOV" =>
             cwnd + InBytes(nPackets) + (FLOWSIZE + MSS_BYTES - highest_sent) <= WindowBound
    BY DEF IInv, WindowOK
  <2>4. InBytes(nPackets) \in Nat /\ WindowBound \in Nat
    BY <2>1, Bytes, BoundRange
  <2>5. cwnd <= FLOWSIZE + WindowBound
    BY <2>1, <2>2, <2>3, <2>4
  <2> QED
    BY <2>1, <2>2, <2>3, <2>4, <2>5 DEF WindowInBounds
<1> QED
  BY <1>1, InductiveInvariant, PTL

(* A source in the middle of a transfer always has its timeout set.        *)
THEOREM TimerAlwaysRunning == Spec => []TimerRunning
<1>1. IInv => TimerRunning
  BY DEF IInv
<1> QED
  BY <1>1, InductiveInvariant, PTL

(* On a path that is a FIFO no ack is from the past.                       *)
THEOREM AcksArriveInOrder == Spec => []AcksInOrder
<1>1. IInv => AcksInOrder
  BY DEF IInv
<1> QED
  BY <1>1, InductiveInvariant, PTL

(* The sink's list is strictly ordered, at segment boundaries, and beyond  *)
(* a real gap.                                                             *)
THEOREM SinkListSound == Spec => []SinkList
<1>1. IInv => SinkList
  BY DEF IInv
<1> QED
  BY <1>1, InductiveInvariant, PTL

-----------------------------------------------------------------------------
(* The flow as ReliableFlow sees it.                                       *)

LEMMA PhaseFacts ==
  /\ state = "IDLE" => phase = "idle"
  /\ Active => phase = "running"
  /\ state = "FINISH" => phase = "finished"
  /\ state = "DELETED" => phase = "deleted"
BY DEF phase, Active

LEMMA PhaseFactsNext ==
  /\ state' = "IDLE" => phase' = "idle"
  /\ Active' => phase' = "running"
  /\ state' = "FINISH" => phase' = "finished"
  /\ state' = "DELETED" => phase' = "deleted"
BY DEF phase, Active

(* A segment that arrives is answered by at most one ack, and after the    *)
(* last byte none adds to what the sink has.                               *)
LEMMA SinkAnswers ==
  ASSUME IInv, NEW i, SinkReceive(i)
  PROVE  /\ nPackets > 0 /\ nPackets' \in {nPackets - 1, nPackets}
         /\ cumulative_ack \in Nat /\ cumulative_ack' \in Nat /\ cumulative_ack' >= cumulative_ack
         /\ cumulative_ack >= FLOWSIZE => cumulative_ack' = cumulative_ack
<1> DEFINE s == fwd[i]
           c == cumulative_ack'
           out == <<c>>
<1>1. /\ i \in Arrivals(fwd) /\ processDataPacket(s)
      /\ Send(rev, out, rev', nPackets - 1, nPackets')
  BY DEF SinkReceive
<1>2. /\ fwd \in Seq(Nat) /\ Len(fwd) \in Nat /\ SegmentsOn(fwd)
      /\ rev \in Seq(Nat) /\ Len(rev) \in Nat /\ Len(rev) <= PATH_CAPACITY
      /\ nPackets \in Nat /\ nPackets = Len(fwd) + Len(rev)
      /\ SinkType /\ SinkList /\ cumulative_ack \in Nat
  BY DEF IInv, TypeOK, SinkType, PacketsCounted
<1>3. i \in 1 .. Len(fwd)
  BY <1>1, <1>2 DEF Arrivals, Min2
<1>4. s \in Nat /\ IsSegment(s) /\ s <= FLOWSIZE
  BY <1>2, <1>3 DEF SegmentsOn
<1>5. /\ SinkType' /\ cumulative_ack' >= cumulative_ack
      /\ s <= cumulative_ack => cumulative_ack' = cumulative_ack
  BY <1>1, <1>2, <1>4, SinkStep
<1> HIDE DEF s
<1>6. c \in Nat
  BY <1>5 DEF SinkType
<1> HIDE DEF c
<1>7. out \in Seq(Nat) /\ Len(out) = 1
  BY <1>6
<1> HIDE DEF out
<1>8. /\ rev' \in Seq(Nat) /\ Len(rev) <= Len(rev') /\ Len(rev') <= Len(rev) + Len(out)
      /\ nPackets' = nPackets - 1 + (Len(rev') - Len(rev))
  <2>1. /\ rev \in Seq(Nat) /\ Len(rev) <= PATH_CAPACITY /\ out \in Seq(Nat)
        /\ nPackets - 1 \in Int
    BY <1>2, <1>7
  <2>2. Send(rev, out, rev', nPackets - 1, nPackets')
    BY <1>1
  <2> QED
    BY <2>1, <2>2, SendFacts
<1>9. Len(rev') \in Nat
  BY <1>8
<1>10. nPackets > 0 /\ nPackets' \in {nPackets - 1, nPackets}
  <2>1. Len(fwd) >= 1
    BY <1>2, <1>3
  <2>2. Len(rev') = Len(rev) \/ Len(rev') = Len(rev) + 1
    BY ONLY <1>2, <1>7, <1>8, <1>9
  <2>3. nPackets' = nPackets - 1 + (Len(rev') - Len(rev))
    BY <1>8
  <2>4. Len(fwd) \in Nat /\ Len(rev) \in Nat /\ nPackets \in Nat /\ nPackets = Len(fwd) + Len(rev)
    BY <1>2
  <2>5. nPackets > 0
    BY ONLY <2>1, <2>4
  <2>6. CASE Len(rev') = Len(rev)
    <3>1. nPackets' = nPackets - 1
      BY ONLY <2>3, <2>4, <2>6
    <3> QED
      BY <2>5, <3>1
  <2>7. CASE Len(rev') = Len(rev) + 1
    <3>1. nPackets' = nPackets
      BY ONLY <2>3, <2>4, <2>7
    <3> QED
      BY <2>5, <3>1
  <2> QED
    BY <2>2, <2>6, <2>7
<1> QED
  BY <1>2, <1>4, <1>5, <1>6, <1>10, ConstantTypes DEF c

(* The steps of a source that is not finished, or of its path.             *)
LEMMA RunningStep ==
  ASSUME IInv, IInv', Active, Active', UNCHANGED sinkVars
  PROVE  Reliable!Send
<1>1. phase = "running" /\ phase' = "running"
  BY PhaseFacts, PhaseFactsNext
<1>2. nPackets' \in Nat /\ cumulative_ack' = cumulative_ack
  BY DEF IInv, TypeOK, sinkVars
<1> QED
  BY <1>1, <1>2 DEF Reliable!Send

LEMMA ReliableStep ==
  ASSUME IInv, [Next]_vars
  PROVE  [Reliable!Next]_(Reliable!vars)
<1>1. IInv'
  BY NextIInv
<1>2. /\ nPackets \in Nat /\ nPackets' \in Nat
      /\ cumulative_ack \in Nat /\ cumulative_ack' \in Nat /\ FLOWSIZE \in Nat
  BY <1>1, ConstantTypes DEF IInv, TypeOK
<1>3. CASE UNCHANGED vars
  BY <1>3 DEF vars, flowVars, srcVars, sinkVars, netVars, phase, Active, Reliable!vars
<1>4. CASE StartFlow
  <2>1. state = "IDLE" /\ Active' /\ UNCHANGED sinkVars
    BY <1>4 DEF StartFlow, Active
  <2>2. phase = "idle" /\ phase' = "running" /\ cumulative_ack' = cumulative_ack
    BY <2>1, PhaseFacts, PhaseFactsNext DEF sinkVars
  <2> QED
    BY <1>2, <2>2 DEF Reliable!Next, Reliable!Start
<1>5. CASE Timeout
  <2>1. Active /\ Active' /\ UNCHANGED sinkVars
    BY <1>5 DEF Timeout, Active
  <2> QED
    BY <1>1, <2>1, RunningStep DEF Reliable!Next
<1>6. CASE CleanUp
  <2>1. /\ state = "FINISH" /\ state' = "DELETED" /\ nPackets = 0
        /\ cumulative_ack' = cumulative_ack /\ nPackets' = nPackets
    BY <1>6 DEF CleanUp, sinkVars, netVars
  <2> QED
    BY <2>1, PhaseFacts, PhaseFactsNext DEF Reliable!Next, Reliable!Delete
<1>7. ASSUME NEW i \in Places, AckFinish(i)
      PROVE  Reliable!Next
  <2>1. /\ i \in Arrivals(rev) /\ rev' = RemoveAt(rev, i)
        /\ state = "FINISH" \/ (Active /\ rev[i] >= FLOWSIZE)
        /\ state' = "FINISH" /\ nPackets' = nPackets - 1 /\ cumulative_ack' = cumulative_ack
    BY <1>7 DEF AckFinish, sinkVars
  <2>2. i \in 1 .. Len(rev) /\ rev[i] \in Nat /\ rev[i] <= cumulative_ack
    <3>1. rev \in Seq(Nat) /\ Len(rev) \in Nat /\ AcksOn(rev)
      BY DEF IInv, TypeOK
    <3>2. i \in 1 .. Len(rev)
      BY <2>1, <3>1 DEF Arrivals, Min2
    <3> QED
      BY <3>1, <3>2 DEF AcksOn
  <2>3. CASE state = "FINISH"
    <3>1. phase = "finished" /\ phase' = "finished"
      BY <2>1, <2>3, PhaseFacts, PhaseFactsNext
    <3>2. nPackets' <= nPackets
      BY <1>2, <2>1
    <3> QED
      BY <1>2, <2>1, <3>1, <3>2 DEF Reliable!Next, Reliable!Drain
  <2>4. CASE Active /\ rev[i] >= FLOWSIZE
    <3>1. phase = "running" /\ phase' = "finished"
      BY <2>1, <2>4, PhaseFacts, PhaseFactsNext
    <3>2. cumulative_ack >= FLOWSIZE /\ nPackets' < nPackets
      BY <1>2, <2>1, <2>2, <2>4
    <3> QED
      BY <2>1, <3>1, <3>2 DEF Reliable!Next, Reliable!Finish
  <2> QED
    BY <2>1, <2>3, <2>4
<1>8. ASSUME NEW i \in Places, AckPast(i)
      PROVE  Reliable!Next
  <2>1. Active /\ Active' /\ UNCHANGED sinkVars
    BY <1>8 DEF AckPast, Active, srcVars
  <2> QED
    BY <1>1, <2>1, RunningStep DEF Reliable!Next
<1>9. ASSUME NEW i \in Places, ReceiveAck(i)
      PROVE  Reliable!Next
  <2>1. PICK e \in EcnOutcomes :
          \/ AckNew(i, e) \/ AckRecovered(i, e) \/ AckPartial(i, e)
          \/ AckDup(i, e) \/ AckDupNoRecovery(i, e) \/ AckDupRecovery(i, e)
    BY <1>9 DEF ReceiveAck
  <2>2. TakeAck(i)
    BY <2>1 DEF AckNew, AckRecovered, AckPartial, AckDup, AckDupNoRecovery, AckDupRecovery
  <2>3. Active /\ UNCHANGED sinkVars
    BY <2>2 DEF TakeAck
  <2>4. e.st \in {"SLOW_START", "CONG_AVOID", "FAST_RECOV"}
    BY <2>3, EcnFacts DEF IInv
  <2>5. state' \in {"SLOW_START", "CONG_AVOID", "FAST_RECOV"}
    BY <2>1, <2>4
    DEF AckNew, AckRecovered, AckPartial, AckDup, AckDupNoRecovery, AckDupRecovery
  <2>6. Active'
    BY <2>5 DEF Active
  <2> QED
    BY <1>1, <2>3, <2>6, RunningStep DEF Reliable!Next
<1>10. ASSUME NEW i \in Places, SinkReceive(i)
       PROVE  Reliable!Next
  <2>1. /\ nPackets > 0 /\ nPackets' \in {nPackets - 1, nPackets}
        /\ cumulative_ack' >= cumulative_ack
        /\ cumulative_ack >= FLOWSIZE => cumulative_ack' = cumulative_ack
    BY <1>10, SinkAnswers
  <2>2. state' = state
    BY <1>10 DEF SinkReceive, srcVars
  <2>3. Active \/ state = "FINISH"
    BY <1>2, <2>1 DEF IInv, TypeOK, PhaseOK, Active
  <2>4. CASE Active
    <3>1. phase = "running" /\ phase' = "running"
      BY <2>2, <2>4, PhaseFacts, PhaseFactsNext DEF Active
    <3>2. CASE cumulative_ack' = cumulative_ack
      BY <1>2, <3>1, <3>2 DEF Reliable!Next, Reliable!Send
    <3>3. CASE cumulative_ack' > cumulative_ack
      BY <2>1, <3>1, <3>3 DEF Reliable!Next, Reliable!Deliver
    <3> QED
      BY <1>2, <2>1, <3>2, <3>3
  <2>5. CASE state = "FINISH"
    <3>1. phase = "finished" /\ phase' = "finished"
      BY <2>2, <2>5, PhaseFacts, PhaseFactsNext
    <3>2. cumulative_ack' = cumulative_ack /\ nPackets' <= nPackets
      BY <1>2, <2>1, <2>5 DEF IInv, PhaseOK
    <3> QED
      BY <1>2, <3>1, <3>2 DEF Reliable!Next, Reliable!Drain
  <2> QED
    BY <2>3, <2>4, <2>5
<1> QED
  BY <1>3, <1>4, <1>5, <1>6, <1>7, <1>8, <1>9, <1>10 DEF Next

(* TCP and DCTCP implement ReliableFlow: the source finishes only what the *)
(* sink has to the last byte, sends nothing afterwards, and is deleted     *)
(* when no packet is left.                                                 *)
THEOREM Refinement == Spec => ImplementsReliableFlow
<1>1. Init => Reliable!Init
  BY PhaseFacts DEF Init, SinkInit, Reliable!Init
<1>2. IInv /\ [Next]_vars => [Reliable!Next]_(Reliable!vars)
  BY ReliableStep
<1> QED
  BY <1>1, <1>2, InductiveInvariant, PTL DEF Spec, ImplementsReliableFlow, Reliable!Spec
=============================================================================
