------------------------ MODULE SlidingWindow_proofs ------------------------
(***************************************************************************)
(* Safety of the sliding window for any number of flows, any NUM_PING,     *)
(* any BUF_SIZE, any SAME_ACK_LIMIT and any advertised window.             *)
(*                                                                         *)
(* The argument: a cumulative ack is a promise about nxt_pkt_expcd, and    *)
(* nxt_pkt_expcd only grows.  So last_pkt_acked < nxt_pkt_expcd at all     *)
(* times, every packet in the link lies at most BUF_SIZE beyond            *)
(* last_pkt_acked, hence within the ring that starts at nxt_pkt_expcd, and *)
(* two packets of one ring never share a slot.                             *)
(***************************************************************************)
EXTENDS SlidingWindow, TLAPS

(* Every packet and every ack in the link agrees with the two ends.        *)
LinkOK ==
  /\ \A m \in data : m.seq <= last_pkt_acked[m.fid] + BUF_SIZE
  /\ \A m \in acks : m.recv_ack < nxt_pkt_expcd[m.fid]
  /\ \A f \in Flow : last_pkt_acked[f] < nxt_pkt_expcd[f]

(* Everything below nxt_pkt_expcd has been received or given up.           *)
ExpectedOK ==
  \A f \in Flow : \A s \in 1 .. (nxt_pkt_expcd[f] - 1) :
    s \in got[f] \cup skipped[f]

(* The ring holds no number beyond the last packet received.               *)
RecvdOK ==
  \A f \in Flow :
    /\ \A s \in got[f] : s <= last_pkt_recvd[f]
    /\ \A i \in Slots : seqbuf[f][i] <= last_pkt_recvd[f]
    /\ nxt_pkt_expcd[f] - 1 <= last_pkt_recvd[f]
    /\ last_pkt_recvd[f] <= last_pkt_read[f] + BUF_SIZE

(* last_pkt_read is one less than nxt_pkt_expcd until the flow is acked.   *)
ReadOK ==
  \A f \in Flow :
    /\ last_pkt_read[f] <= nxt_pkt_expcd[f] - 1
    /\ (spc # "ack" \/ rcvd[f]) => last_pkt_read[f] = nxt_pkt_expcd[f] - 1

(* The inductive invariant.                                                *)
IInv ==
  TypeOK /\ ClientWindow /\ LinkOK /\ ExpectedOK /\ RecvdOK /\ ReadOK /\ RingExact

-----------------------------------------------------------------------------
(* Facts about the remainder that places a sequence number in the ring.    *)

(* Division with remainder, for the slot arithmetic of seqbuf.             *)
LEMMA DivMod ==
  ASSUME NEW a \in Int, NEW b \in Nat \ {0}
  PROVE  /\ a % b \in 0 .. (b - 1)
         /\ a \div b \in Int
         /\ a = b * (a \div b) + (a % b)
OBVIOUS

(* Two numbers less than b apart with the same remainder are equal.        *)
LEMMA ModInjective ==
  ASSUME NEW a \in Int, NEW c \in Int, NEW b \in Nat \ {0},
         a % b = c % b, a - c < b, c - a < b
  PROVE  a = c
<1> DEFINE p == a \div b
           q == c \div b
<1>1. /\ a = b * p + (a % b) /\ c = b * q + (c % b)
      /\ p \in Int /\ q \in Int
  BY DivMod
<1>2. a - c = b * p - b * q
  BY <1>1, DivMod
<1> HIDE DEF p, q
<1>3. CASE p >= q + 1
  <2>1. b * p >= b * (q + 1)
    BY <1>1, <1>3
  <2>2. b * (q + 1) = b * q + b
    BY <1>1
  <2> QED
    BY <1>1, <1>2, <2>1, <2>2
<1>4. CASE q >= p + 1
  <2>1. b * q >= b * (p + 1)
    BY <1>1, <1>4
  <2>2. b * (p + 1) = b * p + b
    BY <1>1
  <2> QED
    BY <1>1, <1>2, <2>1, <2>2
<1> QED
  BY <1>1, <1>2, <1>3, <1>4

(* Slot is a slot of the ring.                                             *)
LEMMA SlotInRing ==
  ASSUME NEW s \in Int
  PROVE  Slot(s) \in Slots
BY ConstantsAssumption, DivMod DEF Slot, Slots

(* Two packets of one ring have different slots.                           *)
LEMMA SlotInjective ==
  ASSUME NEW s \in Int, NEW t \in Int, Slot(s) = Slot(t),
         s - t < BUF_SIZE, t - s < BUF_SIZE
  PROVE  s = t
<1> DEFINE a == s - 1
           c == t - 1
<1>1. /\ a \in Int /\ c \in Int /\ BUF_SIZE \in Nat \ {0}
      /\ a - c < BUF_SIZE /\ c - a < BUF_SIZE
  BY ConstantsAssumption
<1>2. a % BUF_SIZE = c % BUF_SIZE
  BY DEF Slot
<1> HIDE DEF a, c
<1>3. a = c
  BY <1>1, <1>2, ModInjective
<1> QED
  BY <1>3 DEF a, c

(* The advertised window fits its header field.                            *)
LEMMA AdvertisedWindowType == AdvertisedWindow \in Windows
BY ConstantsAssumption, DivMod DEF AdvertisedWindow, Windows

-----------------------------------------------------------------------------
(* The inductive invariant holds when both loops begin.                    *)
LEMMA InitIInv == Init => IInv
<1> SUFFICES ASSUME Init PROVE IInv
  OBVIOUS
<1> USE ConstantsAssumption DEF Init, ClientInit, ServerInit, LinkInit
<1>1. TypeOK
  <2>1. seqbuf \in [Flow -> [Slots -> 0 .. NUM_PING]]
    OBVIOUS
  <2>2. /\ same_ack \in [Flow -> 0 .. (SAME_ACK_LIMIT - 1)]
        /\ nxt_pkt_expcd \in [Flow -> 1 .. MAX_EXPCD]
    OBVIOUS
  <2>3. got \in [Flow -> SUBSET Seqs] /\ skipped \in [Flow -> SUBSET (1 .. MAX_EXPCD)]
    OBVIOUS
  <2> QED
    BY <2>1, <2>2, <2>3 DEF TypeOK
<1>2. ClientWindow /\ LinkOK /\ ExpectedOK /\ ReadOK
  BY DEF ClientWindow, LinkOK, ExpectedOK, ReadOK
<1>3. RecvdOK
  BY DEF RecvdOK, Slots
<1>4. RingExact
  BY SlotInRing, SMTT(60) DEF RingExact, Slots
<1> QED
  BY <1>1, <1>2, <1>3, <1>4 DEF IInv
-----------------------------------------------------------------------------
(* One lemma per action: it preserves the inductive invariant.             *)

(* What the client puts in the link stays within BUF_SIZE of its last ack. *)
LEMMA ClientIterateIInv ==
  ASSUME IInv, NEW through \in SUBSET Transmittable, ClientIterate(through)
  PROVE  IInv'
<1> USE ConstantsAssumption DEF IInv, ClientIterate, serverVars
<1>1. \A f \in Flow : /\ SentAfter(f) \in Nat /\ Written(f) \in Nat
                      /\ last_pkt_acked[f] <= SentAfter(f)
                      /\ SentAfter(f) <= last_pkt_acked[f] + BUF_SIZE
  BY DEF TypeOK, ClientWindow, SentAfter, Written, Smaller, Larger
<1>2. /\ through \subseteq Data
      /\ \A m \in through : m.seq <= last_pkt_acked[m.fid] + BUF_SIZE
  <2> SUFFICES ASSUME NEW m \in through
               PROVE  m \in Data /\ m.seq <= last_pkt_acked[m.fid] + BUF_SIZE
    OBVIOUS
  <2>1. /\ m \in Data /\ m.fid \in Flow /\ m.seq \in Nat
        /\ m.seq \in Unacked(m.fid)
           \/ m.seq \in (last_pkt_sent[m.fid] + 1) .. SentAfter(m.fid)
    BY DEF Transmittable, Data, Seqs
  <2>2. CASE m.seq \in Unacked(m.fid)
    BY <2>1, <2>2 DEF Unacked, Smaller, TypeOK, ClientWindow
  <2>3. CASE m.seq \in (last_pkt_sent[m.fid] + 1) .. SentAfter(m.fid)
    BY <2>1, <2>3, <1>1 DEF TypeOK
  <2> QED
    BY <2>1, <2>2, <2>3
<1>3. TypeOK'
  BY <1>1, <1>2 DEF TypeOK, clientVars
<1>4. ClientWindow'
  BY <1>1 DEF ClientWindow
<1>5. LinkOK'
  BY <1>2 DEF LinkOK
<1>6. ExpectedOK' /\ RecvdOK' /\ ReadOK' /\ RingExact'
  BY DEF ExpectedOK, RecvdOK, ReadOK, RingExact
<1> QED
  BY <1>3, <1>4, <1>5, <1>6

(* An ack, however old, leaves last_pkt_acked below nxt_pkt_expcd and the  *)
(* window between 0 and BUF_SIZE.                                          *)
LEMMA ClientRecvIInv ==
  ASSUME IInv, NEW m \in acks, ClientRecv(m)
  PROVE  IInv'
<1> USE ConstantsAssumption DEF IInv, ClientRecv, serverVars, Larger
<1>1. /\ m.fid \in Flow /\ m.recv_ack \in Nat /\ m.rx_win \in Nat
      /\ m.recv_ack < nxt_pkt_expcd[m.fid]
  BY DEF TypeOK, Acks, Windows, LinkOK
<1>2. acks' \subseteq acks
  BY DEF Taken
<1>3. TypeOK'
  BY <1>1, <1>2 DEF TypeOK
<1>4. ClientWindow'
  BY <1>1 DEF ClientWindow, TypeOK
<1>5. \A f \in Flow : last_pkt_acked'[f] \in Nat /\ last_pkt_acked'[f] >= last_pkt_acked[f]
  BY <1>1 DEF TypeOK
<1>6. LinkOK'
  <2>1. \A d \in data' : d.seq <= last_pkt_acked'[d.fid] + BUF_SIZE
    BY <1>5 DEF LinkOK, TypeOK, Data, Seqs
  <2>2. \A f \in Flow : last_pkt_acked'[f] < nxt_pkt_expcd'[f]
    BY <1>1 DEF LinkOK, TypeOK
  <2> QED
    BY <1>2, <2>1, <2>2 DEF LinkOK
<1>7. ExpectedOK' /\ RecvdOK' /\ ReadOK' /\ RingExact'
  BY DEF ExpectedOK, RecvdOK, ReadOK, RingExact
<1> QED
  BY <1>3, <1>4, <1>6, <1>7

(* The steps that only move a loop or the stop packet.                     *)
LEMMA ControlIInv ==
  ASSUME IInv,
         \/ ClientRecvNothing \/ ClientStop \/ ServerRxStop
         \/ ServerForeignBurst \/ ServerEndBurst \/ UNCHANGED vars
  PROVE  IInv'
<1> USE DEF IInv, clientVars, serverVars, linkVars, vars, ClientRecvNothing,
            ClientStop, ServerRxStop, ServerForeignBurst, ServerEndBurst
<1>1. TypeOK'
  BY ZenonT(60) DEF TypeOK
<1>2. ClientWindow' /\ LinkOK' /\ ExpectedOK' /\ RecvdOK'
  BY DEF ClientWindow, LinkOK, ExpectedOK, RecvdOK
<1>3. ReadOK'
  BY DEF ReadOK, TypeOK
<1>4. RingExact'
  BY DEF RingExact
<1> QED
  BY <1>1, <1>2, <1>3, <1>4

(* A packet that is received lies in the ring that starts at               *)
(* nxt_pkt_expcd, so it overwrites no packet of that ring.                 *)
LEMMA ServerRxIInv ==
  ASSUME IInv, NEW m \in data, ServerRx(m)
  PROVE  IInv'
<1> USE ConstantsAssumption DEF IInv, ServerRx, clientVars
<1> DEFINE f == m.fid
           s == m.seq
<1>1. /\ f \in Flow /\ s \in 1 .. NUM_PING /\ s \in Int
      /\ s <= nxt_pkt_expcd[f] - 1 + BUF_SIZE
  BY DEF TypeOK, Data, Seqs, LinkOK
<1>2. Slot(s) \in Slots
  BY <1>1, SlotInRing
<1>3. data' \subseteq data
  BY DEF Taken
<1>4. /\ last_pkt_recvd' \in [Flow -> Nat]
      /\ \A g \in Flow : last_pkt_recvd'[g] >= last_pkt_recvd[g]
      /\ last_pkt_recvd'[f] >= s
      /\ \A g \in Flow : last_pkt_recvd'[g] <= last_pkt_read[g] + BUF_SIZE
  BY <1>1 DEF TypeOK, Larger, RecvdOK, ReadOK
<1>5. seqbuf' \in [Flow -> [Slots -> 0 .. NUM_PING]]
  BY <1>1, <1>2 DEF TypeOK
<1>6. got' \in [Flow -> SUBSET Seqs] /\ rcvd' \in [Flow -> BOOLEAN]
  BY <1>1 DEF TypeOK, Seqs
<1>7. TypeOK'
  BY <1>3, <1>4, <1>5, <1>6 DEF TypeOK
<1>8. ClientWindow' /\ ExpectedOK' /\ ReadOK' /\ LinkOK'
  BY <1>1, <1>3 DEF ClientWindow, ExpectedOK, ReadOK, LinkOK, TypeOK
<1>9. RecvdOK'
  <2> SUFFICES ASSUME NEW g \in Flow
               PROVE  /\ \A t \in got'[g] : t <= last_pkt_recvd'[g]
                      /\ \A i \in Slots : seqbuf'[g][i] <= last_pkt_recvd'[g]
                      /\ nxt_pkt_expcd[g] - 1 <= last_pkt_recvd'[g]
    BY <1>4 DEF RecvdOK
  <2>1. \A t \in got'[g] : t <= last_pkt_recvd'[g]
    BY <1>1, <1>4 DEF RecvdOK, TypeOK, Seqs
  <2>2. \A i \in Slots : seqbuf'[g][i] <= last_pkt_recvd'[g]
    BY <1>1, <1>2, <1>4 DEF RecvdOK, TypeOK
  <2>3. nxt_pkt_expcd[g] - 1 <= last_pkt_recvd'[g]
    BY <1>4 DEF RecvdOK, TypeOK
  <2> QED
    BY <2>1, <2>2, <2>3
<1>10. RingExact'
  <2> SUFFICES ASSUME NEW g \in Flow,
                      NEW t \in nxt_pkt_expcd[g] .. (nxt_pkt_expcd[g] + BUF_SIZE - 1)
               PROVE  seqbuf'[g][Slot(t)] = t <=> t \in got'[g]
    BY DEF RingExact
  <2>1. /\ t \in Int /\ Slot(t) \in Slots
        /\ seqbuf[g][Slot(t)] = t <=> t \in got[g]
    BY SlotInRing DEF RingExact, TypeOK
  <2>2. CASE g # f
    BY <1>1, <1>2, <2>1, <2>2 DEF TypeOK
  <2>3. CASE g = f /\ s < nxt_pkt_expcd[f]
    BY <1>1, <2>1, <2>3 DEF TypeOK
  <2>4. CASE g = f /\ s >= nxt_pkt_expcd[f]
    <3>1. s - t < BUF_SIZE /\ t - s < BUF_SIZE
      BY <1>1, <2>1, <2>4 DEF TypeOK
    <3>2. Slot(s) = Slot(t) => s = t
      BY <1>1, <2>1, <3>1, SlotInjective
    <3> QED
      BY <1>1, <1>2, <2>1, <2>4, <3>2 DEF TypeOK
  <2> QED
    BY <1>1, <2>2, <2>3, <2>4 DEF TypeOK
<1> QED
  BY <1>7, <1>8, <1>9, <1>10

(* The scan of the ring passes received packets only, stops at a packet    *)
(* that was not received, and gives up only a packet it did not pass.      *)
LEMMA ScanFacts ==
  ASSUME IInv, NEW f \in Flow, NEW n \in 1 .. MAX_EXPCD, FirstMissing(f, n)
  PROVE  /\ nxt_pkt_expcd[f] <= n
         /\ \A k \in nxt_pkt_expcd[f] .. (n - 1) : k \in got[f]
         /\ n \notin got[f]
         /\ GivesUp(f, n) => n = nxt_pkt_expcd[f]
         /\ Stalls(f, n) \in Nat
         /\ n - 1 <= last_pkt_recvd[f]
<1> USE ConstantsAssumption DEF IInv, FirstMissing
<1>1. /\ nxt_pkt_expcd[f] \in Nat /\ last_pkt_recvd[f] \in Nat
      /\ last_pkt_recvd[f] <= nxt_pkt_expcd[f] - 1 + BUF_SIZE
      /\ same_ack[f] \in Nat /\ same_ack[f] < SAME_ACK_LIMIT
      /\ got[f] \subseteq Nat /\ \A t \in got[f] : t <= last_pkt_recvd[f]
  BY DEF TypeOK, RecvdOK, ReadOK, Seqs
<1>2. \A k \in nxt_pkt_expcd[f] .. (n - 1) : k \in got[f]
  <2> SUFFICES ASSUME NEW k \in nxt_pkt_expcd[f] .. (n - 1) PROVE k \in got[f]
    OBVIOUS
  <2>1. k \in Nat /\ seqbuf[f][Slot(k)] = k /\ Slot(k) \in Slots
    BY <1>1, SlotInRing
  <2>2. k <= last_pkt_recvd[f]
    BY <2>1 DEF RecvdOK
  <2>3. k \in nxt_pkt_expcd[f] .. (nxt_pkt_expcd[f] + BUF_SIZE - 1)
    BY <1>1, <2>1, <2>2
  <2> QED
    BY <2>1, <2>3 DEF RingExact
<1>3. n \notin got[f]
  <2>1. CASE n > last_pkt_recvd[f]
    BY <1>1, <2>1
  <2>2. CASE n <= last_pkt_recvd[f]
    <3>1. n \in nxt_pkt_expcd[f] .. (nxt_pkt_expcd[f] + BUF_SIZE - 1)
      BY <1>1, <2>2
    <3> QED
      BY <3>1 DEF RingExact
  <2> QED
    BY <1>1, <2>1, <2>2
<1>4. Stalls(f, n) \in Nat /\ (GivesUp(f, n) => n = nxt_pkt_expcd[f])
  BY <1>1 DEF Stalls, GivesUp
<1>5. n - 1 <= last_pkt_recvd[f]
  <2>1. CASE n = nxt_pkt_expcd[f]
    BY <1>1, <2>1 DEF RecvdOK
  <2>2. CASE n > nxt_pkt_expcd[f]
    <3>1. n - 1 \in got[f]
      BY <1>1, <1>2, <2>2
    <3> QED
      BY <1>1, <3>1
  <2> QED
    BY <1>1, <2>1, <2>2
<1> QED
  BY <1>2, <1>3, <1>4, <1>5

(* An ack promises nothing the server has not received or given up, and    *)
(* the new ring contains no packet of the old one in a wrong slot.         *)
LEMMA ServerAckIInv ==
  ASSUME IInv, NEW f \in Flow, NEW n \in 1 .. MAX_EXPCD, NEW through \in BOOLEAN,
         ServerAck(f, n, through)
  PROVE  IInv'
<1> USE ConstantsAssumption DEF IInv, clientVars
<1> DEFINE next == IF GivesUp(f, n) THEN n + 1 ELSE n
<1>1. /\ spc = "ack" /\ rcvd[f] /\ FirstMissing(f, n)
      /\ nxt_pkt_expcd' = [nxt_pkt_expcd EXCEPT ![f] = next]
      /\ UNCHANGED <<clientVars, seqbuf, got, data, stop>>
      /\ rcvd' = [rcvd EXCEPT ![f] = FALSE]
  BY DEF ServerAck
<1>2. /\ nxt_pkt_expcd[f] <= n
      /\ \A k \in nxt_pkt_expcd[f] .. (n - 1) : k \in got[f]
      /\ n \notin got[f]
      /\ GivesUp(f, n) => n = nxt_pkt_expcd[f]
      /\ Stalls(f, n) \in Nat
      /\ n - 1 <= last_pkt_recvd[f]
  BY <1>1, ScanFacts
<1>3. /\ next \in 1 .. MAX_EXPCD /\ n <= next /\ next <= n + 1
      /\ GivesUp(f, n) => next = n + 1
      /\ ~ GivesUp(f, n) => next = n
  BY DEF GivesUp
<1>4. /\ nxt_pkt_expcd' \in [Flow -> 1 .. MAX_EXPCD]
      /\ nxt_pkt_expcd'[f] = next
      /\ \A g \in Flow : nxt_pkt_expcd[g] <= nxt_pkt_expcd'[g]
      /\ \A g \in Flow \ {f} : nxt_pkt_expcd'[g] = nxt_pkt_expcd[g]
  BY <1>1, <1>2, <1>3 DEF TypeOK
<1> HIDE DEF next
<1>5. /\ last_pkt_read[f] = nxt_pkt_expcd[f] - 1
      /\ \A g \in Flow : rcvd[g] => last_pkt_read[g] = nxt_pkt_expcd[g] - 1
  BY <1>1 DEF ReadOK
<1>6. /\ last_pkt_recvd' \in [Flow -> Nat]
      /\ \A g \in Flow : last_pkt_recvd[g] <= last_pkt_recvd'[g]
      /\ nxt_pkt_expcd'[f] - 1 <= last_pkt_recvd'[f]
      /\ \A g \in Flow : last_pkt_recvd'[g] <= last_pkt_read[g] + BUF_SIZE
  <2>1. CASE GivesUp(f, n)
    <3>1. last_pkt_recvd' = [last_pkt_recvd EXCEPT ![f] = Larger(@, n)]
      BY <2>1 DEF ServerAck, RecvdAfter
    <3>2. n <= last_pkt_read[f] + BUF_SIZE
      BY <1>2, <1>5, <2>1 DEF TypeOK
    <3> QED
      BY <1>3, <1>4, <2>1, <3>1, <3>2 DEF TypeOK, Larger, RecvdOK
  <2>2. CASE ~ GivesUp(f, n)
    <3>1. last_pkt_recvd' = last_pkt_recvd
      BY <2>2 DEF ServerAck, RecvdAfter, TypeOK
    <3> QED
      BY <1>2, <1>3, <1>4, <2>2, <3>1 DEF TypeOK, RecvdOK
  <2> QED
    BY <2>1, <2>2
<1>7. /\ skipped' \in [Flow -> SUBSET (1 .. MAX_EXPCD)]
      /\ \A g \in Flow : skipped[g] \subseteq skipped'[g]
      /\ GivesUp(f, n) => n \in skipped'[f]
  <2>1. CASE GivesUp(f, n)
    <3>1. skipped' = [skipped EXCEPT ![f] = @ \cup {n}]
      BY <2>1 DEF ServerAck
    <3> QED
      BY <2>1, <3>1 DEF TypeOK
  <2>2. CASE ~ GivesUp(f, n)
    <3>1. skipped' = skipped
      BY <2>2 DEF ServerAck
    <3> QED
      BY <2>2, <3>1 DEF TypeOK
  <2> QED
    BY <2>1, <2>2
<1>8. /\ acks' \subseteq acks \cup {construct_ack(f, next - 1)}
      /\ construct_ack(f, next - 1) \in Acks
  BY <1>3, AdvertisedWindowType DEF ServerAck, construct_ack, Acks, next
<1>9. /\ spc' \in {"rx", "ack"} /\ last_pkt_read' \in [Flow -> Nat]
      /\ \/ last_pkt_read' = last_pkt_read /\ spc' = "ack"
         \/ \A g \in Flow : last_pkt_read'[g] = nxt_pkt_expcd'[g] - 1
  <2>1. CASE \E g \in Flow \ {f} : rcvd[g]
    BY <1>1, <2>1 DEF ServerAck, TypeOK
  <2>2. CASE ~ \E g \in Flow \ {f} : rcvd[g]
    <3>1. spc' = "rx" /\ last_pkt_read' = [g \in Flow |-> nxt_pkt_expcd'[g] - 1]
      BY <2>2 DEF ServerAck
    <3> QED
      BY <1>4, <3>1
  <2> QED
    BY <2>1, <2>2
<1>10. TypeOK'
  <2>1. same_ack' \in [Flow -> 0 .. (SAME_ACK_LIMIT - 1)]
    BY <1>2 DEF ServerAck, StallsAfter, TypeOK
  <2>2. rcvd' \in [Flow -> BOOLEAN]
    BY <1>1 DEF TypeOK
  <2>3. acks' \in SUBSET Acks
    BY <1>8 DEF TypeOK
  <2> QED
    BY <1>1, <1>4, <1>6, <1>7, <1>9, <2>1, <2>2, <2>3 DEF TypeOK
<1>11. ClientWindow'
  BY <1>1 DEF ClientWindow
<1>12. LinkOK'
  <2>1. \A m \in acks' : m.recv_ack < nxt_pkt_expcd'[m.fid]
    <3>1. construct_ack(f, next - 1).recv_ack < nxt_pkt_expcd'[construct_ack(f, next - 1).fid]
      BY <1>3, <1>4 DEF construct_ack
    <3>2. \A m \in acks : m.recv_ack < nxt_pkt_expcd'[m.fid]
      BY <1>4 DEF LinkOK, TypeOK, Acks
    <3> QED
      BY <1>8, <3>1, <3>2
  <2>2. \A g \in Flow : last_pkt_acked[g] < nxt_pkt_expcd'[g]
    BY <1>4 DEF LinkOK, TypeOK
  <2> QED
    BY <1>1, <2>1, <2>2 DEF LinkOK
<1>13. ExpectedOK'
  <2> SUFFICES ASSUME NEW g \in Flow, NEW s \in 1 .. (nxt_pkt_expcd'[g] - 1)
               PROVE  s \in got[g] \cup skipped'[g]
    BY <1>1 DEF ExpectedOK
  <2>1. CASE s < nxt_pkt_expcd[g]
    BY <1>4, <1>7, <2>1 DEF ExpectedOK, TypeOK
  <2>2. CASE s >= nxt_pkt_expcd[g]
    <3>1. g = f
      BY <1>4, <2>2 DEF TypeOK
    <3>2. s \in nxt_pkt_expcd[f] .. (n - 1) \/ (GivesUp(f, n) /\ s = n)
      BY <1>3, <1>4, <2>2, <3>1 DEF TypeOK
    <3> QED
      BY <1>2, <1>7, <3>1, <3>2
  <2> QED
    BY <1>4, <2>1, <2>2 DEF TypeOK
<1>14. RecvdOK'
  <2> SUFFICES ASSUME NEW g \in Flow
               PROVE  /\ \A s \in got[g] : s <= last_pkt_recvd'[g]
                      /\ \A i \in Slots : seqbuf[g][i] <= last_pkt_recvd'[g]
                      /\ nxt_pkt_expcd'[g] - 1 <= last_pkt_recvd'[g]
                      /\ last_pkt_recvd'[g] <= last_pkt_read'[g] + BUF_SIZE
    BY <1>1 DEF RecvdOK
  <2>1. last_pkt_read[g] <= last_pkt_read'[g]
    BY <1>4, <1>9 DEF ReadOK, TypeOK
  <2>2. last_pkt_recvd'[g] <= last_pkt_read'[g] + BUF_SIZE
    BY <1>6, <1>9, <2>1 DEF TypeOK
  <2>3. /\ \A s \in got[g] : s <= last_pkt_recvd'[g]
        /\ \A i \in Slots : seqbuf[g][i] <= last_pkt_recvd'[g]
    BY <1>6 DEF RecvdOK, TypeOK, Seqs
  <2>4. nxt_pkt_expcd'[g] - 1 <= last_pkt_recvd'[g]
    <3>1. CASE g = f
      BY <1>6, <3>1
    <3>2. CASE g # f
      <4>1. nxt_pkt_expcd'[g] = nxt_pkt_expcd[g] /\ nxt_pkt_expcd[g] \in Nat
        BY <1>4, <3>2 DEF TypeOK
      <4>2. last_pkt_recvd[g] \in Nat /\ last_pkt_recvd'[g] \in Nat
        BY <1>6 DEF TypeOK
      <4>3. nxt_pkt_expcd[g] - 1 <= last_pkt_recvd[g]
        BY DEF RecvdOK
      <4> QED
        BY <1>6, <4>1, <4>2, <4>3
    <3> QED
      BY <3>1, <3>2
  <2> QED
    BY <2>2, <2>3, <2>4
<1>15. ReadOK'
  BY <1>1, <1>4, <1>5, <1>9 DEF ReadOK, TypeOK
<1>16. RingExact'
  <2> SUFFICES ASSUME NEW g \in Flow,
                      NEW t \in nxt_pkt_expcd'[g] .. (nxt_pkt_expcd'[g] + BUF_SIZE - 1)
               PROVE  seqbuf[g][Slot(t)] = t <=> t \in got[g]
    BY <1>1 DEF RingExact
  <2>1. t \in Nat /\ Slot(t) \in Slots /\ t >= nxt_pkt_expcd[g]
    <3>1. t \in Nat /\ t >= nxt_pkt_expcd[g]
      BY <1>4 DEF TypeOK
    <3> QED
      BY <3>1, SlotInRing
  <2>2. CASE t < nxt_pkt_expcd[g] + BUF_SIZE
    BY <2>1, <2>2 DEF RingExact, TypeOK
  <2>3. CASE t >= nxt_pkt_expcd[g] + BUF_SIZE
    <3>1. t > last_pkt_recvd[g]
      BY <2>1, <2>3 DEF RecvdOK, ReadOK, TypeOK
    <3> QED
      BY <2>1, <3>1 DEF RecvdOK, TypeOK, Seqs
  <2> QED
    BY <2>1, <2>2, <2>3 DEF TypeOK
<1> QED
  BY <1>10, <1>11, <1>12, <1>13, <1>14, <1>15, <1>16

(* Every step of either loop preserves the inductive invariant.            *)
LEMMA NextIInv == IInv /\ [Next]_vars => IInv'
<1> SUFFICES ASSUME IInv, [Next]_vars PROVE IInv'
  OBVIOUS
<1>1. CASE Client
  BY <1>1, ClientIterateIInv, ClientRecvIInv, ControlIInv DEF Client
<1>2. CASE Server
  BY <1>2, ServerRxIInv, ServerAckIInv, ControlIInv DEF Server
<1>3. CASE UNCHANGED vars
  BY <1>3, ControlIInv
<1> QED
  BY <1>1, <1>2, <1>3 DEF Next

(* The inductive invariant holds throughout.                               *)
THEOREM InductiveInvariant == Spec => []IInv
BY InitIInv, NextIInv, PTL DEF Spec

(* Type correctness of the two loops and the link.                         *)
THEOREM TypeCorrect == Spec => []TypeOK
<1>1. IInv => TypeOK
  BY DEF IInv
<1> QED
  BY <1>1, InductiveInvariant, PTL

(* The client's uint32_t window arithmetic never wraps and never overruns  *)
(* its arrays, whatever the server advertises.                             *)
THEOREM ClientWindowSafe == Spec => []ClientWindow
<1>1. IInv => ClientWindow
  BY DEF IInv
<1> QED
  BY <1>1, InductiveInvariant, PTL

(* The ring of the server records exactly the packets received.            *)
THEOREM RingSafe == Spec => []RingExact
<1>1. IInv => RingExact
  BY DEF IInv
<1> QED
  BY <1>1, InductiveInvariant, PTL

(* An ack at the client covers received and given-up packets only.         *)
THEOREM AckSafe == Spec => []AckedIsAccountedFor
<1>1. IInv => AckedIsAccountedFor
  BY DEF IInv, LinkOK, ExpectedOK, AckedIsAccountedFor, TypeOK
<1> QED
  BY <1>1, InductiveInvariant, PTL

(* The span of the server's buffer is between 0 and BUF_SIZE.              *)
THEOREM BufferSpanSafe == Spec => []BufferSpan
<1>1. IInv => BufferSpan
  BY ConstantsAssumption DEF IInv, RecvdOK, ReadOK, BufferSpan, TypeOK
<1> QED
  BY <1>1, InductiveInvariant, PTL

(* The server gives up no packet that it has received.                     *)
THEOREM GiveUpSafe == Spec => GivesUpOnlyMissing
<1> DEFINE Missing == \A f \in Flow : (skipped'[f] \ skipped[f]) \cap got[f] = {}
<1>1. IInv /\ [Next]_vars => [Missing]_vars
  <2> SUFFICES ASSUME IInv, Next PROVE Missing
    OBVIOUS
  <2>1. ASSUME NEW f \in Flow, NEW n \in 1 .. MAX_EXPCD, NEW through \in BOOLEAN,
               ServerAck(f, n, through)
        PROVE  Missing
    <3>1. n \notin got[f] /\ (skipped' = skipped \/ skipped' = [skipped EXCEPT ![f] = @ \cup {n}])
      BY <2>1, ScanFacts DEF ServerAck
    <3> QED
      BY <3>1, SMTT(60) DEF IInv, TypeOK
  <2>2. CASE UNCHANGED skipped
    BY <2>2
  <2> QED
    BY <2>1, <2>2 DEF Next, Client, Server, ClientIterate, ClientRecv,
       ClientRecvNothing, ClientStop, ServerRx, ServerRxStop,
       ServerForeignBurst, ServerEndBurst, serverVars
<1> QED
  BY <1>1, InductiveInvariant, PTL DEF Spec, GivesUpOnlyMissing
=============================================================================
