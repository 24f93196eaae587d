---------------------------- MODULE Conga_proofs ----------------------------
(***************************************************************************)
(* The feedback loop of CONGA, for any fabric: any number of leaves,       *)
(* cores, directions and packets.  A header carries a pair <<fb_lbtag,     *)
(* fb_ce>> that its first leaf has recorded for its last leaf, and keeps   *)
(* it while the packet travels, whichever core the packet is taken to.     *)
(***************************************************************************)
EXTENDS Conga, TLAPS

(* A packet carries feedback of the history h of its first leaf.           *)
Fed(p, h) == <<p.fb_lbtag, p.fb_ce>> \in h[p.src][p.dst]

FeedbackOn(q, h) == \A i \in 1 .. Len(q) : Fed(q[i], h)

(* A packet towards leaf t is for t and carries a real stamp.              *)
Stamped(p, t, h) == p.dst = t /\ p.ce \in h[t]

StampOn(q, t, h) == \A i \in 1 .. Len(q) : Stamped(q[i], t, h)

FlightOK ==
  \A c \in Core, t \in Tor :
    /\ FeedbackOn(up[c][t], seen)
    /\ FeedbackOn(down[c][t], seen)
    /\ StampOn(down[c][t], t, stamped)

(* A leaf's own records are in its history.                                *)
RecordOK ==
  \A t, u \in Tor, c \in Core : <<c, CongFromLeaf[t][u][c]>> \in seen[t][u]

(* The inductive invariant.                                                *)
IInv == TypeOK /\ FlightOK /\ RecordOK /\ FeedbackIsSeen /\ SeenIsStamped

-----------------------------------------------------------------------------
(* Round robin over the cores stays among the cores.                       *)
LEMMA NextCore ==
  ASSUME NEW c \in Core
  PROVE  (c + 1) % N_CORE \in Core
<1>1. ASSUME NEW a \in Int, NEW b \in Nat \ {0} PROVE a % b \in 0 .. (b - 1)
  OBVIOUS
<1>2. c + 1 \in Int /\ N_CORE \in Nat \ {0}
  BY CongaAssumption DEF Core
<1> QED
  BY <1>1, <1>2 DEF Core

(* A queue of packets after a tail-drop insertion.                         *)
LEMMA EnqueueFacts ==
  ASSUME NEW q \in Seq(Packet), NEW p \in Packet
  PROVE  /\ Enqueue(q, p) \in Seq(Packet)
         /\ \A i \in 1 .. Len(Enqueue(q, p)) :
              \/ i \in 1 .. Len(q) /\ Enqueue(q, p)[i] = q[i]
              \/ Enqueue(q, p)[i] = p
BY DEF Enqueue

(* A queue of packets after its head has left.                             *)
LEMMA TailFacts ==
  ASSUME NEW q \in Seq(Packet), q # <<>>
  PROVE  /\ Head(q) \in Packet /\ Head(q) = q[1] /\ 1 \in 1 .. Len(q)
         /\ Tail(q) \in Seq(Packet)
         /\ \A i \in 1 .. Len(Tail(q)) : i + 1 \in 1 .. Len(q) /\ Tail(q)[i] = q[i + 1]
OBVIOUS

(* Feedback of the head of a queue and of the packets behind it.           *)
LEMMA FeedbackTail ==
  ASSUME NEW h, NEW q \in Seq(Packet), q # <<>>, FeedbackOn(q, h)
  PROVE  Fed(Head(q), h) /\ FeedbackOn(Tail(q), h)
<1> USE TailFacts
<1>1. Fed(Head(q), h)
  BY DEF FeedbackOn
<1>2. ASSUME NEW i \in 1 .. Len(Tail(q)) PROVE Fed(Tail(q)[i], h)
  <2>1. i + 1 \in 1 .. Len(q) /\ Tail(q)[i] = q[i + 1]
    OBVIOUS
  <2>2. Fed(q[i + 1], h)
    BY <2>1 DEF FeedbackOn
  <2> QED
    BY <2>1, <2>2
<1> QED
  BY <1>1, <1>2 DEF FeedbackOn

(* The same of the stamps.                                                 *)
LEMMA StampTail ==
  ASSUME NEW t, NEW h, NEW q \in Seq(Packet), q # <<>>, StampOn(q, t, h)
  PROVE  Stamped(Head(q), t, h) /\ StampOn(Tail(q), t, h)
<1> USE TailFacts
<1>1. Stamped(Head(q), t, h)
  BY DEF StampOn
<1>2. ASSUME NEW i \in 1 .. Len(Tail(q)) PROVE Stamped(Tail(q)[i], t, h)
  <2>1. i + 1 \in 1 .. Len(q) /\ Tail(q)[i] = q[i + 1]
    OBVIOUS
  <2>2. Stamped(q[i + 1], t, h)
    BY <2>1 DEF StampOn
  <2> QED
    BY <2>1, <2>2
<1> QED
  BY <1>1, <1>2 DEF StampOn

(* A new packet with feedback of the history joins a queue of such.        *)
LEMMA FeedbackEnqueue ==
  ASSUME NEW h, NEW q \in Seq(Packet), NEW p \in Packet, FeedbackOn(q, h), Fed(p, h)
  PROVE  FeedbackOn(Enqueue(q, p), h)
<1>1. ASSUME NEW i \in 1 .. Len(Enqueue(q, p)) PROVE Fed(Enqueue(q, p)[i], h)
  <2>1. CASE i \in 1 .. Len(q) /\ Enqueue(q, p)[i] = q[i]
    <3>1. Fed(q[i], h)
      BY <2>1 DEF FeedbackOn
    <3> QED
      BY <2>1, <3>1
  <2>2. CASE Enqueue(q, p)[i] = p
    BY <2>2
  <2> QED
    BY <2>1, <2>2, EnqueueFacts
<1> QED
  BY <1>1 DEF FeedbackOn

(* A new packet with a stamp of the history joins a queue of such.         *)
LEMMA StampEnqueue ==
  ASSUME NEW t, NEW h, NEW q \in Seq(Packet), NEW p \in Packet,
         StampOn(q, t, h), Stamped(p, t, h)
  PROVE  StampOn(Enqueue(q, p), t, h)
<1>1. ASSUME NEW i \in 1 .. Len(Enqueue(q, p)) PROVE Stamped(Enqueue(q, p)[i], t, h)
  <2>1. CASE i \in 1 .. Len(q) /\ Enqueue(q, p)[i] = q[i]
    <3>1. Stamped(q[i], t, h)
      BY <2>1 DEF StampOn
    <3> QED
      BY <2>1, <3>1
  <2>2. CASE Enqueue(q, p)[i] = p
    BY <2>2
  <2> QED
    BY <2>1, <2>2, EnqueueFacts
<1> QED
  BY <1>1 DEF StampOn

(* Feedback of a history is feedback of a larger one.                      *)
LEMMA FeedbackGrows ==
  ASSUME NEW h, NEW k, NEW q \in Seq(Packet), FeedbackOn(q, h),
         \A t, u \in Tor : h[t][u] \subseteq k[t][u]
  PROVE  FeedbackOn(q, k)
<1>1. ASSUME NEW i \in 1 .. Len(q) PROVE Fed(q[i], k)
  <2>1. q[i].src \in Tor /\ q[i].dst \in Tor
    <3>1. q[i] \in Packet
      OBVIOUS
    <3> QED
      BY <3>1 DEF Packet
  <2>2. Fed(q[i], h)
    BY DEF FeedbackOn
  <2> QED
    BY <2>1, <2>2 DEF Fed
<1> QED
  BY <1>1 DEF FeedbackOn

(* The same of the stamps.                                                 *)
LEMMA StampGrows ==
  ASSUME NEW h, NEW k, NEW t, NEW q, StampOn(q, t, h), h[t] \subseteq k[t]
  PROVE  StampOn(q, t, k)
BY DEF StampOn, Stamped

(* The inductive invariant holds of empty tables and queues.               *)
LEMMA InitIInv == Init => IInv
<1> SUFFICES ASSUME Init PROVE IInv
  OBVIOUS
<1> USE CongaAssumption DEF Init
<1>1. 0 \in CE
  BY DEF CE
<1>2. TypeOK
  <2>1. up \in [Core -> [Tor -> Seq(Packet)]] /\ down \in [Core -> [Tor -> Seq(Packet)]]
    OBVIOUS
  <2>2. seen \in [Tor -> [Tor -> SUBSET (Core \X CE)]] /\ stamped \in [Tor -> SUBSET CE]
    BY <1>1
  <2>3. sent \in [Dir -> 0 .. MAX_PKTS]
    OBVIOUS
  <2> QED
    BY <1>1, <2>1, <2>2, <2>3 DEF TypeOK
<1>3. FlightOK
  <2> SUFFICES ASSUME NEW c \in Core, NEW t \in Tor
               PROVE  /\ FeedbackOn(up[c][t], seen) /\ FeedbackOn(down[c][t], seen)
                      /\ StampOn(down[c][t], t, stamped)
    BY DEF FlightOK
  <2>1. up[c][t] = <<>> /\ down[c][t] = <<>> /\ 1 .. Len(<<>>) = {}
    OBVIOUS
  <2> QED
    BY <2>1 DEF FeedbackOn, StampOn
<1>4. RecordOK /\ FeedbackIsSeen /\ SeenIsStamped
  BY DEF RecordOK, FeedbackIsSeen, SeenIsStamped
<1> QED
  BY <1>2, <1>3, <1>4 DEF IInv

-----------------------------------------------------------------------------
(* One lemma per action: it preserves the inductive invariant.             *)

(* The first leaf puts on the packet a pair it has recorded.               *)
LEMMA asSrcToRIInv ==
  ASSUME IInv, NEW d \in Dir, NEW c \in Core, asSrcToR(d, c)
  PROVE  IInv'
<1> USE CongaAssumption DEF IInv
<1> DEFINE t == SrcTor[d]
           u == DstTor[d]
           p == SrcHeader(d, c)
<1>1. /\ t \in Tor /\ u \in Tor /\ nxtLbTag[t][u] \in Core
      /\ up[c][t] \in Seq(Packet)
  BY SMTT(60) DEF TypeOK
<1>2. /\ p \in Packet /\ p.src = t /\ p.dst = u
      /\ <<p.fb_lbtag, p.fb_ce>> \in seen[t][u]
  <2>1. CongFromLeaf[t][u][nxtLbTag[t][u]] \in CE /\ 0 \in CE
    BY <1>1, SMTT(60) DEF TypeOK, CE
  <2>2. <<nxtLbTag[t][u], CongFromLeaf[t][u][nxtLbTag[t][u]]>> \in seen[t][u]
    BY <1>1 DEF RecordOK
  <2> QED
    BY <1>1, <2>1, <2>2, SMTT(60) DEF SrcHeader, Packet
<1>3. /\ sent[d] < MAX_PKTS
      /\ sent' = [sent EXCEPT ![d] = @ + 1]
      /\ nxtLbTag' = [nxtLbTag EXCEPT ![t][u] = (@ + 1) % N_CORE]
      /\ route' = [route EXCEPT ![d] = c]
      /\ up' = [up EXCEPT ![c][t] = Enqueue(@, p)]
      /\ UNCHANGED <<CongFromLeaf, CongToLeaf, down, regCong, stamped, seen>>
  BY DEF asSrcToR, updateNxtLbTag
<1> HIDE DEF p
<1>4. Enqueue(up[c][t], p) \in Seq(Packet)
  BY <1>1, <1>2, EnqueueFacts
<1>5. TypeOK'
  <2>1. (nxtLbTag[t][u] + 1) % N_CORE \in Core
    BY <1>1, NextCore
  <2>2. nxtLbTag' \in [Tor -> [Tor -> Core]]
    BY <1>1, <1>3, <2>1 DEF TypeOK
  <2>3. sent' \in [Dir -> 0 .. MAX_PKTS] /\ route' \in [Dir -> Core]
    <3>1. sent \in [Dir -> 0 .. MAX_PKTS]
      BY DEF TypeOK
    <3>2. sent[d] + 1 \in 0 .. MAX_PKTS
      <4>1. sent[d] \in 0 .. MAX_PKTS /\ sent[d] < MAX_PKTS
        BY <1>3, <3>1
      <4> QED
        BY <4>1
    <3>3. route \in [Dir -> Core]
      BY DEF TypeOK
    <3> QED
      BY <1>3, <3>1, <3>2, <3>3
  <2>4. up' \in [Core -> [Tor -> Seq(Packet)]]
    BY <1>1, <1>3, <1>4 DEF TypeOK
  <2> QED
    BY <1>3, <2>2, <2>3, <2>4 DEF TypeOK
<1>6. FlightOK'
  <2> SUFFICES ASSUME NEW e \in Core, NEW v \in Tor
               PROVE  /\ FeedbackOn(up'[e][v], seen)
                      /\ FeedbackOn(down[e][v], seen)
                      /\ StampOn(down[e][v], v, stamped)
    BY <1>3 DEF FlightOK
  <2>1. /\ FeedbackOn(up[e][v], seen) /\ FeedbackOn(down[e][v], seen)
        /\ StampOn(down[e][v], v, stamped)
    BY DEF FlightOK
  <2>2. CASE e = c /\ v = t
    <3>1. up'[e][v] = Enqueue(up[c][t], p)
      BY <1>1, <1>3, <2>2 DEF TypeOK
    <3>2. Fed(p, seen)
      BY <1>2 DEF Fed
    <3>3. FeedbackOn(up[c][t], seen)
      BY <2>1, <2>2
    <3>4. FeedbackOn(Enqueue(up[c][t], p), seen)
      BY <1>1, <1>2, <3>2, <3>3, FeedbackEnqueue
    <3> QED
      BY <2>1, <3>1, <3>4
  <2>3. CASE ~ (e = c /\ v = t)
    <3>1. up'[e][v] = up[e][v]
      BY <1>1, <1>3, <2>3 DEF TypeOK
    <3> QED
      BY <2>1, <3>1
  <2> QED
    BY <2>2, <2>3
<1>7. RecordOK' /\ FeedbackIsSeen' /\ SeenIsStamped'
  BY <1>3, SMTT(30) DEF RecordOK, FeedbackIsSeen, SeenIsStamped
<1> QED
  BY <1>5, <1>6, <1>7

(* A core that stamps a packet changes neither its feedback nor its last   *)
(* leaf, even when the route vector takes the packet to another core.      *)
LEMMA CoreReceiveIInv ==
  ASSUME IInv, NEW c \in Core, NEW t \in Tor, NEW r \in CE, CoreReceive(c, t, r)
  PROVE  IInv'
<1> USE CongaAssumption DEF IInv
<1> DEFINE p == Head(up[c][t])
           e == route[p.dir]
           s == [p EXCEPT !.ce = regCong[e][p.dst]]
           q == Enqueue(down[e][p.dst], s)
<1>1. /\ up[c][t] # <<>> /\ up[c][t] \in Seq(Packet)
      /\ up' = [up EXCEPT ![c][t] = Tail(@)]
      /\ down' = [down EXCEPT ![e][p.dst] = q]
      /\ regCong' = [regCong EXCEPT ![e][p.dst] = r]
      /\ stamped' = [stamped EXCEPT ![p.dst] = @ \cup {regCong[e][p.dst]}]
      /\ UNCHANGED <<route, nxtLbTag, CongFromLeaf, CongToLeaf, sent, seen>>
  BY ZenonT(60) DEF CoreReceive, TypeOK
<1>2. /\ p \in Packet /\ p = up[c][t][1] /\ 1 \in 1 .. Len(up[c][t])
      /\ Tail(up[c][t]) \in Seq(Packet)
  BY <1>1, TailFacts, Zenon
<1> HIDE DEF p
<1>3. /\ p.dir \in Dir /\ p.src \in Tor /\ p.dst \in Tor /\ e \in Core
      /\ regCong[e][p.dst] \in CE /\ down[e][p.dst] \in Seq(Packet)
  <2>1. p.dir \in Dir /\ p.src \in Tor /\ p.dst \in Tor
    BY <1>2 DEF Packet
  <2>2. e \in Core
    BY <2>1 DEF TypeOK
  <2> HIDE DEF e
  <2> QED
    BY <2>1, <2>2, ZenonT(60) DEF TypeOK
<1>4. Fed(p, seen) /\ FeedbackOn(Tail(up[c][t]), seen)
  <2>1. FeedbackOn(up[c][t], seen)
    BY DEF FlightOK
  <2> QED
    BY <1>1, <2>1, FeedbackTail, Zenon DEF p
<1> HIDE DEF e
<1>5. /\ s \in Packet /\ s.src = p.src /\ s.dst = p.dst
      /\ s.ce = regCong[e][p.dst]
      /\ s.fb_lbtag = p.fb_lbtag /\ s.fb_ce = p.fb_ce
  BY <1>2, <1>3 DEF Packet
<1> HIDE DEF s
<1>6. q \in Seq(Packet)
  BY <1>3, <1>5, EnqueueFacts
<1> HIDE DEF q
<1>7. TypeOK'
  <2>1. up' \in [Core -> [Tor -> Seq(Packet)]]
    BY <1>1, <1>2 DEF TypeOK
  <2>2. down' \in [Core -> [Tor -> Seq(Packet)]]
    BY <1>1, <1>3, <1>6 DEF TypeOK
  <2>3. regCong' \in [Core -> [Tor -> CE]] /\ stamped' \in [Tor -> SUBSET CE]
    BY <1>1, <1>3 DEF TypeOK
  <2> QED
    BY <1>1, <2>1, <2>2, <2>3 DEF TypeOK
<1>8. \A u \in Tor : stamped[u] \subseteq stamped'[u]
  BY <1>1, <1>3 DEF TypeOK
<1>9. regCong[e][p.dst] \in stamped'[p.dst]
  BY <1>1, <1>3 DEF TypeOK
<1>10. FeedbackOn(q, seen) /\ StampOn(q, p.dst, stamped')
  <2>1. FeedbackOn(down[e][p.dst], seen) /\ StampOn(down[e][p.dst], p.dst, stamped)
    BY <1>3 DEF FlightOK
  <2>2. StampOn(down[e][p.dst], p.dst, stamped')
    BY <1>3, <1>8, <2>1, StampGrows
  <2>3. Fed(s, seen) /\ Stamped(s, p.dst, stamped')
    BY <1>4, <1>5, <1>9 DEF Fed, Stamped
  <2>4. FeedbackOn(q, seen)
    BY <1>3, <1>5, <2>1, <2>3, FeedbackEnqueue DEF q
  <2>5. StampOn(q, p.dst, stamped')
    BY <1>3, <1>5, <2>2, <2>3, StampEnqueue DEF q
  <2> QED
    BY <2>4, <2>5
<1>11. FlightOK'
  <2> SUFFICES ASSUME NEW h \in Core, NEW v \in Tor
               PROVE  /\ FeedbackOn(up'[h][v], seen)
                      /\ FeedbackOn(down'[h][v], seen)
                      /\ StampOn(down'[h][v], v, stamped')
    BY <1>1 DEF FlightOK
  <2>1. /\ FeedbackOn(up[h][v], seen) /\ FeedbackOn(down[h][v], seen)
        /\ StampOn(down[h][v], v, stamped)
    BY DEF FlightOK
  <2>2. FeedbackOn(up'[h][v], seen)
    <3>1. CASE h = c /\ v = t
      <4>1. up'[h][v] = Tail(up[c][t])
        BY <1>1, <3>1 DEF TypeOK
      <4> QED
        BY <1>4, <4>1
    <3>2. CASE ~ (h = c /\ v = t)
      <4>1. up'[h][v] = up[h][v]
        BY <1>1, <3>2 DEF TypeOK
      <4> QED
        BY <2>1, <4>1
    <3> QED
      BY <3>1, <3>2
  <2>3. FeedbackOn(down'[h][v], seen) /\ StampOn(down'[h][v], v, stamped')
    <3>1. CASE h = e /\ v = p.dst
      <4>1. down'[h][v] = q
        BY <1>1, <1>3, <3>1 DEF TypeOK
      <4> QED
        BY <1>10, <3>1, <4>1
    <3>2. CASE ~ (h = e /\ v = p.dst)
      <4>1. down'[h][v] = down[h][v]
        BY <1>1, <1>3, <3>2 DEF TypeOK
      <4>2. StampOn(down[h][v], v, stamped')
        BY <1>8, <2>1, StampGrows
      <4> QED
        BY <2>1, <4>1, <4>2
    <3> QED
      BY <3>1, <3>2
  <2> QED
    BY <2>2, <2>3
<1>12. RecordOK' /\ FeedbackIsSeen' /\ SeenIsStamped'
  <2>1. UNCHANGED <<seen, CongFromLeaf, CongToLeaf>>
    BY <1>1
  <2>2. RecordOK /\ FeedbackIsSeen /\ SeenIsStamped
    OBVIOUS
  <2>3. RecordOK' /\ FeedbackIsSeen'
    BY ONLY <2>1, <2>2 DEF RecordOK, FeedbackIsSeen
  <2>4. SeenIsStamped'
    BY ONLY <1>8, <2>1, <2>2 DEF SeenIsStamped
  <2> QED
    BY <2>3, <2>4
<1> QED
  BY <1>7, <1>11, <1>12

(* The last leaf files the stamp and the feedback of a packet under the    *)
(* cores the header names.                                                 *)
LEMMA asDstToRIInv ==
  ASSUME IInv, NEW c \in Core, NEW t \in Tor, asDstToR(c, t)
  PROVE  IInv'
<1> USE CongaAssumption DEF IInv
<1> DEFINE p == Head(down[c][t])
<1>0. down[c][t] \in Seq(Packet)
  <2>1. down \in [Core -> [Tor -> Seq(Packet)]]
    BY DEF TypeOK
  <2> QED
    BY ONLY <2>1, c \in Core, t \in Tor, ZenonT(60)
<1>1. /\ down[c][t] # <<>>
      /\ down' = [down EXCEPT ![c][t] = Tail(@)]
      /\ CongToLeaf' = [CongToLeaf EXCEPT ![t][p.src][p.fb_lbtag] = p.fb_ce]
      /\ CongFromLeaf' = [CongFromLeaf EXCEPT ![t][p.src][p.lbtag] = p.ce]
      /\ nxtLbTag' = [nxtLbTag EXCEPT ![t][p.src] = p.lbtag]
      /\ seen' = [seen EXCEPT ![t][p.src] = @ \cup {<<p.lbtag, p.ce>>}]
      /\ UNCHANGED <<route, up, regCong, sent, stamped>>
  BY ONLY asDstToR(c, t), ZenonT(60) DEF asDstToR, p
<1>2. /\ p \in Packet /\ p = down[c][t][1] /\ 1 \in 1 .. Len(down[c][t])
      /\ Tail(down[c][t]) \in Seq(Packet)
  BY ONLY <1>0, <1>1, TailFacts, ZenonT(60) DEF p
<1> HIDE DEF p
<1>3. /\ p.src \in Tor /\ p.lbtag \in Core /\ p.ce \in CE
      /\ p.fb_lbtag \in Core /\ p.fb_ce \in CE
  BY <1>2 DEF Packet
<1>4. /\ p.dst = t /\ p.ce \in stamped[t]
      /\ <<p.fb_lbtag, p.fb_ce>> \in seen[p.src][t]
      /\ FeedbackOn(Tail(down[c][t]), seen) /\ StampOn(Tail(down[c][t]), t, stamped)
  <2>1. FeedbackOn(down[c][t], seen) /\ StampOn(down[c][t], t, stamped)
    <3>1. FlightOK
      OBVIOUS
    <3> QED
      BY ONLY <3>1, c \in Core, t \in Tor DEF FlightOK
  <2>2. Fed(p, seen) /\ FeedbackOn(Tail(down[c][t]), seen)
    BY ONLY <1>0, <1>1, <2>1, FeedbackTail, ZenonT(60) DEF p
  <2>3. Stamped(p, t, stamped) /\ StampOn(Tail(down[c][t]), t, stamped)
    BY ONLY <1>0, <1>1, <2>1, StampTail, ZenonT(60) DEF p
  <2> QED
    BY <2>2, <2>3 DEF Fed, Stamped
<1>5. TypeOK'
  <2>1. down' \in [Core -> [Tor -> Seq(Packet)]]
    BY <1>1, <1>2 DEF TypeOK
  <2>2. CongToLeaf' \in [Tor -> [Tor -> [Core -> CE]]]
    <3>1. CongToLeaf \in [Tor -> [Tor -> [Core -> CE]]]
      BY DEF TypeOK
    <3>2. CongToLeaf' = [CongToLeaf EXCEPT ![t][p.src][p.fb_lbtag] = p.fb_ce]
      BY <1>1
    <3>3. p.src \in Tor /\ p.fb_lbtag \in Core /\ p.fb_ce \in CE
      BY <1>3
    <3> QED
      BY ONLY <3>1, <3>2, <3>3, t \in Tor
  <2>3. CongFromLeaf' \in [Tor -> [Tor -> [Core -> CE]]]
    <3>1. CongFromLeaf \in [Tor -> [Tor -> [Core -> CE]]]
      BY DEF TypeOK
    <3>2. CongFromLeaf' = [CongFromLeaf EXCEPT ![t][p.src][p.lbtag] = p.ce]
      BY <1>1
    <3>3. p.src \in Tor /\ p.lbtag \in Core /\ p.ce \in CE
      BY <1>3
    <3> QED
      BY ONLY <3>1, <3>2, <3>3, t \in Tor
  <2>4. nxtLbTag' \in [Tor -> [Tor -> Core]]
    BY <1>1, <1>3 DEF TypeOK
  <2>5. seen' \in [Tor -> [Tor -> SUBSET (Core \X CE)]]
    <3>1. <<p.lbtag, p.ce>> \in Core \X CE
      BY <1>3
    <3>2. seen \in [Tor -> [Tor -> SUBSET (Core \X CE)]]
      BY DEF TypeOK
    <3>3. seen[t][p.src] \cup {<<p.lbtag, p.ce>>} \in SUBSET (Core \X CE)
      BY <1>3, <3>1, <3>2
    <3> QED
      BY <1>1, <1>3, <3>2, <3>3
  <2> QED
    BY <1>1, <2>1, <2>2, <2>3, <2>4, <2>5 DEF TypeOK
<1>6. /\ \A u, v \in Tor : seen[u][v] \subseteq seen'[u][v]
      /\ <<p.lbtag, p.ce>> \in seen'[t][p.src]
  BY <1>1, <1>3 DEF TypeOK
<1>7. FlightOK'
  <2> SUFFICES ASSUME NEW h \in Core, NEW v \in Tor
               PROVE  /\ FeedbackOn(up[h][v], seen')
                      /\ FeedbackOn(down'[h][v], seen')
                      /\ StampOn(down'[h][v], v, stamped)
    BY <1>1 DEF FlightOK
  <2>1. /\ FeedbackOn(up[h][v], seen) /\ FeedbackOn(down[h][v], seen)
        /\ StampOn(down[h][v], v, stamped)
        /\ up[h][v] \in Seq(Packet) /\ down[h][v] \in Seq(Packet)
    BY DEF FlightOK, TypeOK
  <2>2. FeedbackOn(up[h][v], seen')
    BY <1>6, <2>1, FeedbackGrows
  <2>3. CASE h = c /\ v = t
    <3>1. down'[h][v] = Tail(down[c][t])
      BY <1>1, <2>3 DEF TypeOK
    <3>2. FeedbackOn(Tail(down[c][t]), seen')
      BY <1>2, <1>4, <1>6, FeedbackGrows
    <3> QED
      BY <1>4, <2>2, <2>3, <3>1, <3>2
  <2>4. CASE ~ (h = c /\ v = t)
    <3>1. down'[h][v] = down[h][v]
      BY <1>1, <2>4 DEF TypeOK
    <3>2. FeedbackOn(down[h][v], seen')
      BY <1>6, <2>1, FeedbackGrows
    <3> QED
      BY <2>1, <2>2, <3>1, <3>2
  <2> QED
    BY <2>3, <2>4
<1>8. \A x, u \in Tor, e \in Core :
        CongFromLeaf'[x][u][e] =
          IF x = t /\ u = p.src /\ e = p.lbtag THEN p.ce ELSE CongFromLeaf[x][u][e]
  <2>1. CongFromLeaf \in [Tor -> [Tor -> [Core -> CE]]]
    BY DEF TypeOK
  <2>2. CongFromLeaf' = [CongFromLeaf EXCEPT ![t][p.src][p.lbtag] = p.ce]
    BY <1>1
  <2>3. p.src \in Tor /\ p.lbtag \in Core
    BY <1>3
  <2> QED
    BY ONLY <2>1, <2>2, <2>3, t \in Tor
<1>9. \A x, u \in Tor, e \in Core :
        CongToLeaf'[x][u][e] =
          IF x = t /\ u = p.src /\ e = p.fb_lbtag THEN p.fb_ce ELSE CongToLeaf[x][u][e]
  <2>1. CongToLeaf \in [Tor -> [Tor -> [Core -> CE]]]
    BY DEF TypeOK
  <2>2. CongToLeaf' = [CongToLeaf EXCEPT ![t][p.src][p.fb_lbtag] = p.fb_ce]
    BY <1>1
  <2>3. p.src \in Tor /\ p.fb_lbtag \in Core
    BY <1>3
  <2> QED
    BY ONLY <2>1, <2>2, <2>3, t \in Tor
<1>10. RecordOK'
  <2> SUFFICES ASSUME NEW x \in Tor, NEW u \in Tor, NEW e \in Core
               PROVE  <<e, CongFromLeaf'[x][u][e]>> \in seen'[x][u]
    BY DEF RecordOK
  <2>1. CASE x = t /\ u = p.src /\ e = p.lbtag
    BY <1>6, <1>8, <2>1
  <2>2. CASE ~ (x = t /\ u = p.src /\ e = p.lbtag)
    <3>1. CongFromLeaf'[x][u][e] = CongFromLeaf[x][u][e]
      BY <1>8, <2>2
    <3>2. <<e, CongFromLeaf[x][u][e]>> \in seen[x][u]
      BY DEF RecordOK
    <3> QED
      BY <1>6, <3>1, <3>2
  <2> QED
    BY <2>1, <2>2
<1>11. FeedbackIsSeen'
  <2> SUFFICES ASSUME NEW x \in Tor, NEW u \in Tor, NEW e \in Core
               PROVE  <<e, CongToLeaf'[x][u][e]>> \in seen'[u][x]
    BY DEF FeedbackIsSeen
  <2>1. CASE x = t /\ u = p.src /\ e = p.fb_lbtag
    BY <1>3, <1>4, <1>6, <1>9, <2>1
  <2>2. CASE ~ (x = t /\ u = p.src /\ e = p.fb_lbtag)
    <3>1. CongToLeaf'[x][u][e] = CongToLeaf[x][u][e]
      BY <1>9, <2>2
    <3>2. <<e, CongToLeaf[x][u][e]>> \in seen[u][x]
      BY DEF FeedbackIsSeen
    <3> QED
      BY <1>6, <3>1, <3>2
  <2> QED
    BY <2>1, <2>2
<1>12. SeenIsStamped'
  BY <1>1, <1>4, <1>8 DEF SeenIsStamped
<1> QED
  BY <1>5, <1>7, <1>10, <1>11, <1>12

(* Every step of a leaf or a core preserves the inductive invariant.       *)
LEMMA NextIInv == IInv /\ [Next]_vars => IInv'
<1> SUFFICES ASSUME IInv, [Next]_vars PROVE IInv'
  OBVIOUS
<1>1. CASE Next
  BY <1>1, asSrcToRIInv, CoreReceiveIInv, asDstToRIInv DEF Next
<1>2. CASE UNCHANGED vars
  BY <1>2 DEF vars, IInv, TypeOK, FlightOK, RecordOK, FeedbackIsSeen, SeenIsStamped
<1> QED
  BY <1>1, <1>2

(* The inductive invariant holds throughout.                               *)
THEOREM InductiveInvariant == Spec => []IInv
BY InitIInv, NextIInv, PTL DEF Spec

(* Type correctness of the tables, the queues and the packets.             *)
THEOREM TypeCorrect == Spec => []TypeOK
<1>1. IInv => TypeOK
  BY DEF IInv
<1> QED
  BY <1>1, InductiveInvariant, PTL

(* Feedback that reaches a leaf was recorded by its peer, for that core.   *)
THEOREM FeedbackSound == Spec => []FeedbackIsSeen
<1>1. IInv => FeedbackIsSeen
  BY DEF IInv
<1> QED
  BY <1>1, InductiveInvariant, PTL

(* A leaf records only congestion that a core queue really had.            *)
THEOREM StampSound == Spec => []SeenIsStamped
<1>1. IInv => SeenIsStamped
  BY DEF IInv
<1> QED
  BY <1>1, InductiveInvariant, PTL
=============================================================================
