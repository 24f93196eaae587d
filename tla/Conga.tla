------------------------------- MODULE Conga -------------------------------
(***************************************************************************)
(* CONGA load balancing in a two-tier fabric (conga.h, conga.cpp and the   *)
(* routes of test_conga_testbed.cpp).  Leaf switches (ToR) choose a core   *)
(* for every packet from a table of congestion per destination and core;   *)
(* core queues stamp the packet with their congestion; the destination     *)
(* leaf remembers the stamp and feeds it back on packets that travel the   *)
(* other way.                                                              *)
(*                                                                         *)
(* A direction is one route vector of a flow.  All the packets of a        *)
(* direction hold a pointer to the same vector, and updateRoute writes     *)
(* into it: route[d] is the core that the vector names at present, for     *)
(* new and for old packets.  A link's propagation delay is merged with the *)
(* queue in front of it; servers and the links to them are not modelled.   *)
(* Queue lengths are counted in packets and congestion in CE_MAX levels.   *)
(***************************************************************************)
EXTENDS Integers, Sequences

CONSTANTS
  Tor,          \* leaf switches
  N_CORE,       \* number of cores
  Dir,          \* directions: route vectors
  SrcTor,       \* first leaf of a direction
  DstTor,       \* last leaf of a direction
  CORE_BUFFER,  \* capacity of a fabric queue, in packets
  CE_MAX,       \* congestion of a full queue: 2^CE_BITS
  MAX_PKTS      \* bound of the model: packets per direction

Core == 0 .. (N_CORE - 1)
CE == 0 .. CE_MAX

ASSUME CongaAssumption ==
  /\ N_CORE \in Nat \ {0}
  /\ CORE_BUFFER \in Nat \ {0}
  /\ CE_MAX \in Nat
  /\ MAX_PKTS \in Nat
  /\ SrcTor \in [Dir -> Tor] /\ DstTor \in [Dir -> Tor]

VARIABLES
  route,         \* per direction, the core in its route vector
  nxtLbTag,      \* per leaf and peer, the core to feed back next
  CongFromLeaf,  \* per leaf, peer and core: congestion seen from the peer
  CongToLeaf,    \* per leaf, peer and core: congestion fed back by the peer
  up,            \* per core and leaf, qToRCore
  down,          \* per core and leaf, qCoreToR
  regCong,       \* per core and leaf, smoothed congestion of qCoreToR
  sent,          \* per direction, packets that have entered the fabric
  stamped,       \* history: per leaf, congestion put on packets towards it
  seen           \* history: per leaf and peer, <<core, ce>> it has recorded

vars == <<route, nxtLbTag, CongFromLeaf, CongToLeaf, up, down, regCong, sent,
          stamped, seen>>

Packet == [dir : Dir, src : Tor, dst : Tor, lbtag : Core, ce : CE,
           fb_lbtag : Core, fb_ce : CE]

-----------------------------------------------------------------------------
Init ==
  /\ route \in [Dir -> Core]
  /\ nxtLbTag \in [Tor -> [Tor -> Core]]
  /\ CongFromLeaf = [t \in Tor |-> [u \in Tor |-> [c \in Core |-> 0]]]
  /\ CongToLeaf = [t \in Tor |-> [u \in Tor |-> [c \in Core |-> 0]]]
  /\ up = [c \in Core |-> [t \in Tor |-> <<>>]]
  /\ down = [c \in Core |-> [t \in Tor |-> <<>>]]
  /\ regCong = [c \in Core |-> [t \in Tor |-> 0]]
  /\ sent = [d \in Dir |-> 0]
  /\ stamped = [t \in Tor |-> {0}]
  /\ seen = [t \in Tor |-> [u \in Tor |-> Core \X {0}]]

(* Cores of least congestion; the code picks one of them at random.        *)
minCongestedCores(t, u) ==
  {c \in Core : \A e \in Core : CongToLeaf[t][u][c] <= CongToLeaf[t][u][e]}

(* Tail drop: a packet that does not fit is freed.                         *)
Enqueue(q, p) == IF Len(q) < CORE_BUFFER THEN Append(q, p) ELSE q

(* Mutant of SrcHeader: the congestion fed back is that of the chosen core.*)
SrcHeaderOtherCore(d, c) ==
  LET t == SrcTor[d]
      u == DstTor[d]
  IN  [dir |-> d, src |-> t, dst |-> u, lbtag |-> c, ce |-> 0,
       fb_lbtag |-> nxtLbTag[t][u],
       fb_ce |-> CongFromLeaf[t][u][c]]

(* The header that the first leaf puts on a packet.                        *)
SrcHeader(d, c) ==
  LET t == SrcTor[d]
      u == DstTor[d]
  IN  [dir |-> d, src |-> t, dst |-> u, lbtag |-> c, ce |-> 0,
       fb_lbtag |-> nxtLbTag[t][u],
       fb_ce |-> CongFromLeaf[t][u][nxtLbTag[t][u]]]

(* Mutant of updateNxtLbTag: the round robin does not wrap.                *)
NxtLbTagUnbounded(tag) == tag + 1

updateNxtLbTag(tag) == (tag + 1) % N_CORE

(* A packet of direction d reaches its first leaf.  The leaf writes core c *)
(* into the route vector and sends the packet on.                          *)
asSrcToR(d, c) ==
  LET t == SrcTor[d]
      u == DstTor[d]
  IN  /\ sent[d] < MAX_PKTS
      /\ c \in minCongestedCores(t, u)
      /\ sent' = [sent EXCEPT ![d] = @ + 1]
      /\ nxtLbTag' = [nxtLbTag EXCEPT ![t][u] = updateNxtLbTag(@)]
      /\ route' = [route EXCEPT ![d] = c]
      /\ up' = [up EXCEPT ![c][t] = Enqueue(@, SrcHeader(d, c))]
      /\ UNCHANGED <<CongFromLeaf, CongToLeaf, down, regCong, stamped, seen>>

(* Congestion of a queue of length n, in levels.                           *)
Level(n) == (n * CE_MAX) \div CORE_BUFFER

(* The smoothed congestion moves from its old value towards the present    *)
(* one, by an eighth of the distance, or all the way from zero.            *)
updateRegCong(old, new, level) ==
  \/ old <= new /\ new <= level
  \/ level <= new /\ new <= old

(* Mutant of CoreReceive: the packet is stamped after the congestion has   *)
(* been updated with it.                                                   *)
CoreReceiveStampsLate(c, t, r) ==
  LET p == Head(up[c][t])
      e == route[p.dir]
      q == Enqueue(down[e][p.dst], [p EXCEPT !.ce = r])
  IN  /\ up[c][t] # <<>>
      /\ up' = [up EXCEPT ![c][t] = Tail(@)]
      /\ down' = [down EXCEPT ![e][p.dst] = q]
      /\ updateRegCong(regCong[e][p.dst], r, Level(Len(q)))
      /\ regCong' = [regCong EXCEPT ![e][p.dst] = r]
      /\ stamped' = [stamped EXCEPT ![p.dst] = @ \cup {regCong[e][p.dst]}]
      /\ UNCHANGED <<route, nxtLbTag, CongFromLeaf, CongToLeaf, sent, seen>>

(* A packet leaves the queue between leaf t and core c.  The next queue is *)
(* the one its route vector names now: core e, which stamps the packet     *)
(* with the congestion it had before this packet.                          *)
CoreReceive(c, t, r) ==
  LET p == Head(up[c][t])
      e == route[p.dir]
      q == Enqueue(down[e][p.dst], [p EXCEPT !.ce = regCong[e][p.dst]])
  IN  /\ up[c][t] # <<>>
      /\ up' = [up EXCEPT ![c][t] = Tail(@)]
      /\ down' = [down EXCEPT ![e][p.dst] = q]
      /\ updateRegCong(regCong[e][p.dst], r, Level(Len(q)))
      /\ regCong' = [regCong EXCEPT ![e][p.dst] = r]
      /\ stamped' = [stamped EXCEPT ![p.dst] = @ \cup {regCong[e][p.dst]}]
      /\ UNCHANGED <<route, nxtLbTag, CongFromLeaf, CongToLeaf, sent, seen>>

(* A packet reaches its last leaf, which records the congestion of the     *)
(* path and the feedback.                                                  *)
asDstToR(c, t) ==
  LET p == Head(down[c][t])
  IN  /\ down[c][t] # <<>>
      /\ down' = [down EXCEPT ![c][t] = Tail(@)]
      /\ CongToLeaf' = [CongToLeaf EXCEPT ![t][p.src][p.fb_lbtag] = p.fb_ce]
      /\ CongFromLeaf' = [CongFromLeaf EXCEPT ![t][p.src][p.lbtag] = p.ce]
      /\ nxtLbTag' = [nxtLbTag EXCEPT ![t][p.src] = p.lbtag]
      /\ seen' = [seen EXCEPT ![t][p.src] = @ \cup {<<p.lbtag, p.ce>>}]
      /\ UNCHANGED <<route, up, regCong, sent, stamped>>

Next ==
  \/ \E d \in Dir, c \in Core : asSrcToR(d, c)
  \/ \E c \in Core, t \in Tor, r \in CE : CoreReceive(c, t, r)
  \/ \E c \in Core, t \in Tor : asDstToR(c, t)

Spec == Init /\ [][Next]_vars

-----------------------------------------------------------------------------
(* Type invariant of the tables, the queues and the packets in them.       *)
TypeOK ==
  /\ route \in [Dir -> Core]
  /\ nxtLbTag \in [Tor -> [Tor -> Core]]
  /\ CongFromLeaf \in [Tor -> [Tor -> [Core -> CE]]]
  /\ CongToLeaf \in [Tor -> [Tor -> [Core -> CE]]]
  /\ up \in [Core -> [Tor -> Seq(Packet)]]
  /\ down \in [Core -> [Tor -> Seq(Packet)]]
  /\ regCong \in [Core -> [Tor -> CE]]
  /\ sent \in [Dir -> 0 .. MAX_PKTS]
  /\ stamped \in [Tor -> SUBSET CE]
  /\ seen \in [Tor -> [Tor -> SUBSET (Core \X CE)]]

(* What a leaf believes about a path was recorded for that path by the     *)
(* peer: feedback is never attached to another core, another peer or a     *)
(* value the peer did not see, whatever is in flight in both directions.   *)
FeedbackIsSeen ==
  \A t, u \in Tor, c \in Core : <<c, CongToLeaf[t][u][c]>> \in seen[u][t]

(* What a leaf records is congestion that some core queue towards it       *)
(* really had when the packet entered.                                     *)
SeenIsStamped ==
  \A t, u \in Tor, c \in Core : CongFromLeaf[t][u][c] \in stamped[t]

(* Said of the header field lbtag: it is the number of the core that the   *)
(* packet goes through.                                                    *)
LbtagIsCore ==
  \A c \in Core, t \in Tor : \A i \in 1 .. Len(down[c][t]) :
    down[c][t][i].lbtag = c
=============================================================================
