---------------------------- MODULE Routes_proofs ----------------------------
(***************************************************************************)
(* The routes of both testbeds, for networks of any size, and any number   *)
(* of packets: a route vector is a path at every moment, also of the flow  *)
(* whose vectors the leaf switches rewrite, the acks take the way of the   *)
(* data back, and every packet meets the elements of its vector.           *)
(***************************************************************************)
EXTENDS Routes, NatLemmas

(* What a route is made of.                                                *)
ServerIds == [tree : Nat, tor : Nat, svr : Nat]
Nodes == {ServerNode(x) : x \in ServerIds} \cup {TorNode(x, y) : x, y \in Nat}
         \cup {AggNode(x, y) : x, y \in Nat} \cup {CoreNode(x, y) : x, y \in Nat}
Kinds == {"queue", "pipe", "tor", "endhostQ", "end"}
Elements == [kind : Kinds, from : Nodes, to : Nodes]

PacketType == [dir : Directions, nexthop : Nat, in : Elements, passed : BOOLEAN]

(* The route vector of one direction of a CONGA flow is this one, through  *)
(* the core.  Forward it begins with the queue of the end host.            *)
First0(dir) == IF dir = "fwd" THEN 1 ELSE 0
SrcTor(dir) == TorNode(0, IF dir = "fwd" THEN flow.src.tor ELSE flow.dst.tor)
DstTor(dir) == TorNode(0, IF dir = "fwd" THEN flow.dst.tor ELSE flow.src.tor)

Through(r, dir, core) ==
  LET o == First0(dir)
  IN  /\ r \in Seq(Elements) /\ Len(r) = o + 11
      /\ o = 1 => r[1] = At("endhostQ", Start(dir))
      /\ r[o + 1] = Element("queue", Start(dir), SrcTor(dir))
      /\ r[o + 2] = Element("pipe", Start(dir), SrcTor(dir))
      /\ r[o + 3] = At("tor", SrcTor(dir))
      /\ r[o + 4] = Element("queue", SrcTor(dir), core)
      /\ r[o + 5] = Element("pipe", SrcTor(dir), core)
      /\ r[o + 6] = Element("queue", core, DstTor(dir))
      /\ r[o + 7] = Element("pipe", core, DstTor(dir))
      /\ r[o + 8] = At("tor", DstTor(dir))
      /\ r[o + 9] = Element("queue", DstTor(dir), Finish(dir))
      /\ r[o + 10] = Element("pipe", DstTor(dir), Finish(dir))
      /\ r[o + 11] = At("end", Finish(dir))

CongaCores == {CoreNode(0, k) : k \in Below(N_CORE)}

(* The route vectors: those of a CONGA flow go through one core or other,  *)
(* those of the other flows never change and have no leaf switches in them.*)
VectorsOK ==
  /\ flow.src \in ServerIds /\ flow.dst \in ServerIds
  /\ route \in [Directions -> Seq(Elements)]
  /\ flow.testbed = "conga" =>
       /\ flow.src.tor # flow.dst.tor
       /\ \A dir \in Directions : \E core \in CongaCores : Through(route[dir], dir, core)
  /\ flow.testbed # "conga" =>
       /\ RoutesConnect /\ AcksReturn
       /\ \A dir \in Directions :
            Len(route[dir]) >= 2 /\ \A i \in 1 .. Len(route[dir]) : route[dir][i].kind # "tor"

(* A packet is where its vector has it, cores apart, before the last hop,  *)
(* and with CONGA it has the flag from the core queue on.                  *)
OnCourse(p) ==
  LET r == route[p.dir]
  IN  /\ p.nexthop \in 1 .. (Len(r) - 1)
      /\ SameButCore(p.in, r[p.nexthop])
      /\ flow.testbed = "conga" => (p.passed <=> p.nexthop >= First0(p.dir) + 6)

GoodPackets == {p \in PacketType : OnCourse(p)}

(* Sequence r is a path from node a to node b without leaf switches and    *)
(* without end, its pipes are those of the links L, each in it once.       *)
LinksOf(r) == {<<r[i].from, r[i].to>> : i \in Pipes(r)}
Ends(L) == {l[2] : l \in L}
Flip(L) == {<<l[2], l[1]>> : l \in L}

Path(r, a, b, L) ==
  /\ r \in Seq(Elements) /\ Len(r) >= 1
  /\ r[1].from = a /\ r[1].kind # "pipe"
  /\ r[Len(r)].to = b /\ r[Len(r)].kind # "queue"
  /\ \A i \in 1 .. Len(r) : r[i].kind \notin {"tor", "end"}
  /\ \A i \in 1 .. (Len(r) - 1) :
       IF r[i].kind = "queue" THEN r[i + 1] = [r[i] EXCEPT !.kind = "pipe"]
       ELSE r[i + 1].kind # "pipe" /\ r[i + 1].from = r[i].to
  /\ LinksOf(r) = L
  /\ \A i, j \in Pipes(r) : i # j => r[i].to # r[j].to

(* The links between the switches of a route of the fat tree, and of one   *)
(* of the CONGA testbed with ecmp.                                         *)
Hop(a, b) == {<<a, b>>}

TreeLinks(a, b, agg, uplink) ==
  LET tor == TorNode(a.tree, a.tor)
      tor1 == TorNode(b.tree, b.tor)
      up == AggNode(a.tree, agg)
      down == AggNode(b.tree, agg)
      core == CoreNode(agg, uplink)
  IN  Hop(ServerNode(a), tor)
      \cup (IF tor = tor1 THEN {}
            ELSE Hop(tor, up)
                 \cup (IF a.tree = b.tree THEN {} ELSE Hop(up, core) \cup Hop(core, down))
                 \cup Hop(down, tor1))
      \cup Hop(tor1, ServerNode(b))

EcmpLinks(a, b, core) ==
  LET leaf(x) == TorNode(0, x.tor)
  IN  Hop(ServerNode(a), leaf(a)) \cup Hop(leaf(a), CoreNode(0, core))
      \cup Hop(CoreNode(0, core), leaf(b)) \cup Hop(leaf(b), ServerNode(b))

(* The inductive invariant.                                                *)
IInv == VectorsOK /\ packets \in Seq(GoodPackets)

-----------------------------------------------------------------------------
(* The nodes.                                                              *)

(* Nodes of different kinds, and different nodes of a kind, are different. *)
LEMMA NodesApart ==
  /\ \A x, y \in ServerIds : ServerNode(x) = ServerNode(y) => x = y
  /\ \A x, y, t, u \in Nat : /\ TorNode(x, y) = TorNode(t, u) => x = t /\ y = u
                             /\ AggNode(x, y) = AggNode(t, u) => x = t /\ y = u
                             /\ TorNode(x, y) # AggNode(t, u)
                             /\ TorNode(x, y) # CoreNode(t, u)
                             /\ AggNode(x, y) # CoreNode(t, u)
  /\ \A x \in ServerIds, t, u \in Nat : /\ ServerNode(x) # TorNode(t, u)
                                        /\ ServerNode(x) # AggNode(t, u)
                                        /\ ServerNode(x) # CoreNode(t, u)
<1> DEFINE K(n) == n[1]
<1>1. \A x \in ServerIds : K(ServerNode(x)) = "server"
  BY DEF ServerNode
<1>2. \A t, u \in Nat : K(TorNode(t, u)) = "tor" /\ K(AggNode(t, u)) = "agg" /\ K(CoreNode(t, u)) = "core"
  BY DEF TorNode, AggNode, CoreNode
<1>3. ASSUME NEW x \in ServerIds, NEW y \in ServerIds, ServerNode(x) = ServerNode(y)
      PROVE  x = y
  <2>1. x.tree = y.tree /\ x.tor = y.tor /\ x.svr = y.svr
    BY <1>3 DEF ServerNode
  <2> QED
    BY <2>1 DEF ServerIds
<1>4. \A x, y, t, u \in Nat : /\ TorNode(x, y) = TorNode(t, u) => x = t /\ y = u
                              /\ AggNode(x, y) = AggNode(t, u) => x = t /\ y = u
  BY DEF TorNode, AggNode
<1> HIDE DEF K
<1> QED
  BY <1>1, <1>2, <1>3, <1>4

(* The cores are cores.                                                    *)
LEMMA CoresFacts ==
  /\ CongaCores \subseteq Cores
  /\ \A n \in Cores : \E x, y \in Nat : n = CoreNode(x, y)
  /\ \A x \in ServerIds : ServerNode(x) \notin Cores /\ ServerNode(x) # <<"core">>
  /\ \A x, y \in Nat : TorNode(x, y) \notin Cores /\ TorNode(x, y) # <<"core">>
<1>1. CongaCores \subseteq Cores
  BY DEF CongaCores, Cores
<1>2. \A n \in Cores : \E x, y \in Nat : n = CoreNode(x, y)
  <2>1. Below(N_AGG) \subseteq Nat /\ Below(N_UPLINK) \subseteq Nat /\ Below(N_CORE) \subseteq Nat
    BY DEF Below
  <2>2. 0 \in Nat
    OBVIOUS
  <2> QED
    BY <2>1, <2>2 DEF Cores
<1>3. \A x \in ServerIds : ServerNode(x) # <<"core">>
  <2>1. \A x \in ServerIds : ServerNode(x)[1] = "server" /\ <<"core">>[1] = "core"
    BY DEF ServerNode
  <2> QED
    BY <2>1
<1>4. \A x, y \in Nat : TorNode(x, y) # <<"core">>
  <2>1. \A x, y \in Nat : TorNode(x, y)[1] = "tor" /\ <<"core">>[1] = "core"
    BY DEF TorNode
  <2> QED
    BY <2>1
<1> QED
  BY <1>1, <1>2, <1>3, <1>4, NodesApart

(* Elements and their fields.                                              *)
LEMMA ElementFacts ==
  ASSUME NEW kind \in Kinds, NEW a \in Nodes, NEW b \in Nodes
  PROVE  /\ Element(kind, a, b) \in Elements /\ At(kind, a) \in Elements
         /\ Element(kind, a, b).kind = kind /\ At(kind, a).kind = kind
         /\ Element(kind, a, b).from = a /\ At(kind, a).from = a
         /\ Element(kind, a, b).to = b /\ At(kind, a).to = a
BY DEF Element, At, Elements

(* The nodes of a flow are nodes.                                          *)
LEMMA NodesAreNodes ==
  /\ \A x \in ServerIds : ServerNode(x) \in Nodes
  /\ \A x, y \in Nat : TorNode(x, y) \in Nodes /\ AggNode(x, y) \in Nodes /\ CoreNode(x, y) \in Nodes
BY DEF Nodes

-----------------------------------------------------------------------------
(* The vectors of a CONGA flow.                                            *)

(* The nodes of a CONGA flow, all different.                               *)
LEMMA FlowNodes ==
  ASSUME flow.src \in ServerIds, flow.dst \in ServerIds, flow.src.tor # flow.dst.tor,
         NEW dir \in Directions, NEW core \in CongaCores
  PROVE  /\ Start(dir) \in Nodes /\ Finish(dir) \in Nodes
         /\ SrcTor(dir) \in Nodes /\ DstTor(dir) \in Nodes /\ core \in Nodes
         /\ Start(dir) # Finish(dir) /\ Start(dir) # SrcTor(dir) /\ Start(dir) # DstTor(dir)
         /\ Start(dir) # core /\ Finish(dir) # SrcTor(dir) /\ Finish(dir) # DstTor(dir)
         /\ Finish(dir) # core /\ SrcTor(dir) # DstTor(dir) /\ SrcTor(dir) # core
         /\ DstTor(dir) # core
         /\ core \in Cores /\ Start(dir) \notin Cores /\ Finish(dir) \notin Cores
         /\ SrcTor(dir) \notin Cores /\ DstTor(dir) \notin Cores
         /\ Start(dir) # <<"core">> /\ Finish(dir) # <<"core">>
         /\ SrcTor(dir) # <<"core">> /\ DstTor(dir) # <<"core">>
<1>1. PICK a \in ServerIds, b \in ServerIds, x \in Nat, y \in Nat :
        /\ Start(dir) = ServerNode(a) /\ Finish(dir) = ServerNode(b) /\ a # b
        /\ SrcTor(dir) = TorNode(0, x) /\ DstTor(dir) = TorNode(0, y) /\ x # y
  <2>1. flow.src.tor \in Nat /\ flow.dst.tor \in Nat
    BY DEF ServerIds
  <2>2. CASE dir = "fwd"
    BY <2>1, <2>2 DEF Start, Finish, SrcTor, DstTor
  <2>3. CASE dir = "rev"
    BY <2>1, <2>3 DEF Start, Finish, SrcTor, DstTor
  <2> QED
    BY <2>2, <2>3 DEF Directions
<1>2. PICK k \in Nat : core = CoreNode(0, k)
  BY DEF CongaCores, Below
<1>3. 0 \in Nat
  OBVIOUS
<1> QED
  BY <1>1, <1>2, <1>3, NodesApart, NodesAreNodes, CoresFacts

(* The kinds and the nodes of the elements of such a vector.               *)
LEMMA ThroughFields ==
  ASSUME flow.src \in ServerIds, flow.dst \in ServerIds, flow.src.tor # flow.dst.tor,
         NEW dir \in Directions, NEW core \in CongaCores, NEW r, Through(r, dir, core)
  PROVE  LET o == First0(dir)
             s == Start(dir)
             f == Finish(dir)
             a == SrcTor(dir)
             b == DstTor(dir)
         IN  /\ r \in Seq(Elements) /\ Len(r) = o + 11 /\ o \in {0, 1}
             /\ o = 1 => r[1].kind = "endhostQ" /\ r[1].from = s /\ r[1].to = s
             /\ r[o + 1].kind = "queue" /\ r[o + 1].from = s /\ r[o + 1].to = a
             /\ r[o + 2].kind = "pipe" /\ r[o + 2].from = s /\ r[o + 2].to = a
             /\ r[o + 3].kind = "tor" /\ r[o + 3].from = a /\ r[o + 3].to = a
             /\ r[o + 4].kind = "queue" /\ r[o + 4].from = a /\ r[o + 4].to = core
             /\ r[o + 5].kind = "pipe" /\ r[o + 5].from = a /\ r[o + 5].to = core
             /\ r[o + 6].kind = "queue" /\ r[o + 6].from = core /\ r[o + 6].to = b
             /\ r[o + 7].kind = "pipe" /\ r[o + 7].from = core /\ r[o + 7].to = b
             /\ r[o + 8].kind = "tor" /\ r[o + 8].from = b /\ r[o + 8].to = b
             /\ r[o + 9].kind = "queue" /\ r[o + 9].from = b /\ r[o + 9].to = f
             /\ r[o + 10].kind = "pipe" /\ r[o + 10].from = b /\ r[o + 10].to = f
             /\ r[o + 11].kind = "end" /\ r[o + 11].from = f /\ r[o + 11].to = f
<1> DEFINE o == First0(dir)
           s == Start(dir)
           f == Finish(dir)
           a == SrcTor(dir)
           b == DstTor(dir)
<1>1. s \in Nodes /\ f \in Nodes /\ a \in Nodes /\ b \in Nodes /\ core \in Nodes
  BY FlowNodes
<1>2. First0(dir) \in {0, 1}
  BY DEF First0
<1>3. {"queue", "pipe", "tor", "endhostQ", "end"} \subseteq Kinds
  BY DEF Kinds
<1>4. /\ r \in Seq(Elements) /\ Len(r) = o + 11
      /\ o = 1 => r[1] = At("endhostQ", s)
      /\ r[o + 1] = Element("queue", s, a) /\ r[o + 2] = Element("pipe", s, a)
      /\ r[o + 3] = At("tor", a)
      /\ r[o + 4] = Element("queue", a, core) /\ r[o + 5] = Element("pipe", a, core)
      /\ r[o + 6] = Element("queue", core, b) /\ r[o + 7] = Element("pipe", core, b)
      /\ r[o + 8] = At("tor", b)
      /\ r[o + 9] = Element("queue", b, f) /\ r[o + 10] = Element("pipe", b, f)
      /\ r[o + 11] = At("end", f)
  BY DEF Through
<1>5. /\ \A x, y \in Nodes : /\ Element("queue", x, y).kind = "queue"
                             /\ Element("queue", x, y).from = x /\ Element("queue", x, y).to = y
                             /\ Element("pipe", x, y).kind = "pipe"
                             /\ Element("pipe", x, y).from = x /\ Element("pipe", x, y).to = y
      /\ \A x \in Nodes : /\ At("tor", x).kind = "tor" /\ At("tor", x).from = x /\ At("tor", x).to = x
                          /\ At("end", x).kind = "end" /\ At("end", x).from = x /\ At("end", x).to = x
                          /\ At("endhostQ", x).kind = "endhostQ"
                          /\ At("endhostQ", x).from = x /\ At("endhostQ", x).to = x
  BY <1>3, ElementFacts
<1> HIDE DEF o, s, f, a, b
<1>6. /\ r[o + 1].kind = "queue" /\ r[o + 1].from = s /\ r[o + 1].to = a
      /\ r[o + 2].kind = "pipe" /\ r[o + 2].from = s /\ r[o + 2].to = a
      /\ r[o + 3].kind = "tor" /\ r[o + 3].from = a /\ r[o + 3].to = a
      /\ o = 1 => r[1].kind = "endhostQ" /\ r[1].from = s /\ r[1].to = s
  BY ONLY <1>1, <1>4, <1>5, SMTT(60)
<1>7. /\ r[o + 4].kind = "queue" /\ r[o + 4].from = a /\ r[o + 4].to = core
      /\ r[o + 5].kind = "pipe" /\ r[o + 5].from = a /\ r[o + 5].to = core
  BY ONLY <1>1, <1>4, <1>5
<1>8. /\ r[o + 6].kind = "queue" /\ r[o + 6].from = core /\ r[o + 6].to = b
      /\ r[o + 7].kind = "pipe" /\ r[o + 7].from = core /\ r[o + 7].to = b
  BY ONLY <1>1, <1>4, <1>5
<1>9. /\ r[o + 8].kind = "tor" /\ r[o + 8].from = b /\ r[o + 8].to = b
      /\ r[o + 9].kind = "queue" /\ r[o + 9].from = b /\ r[o + 9].to = f
      /\ r[o + 10].kind = "pipe" /\ r[o + 10].from = b /\ r[o + 10].to = f
      /\ r[o + 11].kind = "end" /\ r[o + 11].from = f /\ r[o + 11].to = f
  BY ONLY <1>1, <1>4, <1>5
<1> QED
  BY <1>2, <1>4, <1>6, <1>7, <1>8, <1>9 DEF o, s, f, a, b

(* Its pipes.                                                              *)
LEMMA ThroughPipes ==
  ASSUME flow.src \in ServerIds, flow.dst \in ServerIds, flow.src.tor # flow.dst.tor,
         NEW dir \in Directions, NEW core \in CongaCores, NEW r, Through(r, dir, core)
  PROVE  LET o == First0(dir) IN Pipes(r) = {o + 2, o + 5, o + 7, o + 10}
<1> DEFINE o == First0(dir)
<1>1. /\ Len(r) = o + 11 /\ o \in {0, 1}
      /\ o = 1 => r[1].kind = "endhostQ"
      /\ r[o + 1].kind = "queue" /\ r[o + 2].kind = "pipe" /\ r[o + 3].kind = "tor"
      /\ r[o + 4].kind = "queue" /\ r[o + 5].kind = "pipe" /\ r[o + 6].kind = "queue"
      /\ r[o + 7].kind = "pipe" /\ r[o + 8].kind = "tor" /\ r[o + 9].kind = "queue"
      /\ r[o + 10].kind = "pipe" /\ r[o + 11].kind = "end"
  <2>1. /\ Len(r) = o + 11 /\ o \in {0, 1}
        /\ o = 1 => r[1].kind = "endhostQ"
        /\ r[o + 1].kind = "queue" /\ r[o + 2].kind = "pipe" /\ r[o + 3].kind = "tor"
        /\ r[o + 4].kind = "queue" /\ r[o + 5].kind = "pipe"
    BY ThroughFields, SMTT(60)
  <2>2. /\ r[o + 6].kind = "queue"
        /\ r[o + 7].kind = "pipe" /\ r[o + 8].kind = "tor" /\ r[o + 9].kind = "queue"
        /\ r[o + 10].kind = "pipe" /\ r[o + 11].kind = "end"
    BY ThroughFields
  <2> HIDE DEF o
  <2> QED
    BY ONLY <2>1, <2>2
<1> HIDE DEF o
<1>2. ASSUME NEW i \in 1 .. Len(r), r[i].kind = "pipe"
      PROVE  i \in {o + 2, o + 5, o + 7, o + 10}
  <2>1. CASE o = 1
    <3>1. i \in 1 .. 12
      BY <1>1, <2>1
    <3> QED
      BY <1>1, <1>2, <2>1, <3>1
  <2>2. CASE o = 0
    <3>1. i \in 1 .. 11
      BY <1>1, <2>2
    <3> QED
      BY <1>1, <1>2, <2>2, <3>1
  <2> QED
    BY <1>1, <2>1, <2>2
<1>3. {o + 2, o + 5, o + 7, o + 10} \subseteq 1 .. Len(r)
  BY <1>1
<1> QED
  BY <1>1, <1>2, <1>3, ZenonT(60) DEF Pipes, o

(* It connects its ends.                                                   *)
LEMMA ThroughConnects ==
  ASSUME flow.src \in ServerIds, flow.dst \in ServerIds, flow.src.tor # flow.dst.tor,
         NEW dir \in Directions, NEW core \in CongaCores, NEW r, Through(r, dir, core)
  PROVE  Connects(r, Start(dir), Finish(dir))
<1> DEFINE o == First0(dir)
           s == Start(dir)
           f == Finish(dir)
           a == SrcTor(dir)
           b == DstTor(dir)
<1>1. /\ r \in Seq(Elements) /\ Len(r) = o + 11 /\ o \in {0, 1}
      /\ o = 1 => r[1].kind = "endhostQ" /\ r[1].from = s /\ r[1].to = s
      /\ r[o + 1].kind = "queue" /\ r[o + 1].from = s /\ r[o + 1].to = a
      /\ r[o + 2].kind = "pipe" /\ r[o + 2].from = s /\ r[o + 2].to = a
      /\ r[o + 3].kind = "tor" /\ r[o + 3].from = a /\ r[o + 3].to = a
      /\ r[o + 4].kind = "queue" /\ r[o + 4].from = a /\ r[o + 4].to = core
      /\ r[o + 5].kind = "pipe" /\ r[o + 5].from = a /\ r[o + 5].to = core
      /\ r[o + 6].kind = "queue" /\ r[o + 6].from = core /\ r[o + 6].to = b
      /\ r[o + 7].kind = "pipe" /\ r[o + 7].from = core /\ r[o + 7].to = b
      /\ r[o + 8].kind = "tor" /\ r[o + 8].from = b /\ r[o + 8].to = b
      /\ r[o + 9].kind = "queue" /\ r[o + 9].from = b /\ r[o + 9].to = f
      /\ r[o + 10].kind = "pipe" /\ r[o + 10].from = b /\ r[o + 10].to = f
      /\ r[o + 11].kind = "end" /\ r[o + 11].from = f /\ r[o + 11].to = f
  BY ThroughFields
<1>2. /\ s # f /\ s # a /\ s # b /\ s # core /\ f # a /\ f # b /\ f # core /\ a # b /\ a # core
      /\ b # core
  BY FlowNodes
<1>3. r[o + 11] = At("end", f)
  BY DEF Through
<1> HIDE DEF o, s, f, a, b
<1>4. \A i \in 1 .. (Len(r) - 1) :
        IF r[i].kind = "queue" THEN r[i + 1] = [r[i] EXCEPT !.kind = "pipe"]
        ELSE r[i + 1].kind # "pipe" /\ r[i + 1].from = r[i].to
  <2>1. \A i \in 1 .. Len(r) : r[i] \in Elements
    BY <1>1
  <2>2. \A x, y \in Elements : x.from = y.from /\ x.to = y.to /\ y.kind = "pipe"
                               => y = [x EXCEPT !.kind = "pipe"]
    BY DEF Elements
  <2> SUFFICES ASSUME NEW i \in 1 .. (Len(r) - 1)
               PROVE  IF r[i].kind = "queue" THEN r[i + 1] = [r[i] EXCEPT !.kind = "pipe"]
                      ELSE r[i + 1].kind # "pipe" /\ r[i + 1].from = r[i].to
    OBVIOUS
  <2>3. i \in 1 .. Len(r) /\ i + 1 \in 1 .. Len(r)
    BY <1>1
  <2>4. IF r[i].kind = "queue"
        THEN r[i + 1].kind = "pipe" /\ r[i + 1].from = r[i].from /\ r[i + 1].to = r[i].to
        ELSE r[i + 1].kind # "pipe" /\ r[i + 1].from = r[i].to
    <3>1. CASE o = 1
      <4>1. i \in 1 .. 11
        BY <1>1, <3>1
      <4> QED
        BY <1>1, <3>1, <4>1, SMTT(60)
    <3>2. CASE o = 0
      <4>1. i \in 1 .. 10
        BY <1>1, <3>2
      <4> QED
        BY <1>1, <3>2, <4>1, SMTT(60)
    <3> QED
      BY <1>1, <3>1, <3>2
  <2> QED
    BY <2>1, <2>2, <2>3, <2>4
<1>5. \A i, j \in Pipes(r) : r[i].to # s /\ (i # j => r[i].to # r[j].to)
  <2>1. Pipes(r) = {o + 2, o + 5, o + 7, o + 10}
    BY ThroughPipes DEF o
  <2>2. SUFFICES ASSUME NEW i \in {o + 2, o + 5, o + 7, o + 10},
                        NEW j \in {o + 2, o + 5, o + 7, o + 10}
                 PROVE  r[i].to # s /\ (i # j => r[i].to # r[j].to)
    BY <2>1
  <2>3. /\ r[o + 2].to = a /\ r[o + 5].to = core /\ r[o + 7].to = b /\ r[o + 10].to = f
    BY <1>1
  <2>4. CASE i = o + 2
    BY ONLY <1>2, <2>2, <2>3, <2>4
  <2>5. CASE i = o + 5
    BY ONLY <1>2, <2>2, <2>3, <2>5
  <2>6. CASE i = o + 7
    BY ONLY <1>2, <2>2, <2>3, <2>6
  <2>7. CASE i = o + 10
    BY ONLY <1>2, <2>2, <2>3, <2>7
  <2> QED
    BY <2>2, <2>4, <2>5, <2>6, <2>7
<1>6. r[1].from = s
  BY <1>1
<1>7. r[Len(r)] = At("end", f)
  BY <1>1, <1>3
<1> QED
  BY <1>4, <1>5, <1>6, <1>7 DEF Connects, s, f

(* The links it takes, the core apart.                                     *)
LEMMA ThroughWay ==
  ASSUME flow.src \in ServerIds, flow.dst \in ServerIds, flow.src.tor # flow.dst.tor,
         NEW dir \in Directions, NEW core \in CongaCores, NEW r, Through(r, dir, core)
  PROVE  {<<Blind(r[i].from), Blind(r[i].to)>> : i \in Pipes(r)}
         = {<<Start(dir), SrcTor(dir)>>, <<SrcTor(dir), <<"core">> >>,
            << <<"core">>, DstTor(dir)>>, <<DstTor(dir), Finish(dir)>>}
<1> DEFINE o == First0(dir)
           s == Start(dir)
           f == Finish(dir)
           a == SrcTor(dir)
           b == DstTor(dir)
           c == <<"core">>
           l(i) == <<Blind(r[i].from), Blind(r[i].to)>>
<1>1. Pipes(r) = {o + 2, o + 5, o + 7, o + 10}
  BY ThroughPipes
<1>2. /\ r[o + 2].from = s /\ r[o + 2].to = a /\ r[o + 5].from = a /\ r[o + 5].to = core
      /\ r[o + 7].from = core /\ r[o + 7].to = b /\ r[o + 10].from = b /\ r[o + 10].to = f
  BY ThroughFields
<1>3. Blind(s) = s /\ Blind(f) = f /\ Blind(a) = a /\ Blind(b) = b /\ Blind(core) = c
  BY FlowNodes DEF Blind
<1> HIDE DEF o, s, f, a, b, c
<1>4. l(o + 2) = <<s, a>> /\ l(o + 5) = <<a, c>> /\ l(o + 7) = <<c, b>> /\ l(o + 10) = <<b, f>>
  BY <1>2, <1>3
<1> HIDE DEF l
<1>5. {l(i) : i \in Pipes(r)} = {<<s, a>>, <<a, c>>, <<c, b>>, <<b, f>>}
  BY <1>1, <1>4
<1> QED
  BY <1>5 DEF l, s, f, a, b, c

(* Both ways of a CONGA flow.                                              *)
LEMMA ThroughReturns ==
  ASSUME flow.src \in ServerIds, flow.dst \in ServerIds, flow.src.tor # flow.dst.tor,
         flow.testbed = "conga",
         \A dir \in Directions : \E core \in CongaCores : Through(route[dir], dir, core)
  PROVE  AcksReturn
<1> DEFINE s == Start("fwd")
           f == Finish("fwd")
           a == SrcTor("fwd")
           b == DstTor("fwd")
           c == <<"core">>
<1>1. "fwd" \in Directions /\ "rev" \in Directions
  BY DEF Directions
<1>2. \A dir \in Directions :
        Way(dir) = {<<Start(dir), SrcTor(dir)>>, <<SrcTor(dir), c>>,
                    <<c, DstTor(dir)>>, <<DstTor(dir), Finish(dir)>>}
  <2> SUFFICES ASSUME NEW dir \in Directions
               PROVE  Way(dir) = {<<Start(dir), SrcTor(dir)>>, <<SrcTor(dir), c>>,
                                  <<c, DstTor(dir)>>, <<DstTor(dir), Finish(dir)>>}
    OBVIOUS
  <2>1. PICK core \in CongaCores : Through(route[dir], dir, core)
    OBVIOUS
  <2>2. Way(dir) = {<<Blind(route[dir][i].from), Blind(route[dir][i].to)>> : i \in Pipes(route[dir])}
    BY DEF Way
  <2> QED
    BY <2>1, <2>2, ThroughWay
<1>3. Start("rev") = f /\ Finish("rev") = s /\ SrcTor("rev") = b /\ DstTor("rev") = a
  BY DEF Start, Finish, SrcTor, DstTor
<1>4. Way("fwd") = {<<s, a>>, <<a, c>>, <<c, b>>, <<b, f>>}
  BY <1>1, <1>2
<1>5. Way("rev") = {<<f, b>>, <<b, c>>, <<c, a>>, <<a, s>>}
  BY <1>1, <1>2, <1>3
<1> HIDE DEF s, f, a, b, c
<1>6. {<<l[2], l[1]>> : l \in {<<s, a>>, <<a, c>>, <<c, b>>, <<b, f>>}}
      = {<<f, b>>, <<b, c>>, <<c, a>>, <<a, s>>}
  OBVIOUS
<1>7. flow.src # flow.dst
  OBVIOUS
<1> QED
  BY <1>4, <1>5, <1>6, <1>7 DEF AcksReturn

(* Two such vectors differ in the core only.                               *)
LEMMA ThroughSame ==
  ASSUME flow.src \in ServerIds, flow.dst \in ServerIds, flow.src.tor # flow.dst.tor,
         NEW dir \in Directions, NEW core \in CongaCores, NEW core1 \in CongaCores,
         NEW r, Through(r, dir, core), NEW q, Through(q, dir, core1)
  PROVE  Len(q) = Len(r) /\ \A i \in 1 .. Len(r) : SameButCore(r[i], q[i])
<1> DEFINE o == First0(dir)
<1>1. Len(r) = o + 11 /\ Len(q) = o + 11 /\ o \in {0, 1}
  BY DEF Through, First0
<1>2. Blind(core) = Blind(core1)
  BY CoresFacts DEF Blind
<1>3. \A e : SameButCore(e, e)
  BY DEF SameButCore
<1>4. /\ SameButCore(r[o + 4], q[o + 4]) /\ SameButCore(r[o + 5], q[o + 5])
      /\ SameButCore(r[o + 6], q[o + 6]) /\ SameButCore(r[o + 7], q[o + 7])
  <2>1. /\ r[o + 4].kind = "queue" /\ r[o + 4].from = SrcTor(dir) /\ r[o + 4].to = core
        /\ r[o + 5].kind = "pipe" /\ r[o + 5].from = SrcTor(dir) /\ r[o + 5].to = core
        /\ r[o + 6].kind = "queue" /\ r[o + 6].from = core /\ r[o + 6].to = DstTor(dir)
        /\ r[o + 7].kind = "pipe" /\ r[o + 7].from = core /\ r[o + 7].to = DstTor(dir)
    BY ThroughFields
  <2>2. /\ q[o + 4].kind = "queue" /\ q[o + 4].from = SrcTor(dir) /\ q[o + 4].to = core1
        /\ q[o + 5].kind = "pipe" /\ q[o + 5].from = SrcTor(dir) /\ q[o + 5].to = core1
        /\ q[o + 6].kind = "queue" /\ q[o + 6].from = core1 /\ q[o + 6].to = DstTor(dir)
        /\ q[o + 7].kind = "pipe" /\ q[o + 7].from = core1 /\ q[o + 7].to = DstTor(dir)
    BY ThroughFields
  <2> HIDE DEF o
  <2> QED
    BY ONLY <1>2, <2>1, <2>2 DEF SameButCore
<1>5. /\ o = 1 => r[1] = q[1]
      /\ r[o + 1] = q[o + 1] /\ r[o + 2] = q[o + 2] /\ r[o + 3] = q[o + 3]
      /\ r[o + 8] = q[o + 8] /\ r[o + 9] = q[o + 9] /\ r[o + 10] = q[o + 10]
      /\ r[o + 11] = q[o + 11]
  BY DEF Through
<1> HIDE DEF o
<1> SUFFICES ASSUME NEW i \in 1 .. Len(r)
             PROVE  SameButCore(r[i], q[i])
  BY <1>1
<1>6. CASE o = 1
  <2>1. i \in 1 .. 12
    BY <1>1, <1>6
  <2>2. r[i] = q[i] \/ i \in {5, 6, 7, 8}
    BY ONLY <1>5, <1>6, <2>1, SMTT(60)
  <2>3. \A j \in {5, 6, 7, 8} : SameButCore(r[j], q[j])
    BY ONLY <1>4, <1>6
  <2> QED
    BY <1>3, <2>2, <2>3
<1>7. CASE o = 0
  <2>1. i \in 1 .. 11
    BY <1>1, <1>7
  <2>2. r[i] = q[i] \/ i \in {4, 5, 6, 7}
    BY ONLY <1>5, <1>7, <2>1
  <2>3. \A j \in {4, 5, 6, 7} : SameButCore(r[j], q[j])
    BY ONLY <1>4, <1>7
  <2> QED
    BY <1>3, <2>2, <2>3
<1> QED
  BY <1>1, <1>6, <1>7

(* What the first leaf switch writes is such a vector.                     *)
LEMMA UpdateThrough ==
  ASSUME flow.src \in ServerIds, flow.dst \in ServerIds, flow.src.tor # flow.dst.tor,
         NEW dir \in Directions, NEW core \in CongaCores, NEW r, Through(r, dir, core),
         NEW k \in Below(N_CORE)
  PROVE  Through(updateRoute(r, First0(dir) + 3, k, SrcTor(dir), DstTor(dir)), dir, CoreNode(0, k))
<1> DEFINE o == First0(dir)
           a == SrcTor(dir)
           b == DstTor(dir)
           c == CoreNode(0, k)
           q == [r EXCEPT ![o + 4] = Element("queue", a, c), ![o + 5] = Element("pipe", a, c),
                          ![o + 6] = Element("queue", c, b), ![o + 7] = Element("pipe", c, b)]
<1>1. c \in CongaCores
  BY DEF CongaCores
<1>2. a \in Nodes /\ b \in Nodes /\ c \in Nodes
  BY <1>1, FlowNodes
<1>3. o \in {0, 1} /\ r \in Seq(Elements) /\ Len(r) = o + 11
  BY DEF First0, Through
<1>4. updateRoute(r, o + 3, k, a, b) = q
  <2>1. (o + 3) + 1 = o + 4 /\ (o + 3) + 2 = o + 5 /\ (o + 3) + 3 = o + 6 /\ (o + 3) + 4 = o + 7
    BY <1>3
  <2>2. \A x, y : Link(x, y)[1] = Element("queue", x, y) /\ Link(x, y)[2] = Element("pipe", x, y)
    BY DEF Link
  <2> QED
    BY <2>1, <2>2, ZenonT(60) DEF updateRoute
<1>5. /\ Element("queue", a, c) \in Elements /\ Element("pipe", a, c) \in Elements
      /\ Element("queue", c, b) \in Elements /\ Element("pipe", c, b) \in Elements
  BY <1>2, ElementFacts DEF Kinds
<1> HIDE DEF a, b, c
<1>6. /\ q \in Seq(Elements) /\ Len(q) = o + 11
      /\ q[o + 4] = Element("queue", a, c) /\ q[o + 5] = Element("pipe", a, c)
      /\ q[o + 6] = Element("queue", c, b) /\ q[o + 7] = Element("pipe", c, b)
      /\ \A i \in 1 .. Len(r) : i \notin {o + 4, o + 5, o + 6, o + 7} => q[i] = r[i]
  <2> HIDE DEF o
  <2>1. {o + 4, o + 5, o + 6, o + 7} \subseteq 1 .. Len(r)
    BY <1>3
  <2>2. DOMAIN r = 1 .. Len(r) /\ \A i \in 1 .. Len(r) : r[i] \in Elements
    BY <1>3
  <2>3. q \in [1 .. Len(r) -> Elements]
    BY <1>5, <2>1, <2>2
  <2>4. q \in Seq(Elements) /\ Len(q) = Len(r)
    BY <1>3, <2>3, SeqDef, LenProperties
  <2>5. \A i \in 1 .. Len(r) : i \notin {o + 4, o + 5, o + 6, o + 7} => q[i] = r[i]
    BY <2>1, <2>2
  <2>6. o + 4 # o + 5 /\ o + 4 # o + 6 /\ o + 4 # o + 7 /\ o + 5 # o + 6 /\ o + 5 # o + 7 /\ o + 6 # o + 7
    BY <1>3
  <2>7. /\ q[o + 4] = Element("queue", a, c) /\ q[o + 5] = Element("pipe", a, c)
        /\ q[o + 6] = Element("queue", c, b) /\ q[o + 7] = Element("pipe", c, b)
    BY <2>1, <2>2, <2>6
  <2> QED
    BY <1>3, <2>4, <2>5, <2>7
<1> HIDE DEF q
<1>7. /\ o = 1 => q[1] = r[1]
      /\ q[o + 1] = r[o + 1] /\ q[o + 2] = r[o + 2] /\ q[o + 3] = r[o + 3]
      /\ q[o + 8] = r[o + 8] /\ q[o + 9] = r[o + 9] /\ q[o + 10] = r[o + 10]
      /\ q[o + 11] = r[o + 11]
  <2> HIDE DEF o
  <2>1. \A j \in {o + 1, o + 2, o + 3, o + 8, o + 9, o + 10, o + 11} :
          j \in 1 .. Len(r) /\ j \notin {o + 4, o + 5, o + 6, o + 7}
    BY ONLY <1>3
  <2>2. o = 1 => 1 \in 1 .. Len(r) /\ 1 \notin {o + 4, o + 5, o + 6, o + 7}
    BY ONLY <1>3
  <2> QED
    BY ONLY <1>6, <2>1, <2>2
<1>8. Through(q, dir, c)
  BY <1>6, <1>7 DEF Through, a, b
<1> QED
  BY <1>4, <1>8 DEF a, b, c

-----------------------------------------------------------------------------
(* The vectors of the other flows, put together from links.                *)

(* The links of a path end where its pipes do.                             *)
LEMMA EndsOfPath ==
  ASSUME NEW r, NEW a, NEW b, NEW L, Path(r, a, b, L)
  PROVE  \A i \in Pipes(r) : r[i].to \in Ends(L)
<1> SUFFICES ASSUME NEW i \in Pipes(r)
             PROVE  r[i].to \in Ends(L)
  OBVIOUS
<1> DEFINE l == <<r[i].from, r[i].to>>
<1>1. LinksOf(r) = L
  BY DEF Path
<1>2. l \in L
  BY <1>1 DEF LinksOf
<1>3. l[2] = r[i].to
  OBVIOUS
<1> HIDE DEF l
<1> QED
  BY <1>2, <1>3 DEF Ends

(* A link is a path.                                                       *)
LEMMA PathLink ==
  ASSUME NEW a \in Nodes, NEW b \in Nodes
  PROVE  Path(Link(a, b), a, b, {<<a, b>>})
<1> DEFINE r == Link(a, b)
           e == Element("queue", a, b)
           p == Element("pipe", a, b)
<1>1. e \in Elements /\ p \in Elements
  BY ElementFacts DEF Kinds
<1>2. e.kind = "queue" /\ p.kind = "pipe" /\ e.from = a /\ p.from = a /\ e.to = b /\ p.to = b
  BY DEF Element
<1>3. p = [e EXCEPT !.kind = "pipe"]
  BY DEF Element
<1>4. r \in Seq(Elements) /\ Len(r) = 2 /\ r[1] = e /\ r[2] = p
  BY <1>1 DEF Link
<1> HIDE DEF r, e, p
<1>5. Pipes(r) = {2}
  <2>1. r[1].kind # "pipe" /\ r[2].kind = "pipe"
    BY <1>2, <1>4
  <2>2. 1 .. Len(r) = {1, 2}
    BY <1>4
  <2> QED
    BY ONLY <2>1, <2>2 DEF Pipes
<1>6. LinksOf(r) = {<<a, b>>}
  <2>1. r[2].from = a /\ r[2].to = b
    BY <1>2, <1>4
  <2> QED
    BY ONLY <1>5, <2>1 DEF LinksOf
<1>7. \A i \in 1 .. Len(r) : r[i].kind \notin {"tor", "end"}
  BY <1>2, <1>4
<1>8. \A i \in 1 .. (Len(r) - 1) :
        IF r[i].kind = "queue" THEN r[i + 1] = [r[i] EXCEPT !.kind = "pipe"]
        ELSE r[i + 1].kind # "pipe" /\ r[i + 1].from = r[i].to
  <2>1. \A i \in 1 .. (Len(r) - 1) : i = 1 /\ i + 1 = 2
    BY <1>4
  <2>2. r[1].kind = "queue" /\ r[2] = [r[1] EXCEPT !.kind = "pipe"]
    BY <1>2, <1>3, <1>4
  <2> QED
    BY <2>1, <2>2
<1>9. r[1].from = a /\ r[1].kind # "pipe" /\ r[Len(r)].to = b /\ r[Len(r)].kind # "queue"
  BY <1>2, <1>4
<1>10. \A i, j \in Pipes(r) : i # j => r[i].to # r[j].to
  BY <1>5
<1>11. Path(r, a, b, {<<a, b>>})
  BY <1>4, <1>6, <1>7, <1>8, <1>9, <1>10 DEF Path
<1> QED
  BY <1>11 DEF r

(* The queue of an end host is a path that goes nowhere.                   *)
LEMMA PathWait ==
  ASSUME NEW a \in Nodes
  PROVE  Path(<<At("endhostQ", a)>>, a, a, {})
<1> DEFINE e == At("endhostQ", a)
           r == <<e>>
<1>1. e \in Elements /\ e.kind = "endhostQ" /\ e.from = a /\ e.to = a
  BY ElementFacts DEF Kinds
<1> HIDE DEF e
<1>2. r \in Seq(Elements) /\ Len(r) = 1 /\ r[1] = e
  BY <1>1
<1> HIDE DEF r
<1>3. Pipes(r) = {} /\ LinksOf(r) = {}
  BY <1>1, <1>2 DEF Pipes, LinksOf
<1>4. Path(r, a, a, {})
  BY <1>1, <1>2, <1>3 DEF Path
<1> QED
  BY <1>4 DEF r, e

(* The pipes of two sequences, one behind the other.                       *)
LEMMA PipesCat ==
  ASSUME NEW r \in Seq(Elements), NEW q \in Seq(Elements)
  PROVE  /\ \A i \in Pipes(r) : i \in 1 .. Len(r) /\ i \in Pipes(r \o q) /\ (r \o q)[i] = r[i]
         /\ \A j \in Pipes(q) : /\ j \in 1 .. Len(q) /\ Len(r) + j \in Pipes(r \o q)
                                /\ (r \o q)[Len(r) + j] = q[j]
         /\ \A i \in Pipes(r \o q) : i \in Pipes(r) \/ \E j \in Pipes(q) : i = Len(r) + j
         /\ LinksOf(r \o q) = LinksOf(r) \cup LinksOf(q)
<1> DEFINE c == r \o q
<1>1. /\ Len(r) \in Nat /\ Len(q) \in Nat /\ Len(c) = Len(r) + Len(q)
      /\ \A i \in 1 .. Len(c) : c[i] = IF i <= Len(r) THEN r[i] ELSE q[i - Len(r)]
  BY ConcatProperties
<1> HIDE DEF c
<1>2. \A i \in 1 .. Len(r) : i \in 1 .. Len(c) /\ c[i] = r[i]
  BY <1>1
<1>3. \A j \in 1 .. Len(q) : Len(r) + j \in 1 .. Len(c) /\ c[Len(r) + j] = q[j]
  BY <1>1
<1>4. \A i \in 1 .. Len(c) : i \in 1 .. Len(r) \/ \E j \in 1 .. Len(q) : i = Len(r) + j
  <2> SUFFICES ASSUME NEW i \in 1 .. Len(c), i \notin 1 .. Len(r)
               PROVE  \E j \in 1 .. Len(q) : i = Len(r) + j
    OBVIOUS
  <2>1. i - Len(r) \in 1 .. Len(q) /\ i = Len(r) + (i - Len(r))
    BY <1>1
  <2> QED
    BY <2>1
<1>5. \A i \in Pipes(r) : i \in 1 .. Len(r) /\ i \in Pipes(c) /\ c[i] = r[i]
  BY <1>2 DEF Pipes
<1>6. \A j \in Pipes(q) : j \in 1 .. Len(q) /\ Len(r) + j \in Pipes(c) /\ c[Len(r) + j] = q[j]
  BY <1>3 DEF Pipes
<1>7. \A i \in Pipes(c) : i \in Pipes(r) \/ \E j \in Pipes(q) : i = Len(r) + j
  <2> SUFFICES ASSUME NEW i \in Pipes(c), i \notin Pipes(r)
               PROVE  \E j \in Pipes(q) : i = Len(r) + j
    OBVIOUS
  <2>1. i \in 1 .. Len(c) /\ c[i].kind = "pipe"
    BY DEF Pipes
  <2>2. i \notin 1 .. Len(r)
    BY <1>2, <2>1 DEF Pipes
  <2>3. PICK j \in 1 .. Len(q) : i = Len(r) + j
    BY <1>4, <2>1, <2>2
  <2>4. j \in Pipes(q)
    BY <1>3, <2>1, <2>3 DEF Pipes
  <2> QED
    BY <2>3, <2>4
<1>8. LinksOf(c) = LinksOf(r) \cup LinksOf(q)
  BY <1>5, <1>6, <1>7 DEF LinksOf
<1> QED
  BY <1>5, <1>6, <1>7, <1>8 DEF c

(* Two paths make a path, when no node is entered on both.                 *)
LEMMA PathCat ==
  ASSUME NEW r, NEW q, NEW a, NEW b, NEW c, NEW L, NEW M,
         Path(r, a, b, L), Path(q, b, c, M), Ends(L) \cap Ends(M) = {}
  PROVE  Path(r \o q, a, c, L \cup M)
<1> DEFINE s == r \o q
<1>0. r \in Seq(Elements) /\ q \in Seq(Elements) /\ Len(r) >= 1 /\ Len(q) >= 1
  BY DEF Path
<1>1. /\ Len(r) \in Nat /\ Len(q) \in Nat /\ Len(s) = Len(r) + Len(q) /\ s \in Seq(Elements)
      /\ \A i \in 1 .. Len(s) : s[i] = IF i <= Len(r) THEN r[i] ELSE q[i - Len(r)]
  BY <1>0, ConcatProperties
<1>2. /\ \A i \in Pipes(r) : i \in 1 .. Len(r) /\ i \in Pipes(s) /\ s[i] = r[i]
      /\ \A j \in Pipes(q) : j \in 1 .. Len(q) /\ Len(r) + j \in Pipes(s) /\ s[Len(r) + j] = q[j]
      /\ \A i \in Pipes(s) : i \in Pipes(r) \/ \E j \in Pipes(q) : i = Len(r) + j
      /\ LinksOf(s) = LinksOf(r) \cup LinksOf(q)
  BY <1>0, PipesCat
<1> HIDE DEF s
<1>3. s[1] = r[1] /\ s[Len(s)] = q[Len(q)]
  BY <1>0, <1>1
<1>4. \A i \in 1 .. Len(s) : s[i].kind \notin {"tor", "end"}
  <2> SUFFICES ASSUME NEW i \in 1 .. Len(s)
               PROVE  s[i].kind \notin {"tor", "end"}
    OBVIOUS
  <2>1. CASE i <= Len(r)
    <3>1. i \in 1 .. Len(r) /\ s[i] = r[i]
      BY <1>1, <2>1
    <3> QED
      BY <3>1 DEF Path
  <2>2. CASE i > Len(r)
    <3>1. i - Len(r) \in 1 .. Len(q) /\ s[i] = q[i - Len(r)]
      BY <1>1, <2>2
    <3> QED
      BY <3>1 DEF Path
  <2> QED
    BY <1>1, <2>1, <2>2
<1>5. \A i \in 1 .. (Len(s) - 1) :
        IF s[i].kind = "queue" THEN s[i + 1] = [s[i] EXCEPT !.kind = "pipe"]
        ELSE s[i + 1].kind # "pipe" /\ s[i + 1].from = s[i].to
  <2> SUFFICES ASSUME NEW i \in 1 .. (Len(s) - 1)
               PROVE  IF s[i].kind = "queue" THEN s[i + 1] = [s[i] EXCEPT !.kind = "pipe"]
                      ELSE s[i + 1].kind # "pipe" /\ s[i + 1].from = s[i].to
    OBVIOUS
  <2>1. CASE i < Len(r)
    <3>1. i \in 1 .. (Len(r) - 1) /\ s[i] = r[i] /\ s[i + 1] = r[i + 1]
      BY <1>1, <2>1
    <3> QED
      BY <3>1 DEF Path
  <2>2. CASE i = Len(r)
    <3>1. s[i] = r[Len(r)] /\ s[i + 1] = q[1]
      BY <1>0, <1>1, <2>2, SMTT(60)
    <3>2. r[Len(r)].kind # "queue" /\ r[Len(r)].to = b /\ q[1].kind # "pipe" /\ q[1].from = b
      BY DEF Path
    <3> QED
      BY <3>1, <3>2
  <2>3. CASE i > Len(r)
    <3> DEFINE j == i - Len(r)
    <3>1. j \in 1 .. (Len(q) - 1) /\ s[i] = q[j] /\ s[i + 1] = q[j + 1]
      BY <1>1, <2>3
    <3> HIDE DEF j
    <3> QED
      BY <3>1 DEF Path
  <2> QED
    BY <1>1, <2>1, <2>2, <2>3
<1>6. LinksOf(s) = L \cup M
  BY <1>2 DEF Path
<1>7. \A i, j \in Pipes(s) : i # j => s[i].to # s[j].to
  <2>1. \A i \in Pipes(r) : r[i].to \in Ends(L)
    BY EndsOfPath
  <2>2. \A i \in Pipes(q) : q[i].to \in Ends(M)
    BY EndsOfPath
  <2>3. /\ \A i, j \in Pipes(r) : i # j => r[i].to # r[j].to
        /\ \A i, j \in Pipes(q) : i # j => q[i].to # q[j].to
    BY DEF Path
  <2> SUFFICES ASSUME NEW i \in Pipes(s), NEW j \in Pipes(s), i # j
               PROVE  s[i].to # s[j].to
    OBVIOUS
  <2>4. CASE i \in Pipes(r) /\ j \in Pipes(r)
    BY <1>2, <2>3, <2>4
  <2>5. CASE i \in Pipes(r) /\ j \notin Pipes(r)
    BY <1>2, <2>1, <2>2, <2>5
  <2>6. CASE i \notin Pipes(r) /\ j \in Pipes(r)
    BY <1>2, <2>1, <2>2, <2>6
  <2>7. CASE i \notin Pipes(r) /\ j \notin Pipes(r)
    <3>1. PICK k \in Pipes(q), l \in Pipes(q) : i = Len(r) + k /\ j = Len(r) + l
      BY <1>2, <2>7
    <3>2. k # l /\ s[i] = q[k] /\ s[j] = q[l]
      BY <1>2, <3>1
    <3> QED
      BY <2>3, <3>2
  <2> QED
    BY <2>4, <2>5, <2>6, <2>7
<1>8. /\ r[1].from = a /\ r[1].kind # "pipe"
      /\ q[Len(q)].to = c /\ q[Len(q)].kind # "queue"
  BY DEF Path
<1>9. Path(s, a, c, L \cup M)
  BY <1>0, <1>1, <1>3, <1>4, <1>5, <1>6, <1>7, <1>8, SMTT(60) DEF Path
<1> QED
  BY <1>9 DEF s

(* A path with its end behind it connects them.                            *)
LEMMA PathEnd ==
  ASSUME NEW r, NEW a, NEW b \in Nodes, NEW L, Path(r, a, b, L), a \notin Ends(L)
  PROVE  LET s == r \o <<At("end", b)>>
         IN  /\ s \in Seq(Elements) /\ Connects(s, a, b) /\ LinksOf(s) = L /\ Len(s) >= 2
             /\ \A i \in 1 .. Len(s) : s[i].kind # "tor"
<1> DEFINE e == At("end", b)
           q == <<e>>
           s == r \o q
<1>0. r \in Seq(Elements) /\ Len(r) >= 1
  BY DEF Path
<1>1. e \in Elements /\ e.kind = "end" /\ e.from = b /\ e = At("end", b)
  BY ElementFacts DEF Kinds
<1> HIDE DEF e
<1>2. q \in Seq(Elements) /\ Len(q) = 1 /\ q[1] = e
  BY <1>1
<1> HIDE DEF q
<1>3. Pipes(q) = {} /\ LinksOf(q) = {}
  BY <1>1, <1>2 DEF Pipes, LinksOf
<1>4. /\ Len(r) \in Nat /\ Len(s) = Len(r) + 1 /\ s \in Seq(Elements)
      /\ \A i \in 1 .. Len(s) : s[i] = IF i <= Len(r) THEN r[i] ELSE q[i - Len(r)]
  <2>1. /\ Len(s) = Len(r) + Len(q) /\ s \in Seq(Elements)
        /\ \A i \in 1 .. Len(s) : s[i] = IF i <= Len(r) THEN r[i] ELSE q[i - Len(r)]
    BY ONLY <1>0, <1>2, ConcatProperties, SMTT(60)
  <2>2. Len(r) \in Nat
    BY ONLY <1>0
  <2> QED
    BY ONLY <1>2, <2>1, <2>2
<1>5. /\ \A i \in Pipes(r) : s[i] = r[i]
      /\ Pipes(s) \subseteq Pipes(r)
      /\ LinksOf(s) = LinksOf(r)
  <2>1. /\ \A i \in Pipes(r) : s[i] = r[i]
        /\ \A i \in Pipes(s) : i \in Pipes(r) \/ \E j \in Pipes(q) : i = Len(r) + j
        /\ LinksOf(s) = LinksOf(r) \cup LinksOf(q)
    BY <1>0, <1>2, PipesCat
  <2> HIDE DEF s
  <2> QED
    BY <1>3, <2>1
<1> HIDE DEF s
<1>6. s[Len(s)] = e /\ s[1] = r[1] /\ \A i \in 1 .. Len(r) : s[i] = r[i]
  BY <1>0, <1>2, <1>4
<1>7. \A i \in 1 .. Len(s) : s[i].kind # "tor"
  <2>1. \A i \in 1 .. Len(s) : i \in 1 .. Len(r) \/ i = Len(s)
    BY <1>4
  <2> QED
    BY <1>1, <1>6, <2>1 DEF Path
<1>8. \A i \in 1 .. (Len(s) - 1) :
        IF s[i].kind = "queue" THEN s[i + 1] = [s[i] EXCEPT !.kind = "pipe"]
        ELSE s[i + 1].kind # "pipe" /\ s[i + 1].from = s[i].to
  <2> SUFFICES ASSUME NEW i \in 1 .. (Len(s) - 1)
               PROVE  IF s[i].kind = "queue" THEN s[i + 1] = [s[i] EXCEPT !.kind = "pipe"]
                      ELSE s[i + 1].kind # "pipe" /\ s[i + 1].from = s[i].to
    OBVIOUS
  <2>1. CASE i = Len(r)
    <3>1. s[i] = r[Len(r)] /\ s[i + 1] = e
      BY <1>0, <1>4, <1>6, <2>1
    <3>2. r[Len(r)].kind # "queue" /\ r[Len(r)].to = b
      BY DEF Path
    <3> QED
      BY <1>1, <3>1, <3>2
  <2>2. CASE i # Len(r)
    <3>1. i \in 1 .. (Len(r) - 1) /\ s[i] = r[i] /\ s[i + 1] = r[i + 1]
      BY <1>4, <1>6, <2>2
    <3> QED
      BY <3>1 DEF Path
  <2> QED
    BY <2>1, <2>2
<1>9. \A i, j \in Pipes(s) : s[i].to # a /\ (i # j => s[i].to # s[j].to)
  <2>1. \A i \in Pipes(r) : r[i].to \in Ends(L)
    BY EndsOfPath
  <2>2. \A i, j \in Pipes(r) : i # j => r[i].to # r[j].to
    BY DEF Path
  <2> QED
    BY <1>5, <2>1, <2>2
<1>10. r[1].from = a /\ LinksOf(r) = L
  BY DEF Path
<1>11. Connects(s, a, b)
  BY <1>1, <1>6, <1>8, <1>9, <1>10 DEF Connects
<1>12. Len(s) >= 2
  BY <1>0, <1>4
<1> QED
  BY <1>4, <1>5, <1>7, <1>10, <1>11, <1>12 DEF s, q, e

(* The ends of sets of links.                                              *)
LEMMA EndsOfHop ==
  ASSUME NEW a, NEW b
  PROVE  \A x : x \in Ends(Hop(a, b)) <=> x = b
<1> DEFINE l == <<a, b>>
<1>1. l[2] = b
  OBVIOUS
<1> HIDE DEF l
<1>2. Ends({l}) = {b}
  BY <1>1 DEF Ends
<1> QED
  BY <1>2 DEF Hop, l

(* The ends of two sets of links.                                          *)
LEMMA EndsOfCup ==
  ASSUME NEW L, NEW M
  PROVE  \A x : x \in Ends(L \cup M) <=> x \in Ends(L) \/ x \in Ends(M)
BY DEF Ends

(* The ends when one link is added.                                        *)
LEMMA EndsOfMore ==
  ASSUME NEW L, NEW b, NEW c
  PROVE  \A x : x \in Ends(L \cup Hop(b, c)) <=> x \in Ends(L) \/ x = c
<1>1. \A x : x \in Ends(Hop(b, c)) <=> x = c
  BY EndsOfHop
<1> QED
  BY <1>1, EndsOfCup

(* A path with a hop more.                                                 *)
LEMMA PathHop ==
  ASSUME NEW r, NEW a, NEW b \in Nodes, NEW c \in Nodes, NEW L, Path(r, a, b, L), c \notin Ends(L)
  PROVE  Path(r \o Link(b, c), a, c, L \cup Hop(b, c))
<1>1. Path(Link(b, c), b, c, Hop(b, c))
  BY PathLink DEF Hop
<1>2. \A x : x \in Ends(Hop(b, c)) <=> x = c
  BY EndsOfHop
<1>3. Ends(L) \cap Ends(Hop(b, c)) = {}
  BY <1>2
<1> QED
  BY <1>1, <1>3, PathCat

(* A first hop.                                                            *)
LEMMA PathStart ==
  ASSUME NEW a \in Nodes, NEW b \in Nodes
  PROVE  Path(Link(a, b), a, b, Hop(a, b)) /\ \A x : x \in Ends(Hop(a, b)) <=> x = b
<1>1. Path(Link(a, b), a, b, Hop(a, b))
  BY PathLink DEF Hop
<1> QED
  BY <1>1, EndsOfHop

(* A path and another behind it.                                           *)
LEMMA PathJoin ==
  ASSUME NEW r, NEW q, NEW a, NEW b, NEW c, NEW L, NEW M,
         Path(r, a, b, L), Path(q, b, c, M), \A x \in Ends(L) : x \notin Ends(M)
  PROVE  /\ Path(r \o q, a, c, L \cup M)
         /\ \A x : x \in Ends(L \cup M) <=> x \in Ends(L) \/ x \in Ends(M)
<1>1. Ends(L) \cap Ends(M) = {}
  OBVIOUS
<1>2. Path(r \o q, a, c, L \cup M)
  BY <1>1, PathCat
<1> QED
  BY <1>2, EndsOfCup

(* Nothing between two paths changes nothing.                              *)
LEMMA PathNothing ==
  ASSUME NEW r, NEW a, NEW b, NEW L, Path(r, a, b, L)
  PROVE  r \o <<>> = r
<1>1. r \in Seq(Elements)
  BY DEF Path
<1> QED
  BY <1>1, ConcatEmptySeq

(* Two links back.                                                         *)
LEMMA FlipTwo ==
  ASSUME NEW s, NEW t, NEW f
  PROVE  Flip(Hop(s, t) \cup Hop(t, f)) = Hop(f, t) \cup Hop(t, s)
<1>1. {<<l[2], l[1]>> : l \in {<<s, t>>, <<t, f>>}} = {<<f, t>>, <<t, s>>}
  OBVIOUS
<1>2. Hop(s, t) \cup Hop(t, f) = {<<s, t>>, <<t, f>>} /\ Hop(f, t) \cup Hop(t, s) = {<<f, t>>, <<t, s>>}
  BY DEF Hop
<1> QED
  BY <1>1, <1>2 DEF Flip

(* Four links back.                                                        *)
LEMMA FlipFour ==
  ASSUME NEW s, NEW t, NEW g, NEW u, NEW f
  PROVE  Flip({<<s, t>>, <<t, g>>, <<g, u>>, <<u, f>>}) = {<<f, u>>, <<u, g>>, <<g, t>>, <<t, s>>}
<1>1. {<<l[2], l[1]>> : l \in {<<s, t>>, <<t, g>>, <<g, u>>, <<u, f>>}}
      = {<<f, u>>, <<u, g>>, <<g, t>>, <<t, s>>}
  OBVIOUS
<1> QED
  BY <1>1 DEF Flip

(* Six links, one behind the other.                                       *)
SixHops(s, t, g, c, h, u, f) ==
  {<<s, t>>, <<t, g>>, <<g, c>>, <<c, h>>, <<h, u>>, <<u, f>>}

(* Six links back.                                                         *)
LEMMA FlipSix ==
  ASSUME NEW s, NEW t, NEW g, NEW c, NEW h, NEW u, NEW f
  PROVE  Flip(SixHops(s, t, g, c, h, u, f)) = SixHops(f, u, h, c, g, t, s)
<1>1. {<<l[2], l[1]>> : l \in {<<s, t>>, <<t, g>>, <<g, c>>, <<c, h>>, <<h, u>>, <<u, f>>}}
      = {<<f, u>>, <<u, h>>, <<h, c>>, <<c, g>>, <<g, t>>, <<t, s>>}
  OBVIOUS
<1> QED
  BY <1>1 DEF Flip, SixHops

(* A route of the fat tree is a path.                                      *)
LEMMA TreePath ==
  ASSUME NEW a \in ServerIds, NEW b \in ServerIds, a # b, NEW agg \in Nat, NEW uplink \in Nat
  PROVE  LET L == TreeLinks(a, b, agg, uplink)
         IN  /\ Path(TreeRoute(a, b, agg, agg, uplink), ServerNode(a), ServerNode(b), L)
             /\ ServerNode(a) \notin Ends(L)
             /\ Flip(L) = TreeLinks(b, a, agg, uplink)
<1> DEFINE s == ServerNode(a)
           f == ServerNode(b)
           t == TorNode(a.tree, a.tor)
           t1 == TorNode(b.tree, b.tor)
           g == AggNode(a.tree, agg)
           g1 == AggNode(b.tree, agg)
           c == CoreNode(agg, uplink)
           r == TreeRoute(a, b, agg, agg, uplink)
           L == TreeLinks(a, b, agg, uplink)
           L1 == TreeLinks(b, a, agg, uplink)
<1>1. a.tree \in Nat /\ a.tor \in Nat /\ b.tree \in Nat /\ b.tor \in Nat
  BY DEF ServerIds
<1>2. /\ s \in Nodes /\ f \in Nodes /\ t \in Nodes /\ t1 \in Nodes
      /\ g \in Nodes /\ g1 \in Nodes /\ c \in Nodes
  BY <1>1, NodesAreNodes
<1>3. /\ s # f
      /\ s # t /\ s # t1 /\ s # g /\ s # g1 /\ s # c
      /\ f # t /\ f # t1 /\ f # g /\ f # g1 /\ f # c
      /\ t # g /\ t # g1 /\ t # c /\ t1 # g /\ t1 # g1 /\ t1 # c /\ g # c /\ g1 # c
  BY <1>1, NodesApart, SMTT(60)
<1>4. (t # t1 /\ a.tree = b.tree => g = g1) /\ (a.tree # b.tree => t # t1 /\ g # g1)
  BY <1>1, NodesApart
<1>5. r = Link(s, t)
          \o (IF t = t1 THEN <<>>
              ELSE Link(t, g) \o (IF a.tree = b.tree THEN <<>> ELSE Link(g, c) \o Link(c, g1))
                   \o Link(g1, t1))
          \o Link(t1, f)
  BY DEF TreeRoute
<1>6. L = Hop(s, t)
          \cup (IF t = t1 THEN {}
                ELSE Hop(t, g) \cup (IF a.tree = b.tree THEN {} ELSE Hop(g, c) \cup Hop(c, g1))
                     \cup Hop(g1, t1))
          \cup Hop(t1, f)
  BY DEF TreeLinks
<1>7. L1 = Hop(f, t1)
           \cup (IF t1 = t THEN {}
                 ELSE Hop(t1, g1) \cup (IF b.tree = a.tree THEN {} ELSE Hop(g1, c) \cup Hop(c, g))
                      \cup Hop(g, t))
           \cup Hop(t, s)
  BY DEF TreeLinks
<1> HIDE DEF s, f, t, t1, g, g1, c, r, L, L1
<1>8. Path(Link(s, t), s, t, Hop(s, t)) /\ \A x : x \in Ends(Hop(s, t)) <=> x = t
  BY <1>2, PathStart
<1>9. ASSUME t = t1
      PROVE  Path(r, s, f, L) /\ s \notin Ends(L) /\ Flip(L) = L1
  <2>1. r = Link(s, t) \o Link(t, f) /\ L = Hop(s, t) \cup Hop(t, f) /\ L1 = Hop(f, t) \cup Hop(t, s)
    <3>1. Link(s, t) \o <<>> = Link(s, t)
      BY <1>8, PathNothing
    <3> QED
      BY <1>5, <1>6, <1>7, <1>9, <3>1
  <2>2. Path(r, s, f, L) /\ \A x : x \in Ends(L) <=> x = t \/ x = f
    <3>1. f \notin Ends(Hop(s, t))
      BY <1>3, <1>8
    <3>2. Path(Link(s, t) \o Link(t, f), s, f, Hop(s, t) \cup Hop(t, f))
      BY ONLY <1>2, <1>8, <3>1, PathHop
    <3>3. \A x : x \in Ends(Hop(s, t) \cup Hop(t, f)) <=> x \in Ends(Hop(s, t)) \/ x = f
      BY ONLY EndsOfMore, Zenon
    <3> QED
      BY ONLY <1>8, <2>1, <3>2, <3>3
  <2>3. Flip(L) = L1
    BY <2>1, FlipTwo
  <2> QED
    BY <1>3, <2>2, <2>3
<1>10. ASSUME t # t1, a.tree = b.tree
       PROVE  Path(r, s, f, L) /\ s \notin Ends(L) /\ Flip(L) = L1
  <2> DEFINE m == Link(t, g) \o Link(g, t1)
             M == Hop(t, g) \cup Hop(g, t1)
  <2>1. Path(Link(t, g), t, g, Hop(t, g)) /\ \A x : x \in Ends(Hop(t, g)) <=> x = g
    BY <1>2, PathStart
  <2>2. /\ r = (Link(s, t) \o m) \o Link(t1, f) /\ L = (Hop(s, t) \cup M) \cup Hop(t1, f)
        /\ L1 = (Hop(f, t1) \cup (Hop(t1, g) \cup Hop(g, t))) \cup Hop(t, s)
    <3>1. Link(t, g) \o <<>> = Link(t, g)
      BY <2>1, PathNothing
    <3>2. g1 = g
      BY <1>4, <1>10
    <3>3. r = (Link(s, t) \o m) \o Link(t1, f)
      BY <1>5, <1>10, <3>1, <3>2
    <3> QED
      BY <1>6, <1>7, <1>10, <3>2, <3>3
  <2>3. Path(m, t, t1, M) /\ \A x : x \in Ends(M) <=> x = g \/ x = t1
    <3>1. t1 \notin Ends(Hop(t, g))
      BY <1>3, <2>1
    <3>2. Path(m, t, t1, M)
      BY ONLY <1>2, <2>1, <3>1, PathHop
    <3>3. \A x : x \in Ends(M) <=> x \in Ends(Hop(t, g)) \/ x = t1
      BY ONLY EndsOfMore, Zenon
    <3> QED
      BY ONLY <2>1, <3>2, <3>3
  <2>4. Flip(L) = L1
    <3>1. L = {<<s, t>>, <<t, g>>, <<g, t1>>, <<t1, f>>}
      BY <2>2 DEF Hop
    <3>2. L1 = {<<f, t1>>, <<t1, g>>, <<g, t>>, <<t, s>>}
      BY <2>2 DEF Hop
    <3> QED
      BY ONLY <3>1, <3>2, FlipFour
  <2> HIDE DEF m, M
  <2>5. \A x : x \in Ends(Hop(s, t)) => x \notin Ends(M)
    BY ONLY <1>3, <1>8, <1>10, <2>3
  <2>6. /\ Path(Link(s, t) \o m, s, t1, Hop(s, t) \cup M)
        /\ \A x : x \in Ends(Hop(s, t) \cup M) <=> x \in Ends(Hop(s, t)) \/ x \in Ends(M)
    BY ONLY <1>8, <2>3, <2>5, PathJoin
  <2>7. f \notin Ends(Hop(s, t) \cup M)
    BY ONLY <1>3, <1>8, <2>3, <2>6
  <2>8. /\ Path((Link(s, t) \o m) \o Link(t1, f), s, f, (Hop(s, t) \cup M) \cup Hop(t1, f))
        /\ \A x : x \in Ends((Hop(s, t) \cup M) \cup Hop(t1, f))
                   <=> x \in Ends(Hop(s, t) \cup M) \/ x = f
    <3>1. Path((Link(s, t) \o m) \o Link(t1, f), s, f, (Hop(s, t) \cup M) \cup Hop(t1, f))
      BY ONLY <1>2, <2>6, <2>7, PathHop
    <3>2. \A x : x \in Ends((Hop(s, t) \cup M) \cup Hop(t1, f))
                  <=> x \in Ends(Hop(s, t) \cup M) \/ x = f
      BY ONLY EndsOfMore, Zenon
    <3> QED
      BY ONLY <3>1, <3>2
  <2>9. Path(r, s, f, L)
    BY ONLY <2>2, <2>8
  <2>10. s \notin Ends(L)
    BY ONLY <1>3, <1>8, <2>2, <2>3, <2>6, <2>8
  <2> QED
    BY <2>4, <2>9, <2>10
<1>11. ASSUME t # t1, a.tree # b.tree
       PROVE  Path(r, s, f, L) /\ s \notin Ends(L) /\ Flip(L) = L1
  <2> DEFINE n == Link(g, c) \o Link(c, g1)
             N == Hop(g, c) \cup Hop(c, g1)
             m == Link(t, g) \o n
             M == Hop(t, g) \cup N
             k == m \o Link(g1, t1)
             K == M \cup Hop(g1, t1)
  <2>1. /\ Path(Link(t, g), t, g, Hop(t, g)) /\ \A x : x \in Ends(Hop(t, g)) <=> x = g
        /\ Path(Link(g, c), g, c, Hop(g, c)) /\ \A x : x \in Ends(Hop(g, c)) <=> x = c
    BY <1>2, PathStart
  <2>2. /\ r = (Link(s, t) \o k) \o Link(t1, f) /\ L = (Hop(s, t) \cup K) \cup Hop(t1, f)
        /\ L1 = (Hop(f, t1) \cup ((Hop(t1, g1) \cup (Hop(g1, c) \cup Hop(c, g))) \cup Hop(g, t))) \cup Hop(t, s)
    BY <1>5, <1>6, <1>7, <1>11
  <2>3. Path(n, g, g1, N) /\ \A x : x \in Ends(N) <=> x = c \/ x = g1
    <3>1. g1 \notin Ends(Hop(g, c))
      BY <1>3, <2>1
    <3>2. Path(n, g, g1, N)
      BY ONLY <1>2, <2>1, <3>1, PathHop
    <3>3. \A x : x \in Ends(N) <=> x \in Ends(Hop(g, c)) \/ x = g1
      BY ONLY EndsOfMore, Zenon
    <3> QED
      BY ONLY <2>1, <3>2, <3>3
  <2>4. Flip(L) = L1
    <3>1. L = SixHops(s, t, g, c, g1, t1, f)
      BY <2>2 DEF Hop, SixHops
    <3>2. L1 = SixHops(f, t1, g1, c, g, t, s)
      BY <2>2 DEF Hop, SixHops
    <3> QED
      BY ONLY <3>1, <3>2, FlipSix
  <2> HIDE DEF n, N
  <2>5. \A x : x \in Ends(Hop(t, g)) => x \notin Ends(N)
    BY ONLY <1>3, <1>4, <1>11, <2>1, <2>3
  <2>6. Path(m, t, g1, M) /\ \A x : x \in Ends(M) <=> x \in Ends(Hop(t, g)) \/ x \in Ends(N)
    BY ONLY <2>1, <2>3, <2>5, PathJoin
  <2>7. \A x : x \in Ends(M) <=> x = g \/ x = c \/ x = g1
    BY ONLY <2>1, <2>3, <2>6
  <2> HIDE DEF m, M
  <2>8. Path(k, t, t1, K) /\ \A x : x \in Ends(K) <=> x \in Ends(M) \/ x = t1
    <3>1. t1 \notin Ends(M)
      BY <1>3, <2>7
    <3>2. Path(k, t, t1, K)
      BY ONLY <1>2, <2>6, <3>1, PathHop
    <3>3. \A x : x \in Ends(K) <=> x \in Ends(M) \/ x = t1
      BY ONLY EndsOfMore, Zenon
    <3> QED
      BY ONLY <3>2, <3>3
  <2> HIDE DEF k, K
  <2>9. \A x : x \in Ends(Hop(s, t)) => x \notin Ends(K)
    BY ONLY <1>3, <1>8, <1>11, <2>7, <2>8
  <2>10. /\ Path(Link(s, t) \o k, s, t1, Hop(s, t) \cup K)
         /\ \A x : x \in Ends(Hop(s, t) \cup K) <=> x \in Ends(Hop(s, t)) \/ x \in Ends(K)
    BY ONLY <1>8, <2>8, <2>9, PathJoin, ZenonT(60)
  <2>11. f \notin Ends(Hop(s, t) \cup K)
    BY ONLY <1>3, <1>8, <2>7, <2>8, <2>10
  <2>12. /\ Path((Link(s, t) \o k) \o Link(t1, f), s, f, (Hop(s, t) \cup K) \cup Hop(t1, f))
         /\ \A x : x \in Ends((Hop(s, t) \cup K) \cup Hop(t1, f))
                    <=> x \in Ends(Hop(s, t) \cup K) \/ x = f
    <3>1. Path((Link(s, t) \o k) \o Link(t1, f), s, f, (Hop(s, t) \cup K) \cup Hop(t1, f))
      BY ONLY <1>2, <2>10, <2>11, PathHop
    <3>2. \A x : x \in Ends((Hop(s, t) \cup K) \cup Hop(t1, f))
                  <=> x \in Ends(Hop(s, t) \cup K) \/ x = f
      BY ONLY EndsOfMore, Zenon
    <3> QED
      BY ONLY <3>1, <3>2
  <2>13. Path(r, s, f, L)
    BY ONLY <2>2, <2>12
  <2>14. s \notin Ends(L)
    BY ONLY <1>3, <1>8, <2>2, <2>7, <2>8, <2>10, <2>12
  <2> QED
    BY <2>4, <2>13, <2>14
<1>12. Path(r, s, f, L) /\ s \notin Ends(L) /\ Flip(L) = L1
  BY ONLY <1>4, <1>9, <1>10, <1>11
<1> QED
  BY <1>12 DEF s, f, r, L, L1

(* A route of the CONGA testbed with ecmp is one.                          *)
LEMMA EcmpPath ==
  ASSUME NEW a \in ServerIds, NEW b \in ServerIds, a.tor # b.tor, NEW core \in Nat
  PROVE  LET L == EcmpLinks(a, b, core)
         IN  /\ Path(LeafRoute(a, b, core, TRUE), ServerNode(a), ServerNode(b), L)
             /\ ServerNode(a) \notin Ends(L) /\ Flip(L) = EcmpLinks(b, a, core)
<1> DEFINE s == ServerNode(a)
           f == ServerNode(b)
           t == TorNode(0, a.tor)
           t1 == TorNode(0, b.tor)
           c == CoreNode(0, core)
           r == LeafRoute(a, b, core, TRUE)
           L == EcmpLinks(a, b, core)
           L1 == EcmpLinks(b, a, core)
<1>1. a.tor \in Nat /\ b.tor \in Nat /\ 0 \in Nat
  BY DEF ServerIds
<1>2. s \in Nodes /\ f \in Nodes /\ t \in Nodes /\ t1 \in Nodes /\ c \in Nodes
  BY <1>1, NodesAreNodes
<1>3. /\ s # f /\ s # t /\ s # t1 /\ s # c /\ f # t /\ f # t1 /\ f # c
      /\ t # t1 /\ t # c /\ t1 # c
  BY <1>1, NodesApart
<1>4. r = Link(s, t) \o <<>> \o Link(t, c) \o Link(c, t1) \o <<>> \o Link(t1, f)
  BY DEF LeafRoute
<1>5. /\ L = ((Hop(s, t) \cup Hop(t, c)) \cup Hop(c, t1)) \cup Hop(t1, f)
      /\ L1 = ((Hop(f, t1) \cup Hop(t1, c)) \cup Hop(c, t)) \cup Hop(t, s)
  BY DEF EcmpLinks
<1> HIDE DEF s, f, t, t1, c, r, L, L1
<1>6. Path(Link(s, t), s, t, Hop(s, t)) /\ \A x : x \in Ends(Hop(s, t)) <=> x = t
  BY <1>2, PathStart
<1> DEFINE q == Link(s, t) \o Link(t, c)
           M == Hop(s, t) \cup Hop(t, c)
           u == q \o Link(c, t1)
           N == M \cup Hop(c, t1)
<1>7. Flip(L) = L1
  <2>1. L = {<<s, t>>, <<t, c>>, <<c, t1>>, <<t1, f>>}
    BY <1>5 DEF Hop
  <2>2. L1 = {<<f, t1>>, <<t1, c>>, <<c, t>>, <<t, s>>}
    BY <1>5 DEF Hop
  <2> QED
    BY ONLY <2>1, <2>2, FlipFour
<1>8. Link(s, t) \o <<>> = Link(s, t)
  BY <1>6, PathNothing
<1>9. Path(q, s, c, M) /\ \A x : x \in Ends(M) <=> x \in Ends(Hop(s, t)) \/ x = c
  <2>1. c \notin Ends(Hop(s, t))
    BY ONLY <1>3, <1>6
  <2>2. Path(q, s, c, M)
    BY ONLY <1>2, <1>6, <2>1, PathHop
  <2>3. \A x : x \in Ends(M) <=> x \in Ends(Hop(s, t)) \/ x = c
    BY ONLY EndsOfMore, Zenon
  <2> QED
    BY ONLY <2>2, <2>3
<1>10. r = u \o <<>> \o Link(t1, f) /\ L = N \cup Hop(t1, f)
  BY <1>4, <1>5, <1>8
<1> HIDE DEF q, M
<1>11. Path(u, s, t1, N) /\ \A x : x \in Ends(N) <=> x \in Ends(M) \/ x = t1
  <2>1. t1 \notin Ends(M)
    BY ONLY <1>3, <1>6, <1>9
  <2>2. Path(u, s, t1, N)
    BY ONLY <1>2, <1>9, <2>1, PathHop
  <2>3. \A x : x \in Ends(N) <=> x \in Ends(M) \/ x = t1
    BY ONLY EndsOfMore, Zenon
  <2> QED
    BY ONLY <2>2, <2>3
<1> HIDE DEF u, N
<1>12. r = u \o Link(t1, f)
  <2>1. u \o <<>> = u
    BY <1>11, PathNothing
  <2> QED
    BY ONLY <1>10, <2>1
<1>13. /\ Path(u \o Link(t1, f), s, f, N \cup Hop(t1, f))
       /\ \A x : x \in Ends(N \cup Hop(t1, f)) <=> x \in Ends(N) \/ x = f
  <2>1. f \notin Ends(N)
    BY ONLY <1>3, <1>6, <1>9, <1>11
  <2>2. Path(u \o Link(t1, f), s, f, N \cup Hop(t1, f))
    BY ONLY <1>2, <1>11, <2>1, PathHop
  <2>3. \A x : x \in Ends(N \cup Hop(t1, f)) <=> x \in Ends(N) \/ x = f
    BY ONLY EndsOfMore, Zenon
  <2> QED
    BY ONLY <2>2, <2>3
<1>14. Path(r, s, f, L)
  BY ONLY <1>10, <1>12, <1>13
<1>15. s \notin Ends(L)
  BY ONLY <1>3, <1>6, <1>9, <1>10, <1>11, <1>13
<1> QED
  BY <1>7, <1>14, <1>15 DEF s, f, r, L, L1

-----------------------------------------------------------------------------
(* The servers of a flow.                                                  *)

(* A quotient is what it is.                                               *)
LEMMA Quotient ==
  ASSUME NEW d \in Nat \ {0}, NEW u \in Nat, NEW w \in 0 .. (d - 1), NEW n \in Nat, n = d * u + w
  PROVE  n \div d = u
<1> DEFINE k == n \div d
<1>1. k \in Nat /\ n % d \in 0 .. (d - 1) /\ n = d * k + (n % d)
  BY DivNat
<1> HIDE DEF k
<1>2. d * (u - k) = (n % d) - w
  BY <1>1
<1>3. CASE u > k
  <2>1. d * (u - k) >= d
    BY <1>1, <1>3
  <2> QED
    BY <1>1, <1>2, <2>1
<1>4. CASE u < k
  <2>1. d * (k - u) >= d
    BY <1>1, <1>4
  <2>2. d * (u - k) = 0 - d * (k - u)
    BY <1>1
  <2> QED
    BY <1>1, <1>2, <2>1, <2>2
<1> QED
  BY <1>1, <1>3, <1>4 DEF k

(* Different numbers are different servers.                                *)
LEMMA CoordinatesFacts ==
  /\ \A n \in Nat : Coordinates(n) \in ServerIds
  /\ \A m, n \in Nat : Coordinates(m) = Coordinates(n) => m = n
<1>1. N_TOR \in Nat \ {0} /\ N_SERVER \in Nat \ {0}
  BY TopologyAssumption
<1> DEFINE T == N_TOR
           S == N_SERVER
           q(n) == n \div S
           u(n) == q(n) \div T
<1>2. \A n \in Nat : /\ q(n) \in Nat /\ n % S \in 0 .. (S - 1) /\ n = S * q(n) + (n % S)
                     /\ u(n) \in Nat /\ q(n) % T \in 0 .. (T - 1) /\ q(n) = T * u(n) + (q(n) % T)
  <2> SUFFICES ASSUME NEW n \in Nat
               PROVE  /\ q(n) \in Nat /\ n % S \in 0 .. (S - 1) /\ n = S * q(n) + (n % S)
                      /\ u(n) \in Nat /\ q(n) % T \in 0 .. (T - 1) /\ q(n) = T * u(n) + (q(n) % T)
    OBVIOUS
  <2>1. q(n) \in Nat /\ n % S \in 0 .. (S - 1) /\ n = S * q(n) + (n % S)
    BY <1>1, DivNat
  <2> HIDE DEF q
  <2>2. u(n) \in Nat /\ q(n) % T \in 0 .. (T - 1) /\ q(n) = T * u(n) + (q(n) % T)
    BY <1>1, <2>1, DivNat
  <2> QED
    BY <2>1, <2>2
<1>3. \A n \in Nat : n \div N_NODES_SUBTREE = u(n)
  <2> SUFFICES ASSUME NEW n \in Nat
               PROVE  n \div N_NODES_SUBTREE = u(n)
    OBVIOUS
  <2> DEFINE v == q(n) % T
             w == n % S
             U == u(n)
             Q == q(n)
             d == T * S
  <2>1. U \in Nat /\ Q \in Nat /\ v \in 0 .. (T - 1) /\ w \in 0 .. (S - 1) /\ n = S * Q + w /\ Q = T * U + v
    BY <1>2
  <2>2. T \in Nat \ {0} /\ S \in Nat \ {0}
    BY <1>1
  <2> HIDE DEF v, w, U, Q, T, S
  <2>3. n = S * (T * U + v) + w
    BY ONLY <2>1
  <2>4. S * (T * U + v) = (T * S) * U + S * v
    BY ONLY <2>1, <2>2
  <2>5. S * v \in Nat /\ S * v <= S * (T - 1)
    BY ONLY <2>1, <2>2
  <2>6. S * (T - 1) = T * S - S
    BY ONLY <2>2
  <2>7. d \in Nat \ {0}
    BY ONLY <2>2
  <2>8. n = d * U + (S * v + w) /\ S * v + w \in 0 .. (d - 1)
    <3> DEFINE x == S * v
               y == d * U
    <3>1. x \in Nat /\ y \in Nat /\ n = (y + x) + w
      BY ONLY <2>1, <2>3, <2>4, <2>5, <2>7
    <3>2. x <= d - S
      BY ONLY <2>5, <2>6
    <3> HIDE DEF x, y, d
    <3>3. n = y + (x + w) /\ x + w \in 0 .. (d - 1)
      BY ONLY <2>1, <2>2, <2>7, <3>1, <3>2
    <3> QED
      BY ONLY <3>3 DEF x, y
  <2> HIDE DEF d
  <2>9. n \div d = U
    BY ONLY <2>1, <2>7, <2>8, Quotient, n \in Nat
  <2> QED
    BY <2>9 DEF d, U, T, S, N_NODES_SUBTREE
<1>4. \A n \in Nat : Coordinates(n) \in ServerIds
  <2> SUFFICES ASSUME NEW n \in Nat
               PROVE  Coordinates(n) \in ServerIds
    OBVIOUS
  <2>1. u(n) \in Nat /\ q(n) % T \in Nat /\ n % S \in Nat
    BY <1>2
  <2>2. Coordinates(n) = [tree |-> u(n), tor |-> q(n) % T, svr |-> n % S]
    BY <1>3 DEF Coordinates
  <2> QED
    BY ONLY <2>1, <2>2 DEF ServerIds
<1>5. ASSUME NEW m \in Nat, NEW n \in Nat, Coordinates(m) = Coordinates(n)
      PROVE  m = n
  <2>1. u(m) = u(n) /\ q(m) % T = q(n) % T /\ m % S = n % S
    BY <1>3, <1>5 DEF Coordinates
  <2>2. q(m) = T * u(m) + (q(m) % T) /\ q(n) = T * u(n) + (q(n) % T)
    BY <1>2
  <2>3. q(m) = q(n)
    BY ONLY <2>1, <2>2
  <2>4. m = S * q(m) + (m % S) /\ n = S * q(n) + (n % S)
    BY <1>2
  <2> QED
    BY ONLY <2>1, <2>3, <2>4
<1> QED
  BY <1>4, <1>5

(* The two switches of a pair of servers of the CONGA testbed.             *)
LEMMA OtherLeaf ==
  ASSUME NEW tor \in Below(N_LEAF), NEW r \in Below(N_LEAF - 1)
  PROVE  (tor + 1 + r) % N_LEAF \in Nat /\ (tor + 1 + r) % N_LEAF # tor
<1> DEFINE n == tor + 1 + r
           N == N_LEAF
<1>1. N \in Nat \ {0} /\ tor \in 0 .. (N - 1) /\ r \in 0 .. (N - 2)
  BY TopologyAssumption DEF Below
<1>2. n \in Nat /\ n = tor + 1 + r
  BY <1>1
<1> HIDE DEF n, N
<1> DEFINE k == n \div N
           w == n % N
<1>3. k \in Nat /\ w \in 0 .. (N - 1) /\ n = N * k + w
  BY <1>1, <1>2, DivNat
<1> HIDE DEF k, w
<1>4. w # tor
  <2> SUFFICES ASSUME w = tor
               PROVE  FALSE
    OBVIOUS
  <2>1. N * k = 1 + r /\ N * k \in 1 .. (N - 1)
    BY <1>1, <1>2, <1>3
  <2>2. CASE k = 0
    BY <1>1, <2>1, <2>2
  <2>3. CASE k >= 1
    <3>1. N * k >= N
      BY <1>1, <1>3, <2>3
    <3> QED
      BY <1>1, <2>1, <3>1
  <2> QED
    BY <1>3, <2>2, <2>3
<1> QED
  BY <1>1, <1>3, <1>4 DEF w, n, N

-----------------------------------------------------------------------------
(* The route of a CONGA flow, element by element.                          *)

(* One element, or two, at the end of a sequence.                          *)
LEMMA CatOne ==
  ASSUME NEW s \in Seq(Elements), NEW e \in Elements
  PROVE  /\ s \o <<e>> \in Seq(Elements) /\ Len(s \o <<e>>) = Len(s) + 1
         /\ \A i \in 1 .. Len(s) : (s \o <<e>>)[i] = s[i]
         /\ (s \o <<e>>)[Len(s) + 1] = e
OBVIOUS

(* A link at the end of a sequence.                                        *)
LEMMA CatLink ==
  ASSUME NEW s \in Seq(Elements), NEW a \in Nodes, NEW b \in Nodes
  PROVE  /\ s \o Link(a, b) \in Seq(Elements) /\ Len(s \o Link(a, b)) = Len(s) + 2
         /\ \A i \in 1 .. Len(s) : (s \o Link(a, b))[i] = s[i]
         /\ (s \o Link(a, b))[Len(s) + 1] = Element("queue", a, b)
         /\ (s \o Link(a, b))[Len(s) + 2] = Element("pipe", a, b)
<1> DEFINE e == Element("queue", a, b)
           p == Element("pipe", a, b)
<1>1. e \in Elements /\ p \in Elements
  BY ElementFacts DEF Kinds
<1>2. Link(a, b) = <<e, p>>
  BY DEF Link
<1> HIDE DEF e, p
<1>3. /\ s \o <<e, p>> \in Seq(Elements) /\ Len(s \o <<e, p>>) = Len(s) + 2
      /\ \A i \in 1 .. Len(s) : (s \o <<e, p>>)[i] = s[i]
      /\ (s \o <<e, p>>)[Len(s) + 1] = e /\ (s \o <<e, p>>)[Len(s) + 2] = p
  BY <1>1
<1> QED
  BY <1>2, <1>3 DEF e, p

(* Its elements, behind the first o of the vector v.                       *)
LeafElements(v, o, x, y, k) ==
  /\ v[o + 1] = Element("queue", ServerNode(x), TorNode(0, x.tor))
  /\ v[o + 2] = Element("pipe", ServerNode(x), TorNode(0, x.tor))
  /\ v[o + 3] = At("tor", TorNode(0, x.tor))
  /\ v[o + 4] = Element("queue", TorNode(0, x.tor), CoreNode(0, k))
  /\ v[o + 5] = Element("pipe", TorNode(0, x.tor), CoreNode(0, k))
  /\ v[o + 6] = Element("queue", CoreNode(0, k), TorNode(0, y.tor))
  /\ v[o + 7] = Element("pipe", CoreNode(0, k), TorNode(0, y.tor))
  /\ v[o + 8] = At("tor", TorNode(0, y.tor))
  /\ v[o + 9] = Element("queue", TorNode(0, y.tor), ServerNode(y))
  /\ v[o + 10] = Element("pipe", TorNode(0, y.tor), ServerNode(y))

(* What routeGenerate returns.                                             *)
LEMMA LeafVector ==
  ASSUME NEW a \in ServerIds, NEW b \in ServerIds, NEW core \in Nat
  PROVE  /\ LeafRoute(a, b, core, FALSE) \in Seq(Elements) /\ Len(LeafRoute(a, b, core, FALSE)) = 10
         /\ LeafElements(LeafRoute(a, b, core, FALSE), 0, a, b, core)
<1> DEFINE s == ServerNode(a)
           f == ServerNode(b)
           t == TorNode(0, a.tor)
           u == TorNode(0, b.tor)
           c == CoreNode(0, core)
           r == LeafRoute(a, b, core, FALSE)
           r1 == Link(s, t)
           r2 == r1 \o <<At("tor", t)>>
           r3 == r2 \o Link(t, c)
           r4 == r3 \o Link(c, u)
           r5 == r4 \o <<At("tor", u)>>
           r6 == r5 \o Link(u, f)
<1>1. s \in Nodes /\ f \in Nodes /\ t \in Nodes /\ u \in Nodes /\ c \in Nodes
  <2>1. a.tor \in Nat /\ b.tor \in Nat /\ 0 \in Nat
    BY DEF ServerIds
  <2> QED
    BY <2>1, NodesAreNodes
<1>2. r = r6
  BY DEF LeafRoute
<1> HIDE DEF s, f, t, u, c, r
<1>3. At("tor", t) \in Elements /\ At("tor", u) \in Elements
  BY <1>1, ElementFacts DEF Kinds
<1>4. r1 \in Seq(Elements) /\ Len(r1) = 2 /\ r1[1] = Element("queue", s, t) /\ r1[2] = Element("pipe", s, t)
  <2>1. Element("queue", s, t) \in Elements /\ Element("pipe", s, t) \in Elements
    BY <1>1, ElementFacts DEF Kinds
  <2> QED
    BY <2>1 DEF Link
<1> HIDE DEF r1
<1>5. /\ r2 \in Seq(Elements) /\ Len(r2) = 3
      /\ \A i \in 1 .. 2 : r2[i] = r1[i]
      /\ r2[3] = At("tor", t)
  <2>1. /\ r2 \in Seq(Elements) /\ Len(r2) = Len(r1) + 1
        /\ \A i \in 1 .. Len(r1) : r2[i] = r1[i]
        /\ r2[Len(r1) + 1] = At("tor", t)
    BY ONLY <1>3, <1>4, CatOne
  <2> HIDE DEF r2
  <2> QED
    BY ONLY <1>4, <2>1
<1> HIDE DEF r2
<1>6. /\ r3 \in Seq(Elements) /\ Len(r3) = 5
      /\ \A i \in 1 .. 3 : r3[i] = r2[i]
      /\ r3[4] = Element("queue", t, c) /\ r3[5] = Element("pipe", t, c)
  <2>1. /\ r3 \in Seq(Elements) /\ Len(r3) = Len(r2) + 2
        /\ \A i \in 1 .. Len(r2) : r3[i] = r2[i]
        /\ r3[Len(r2) + 1] = Element("queue", t, c)
        /\ r3[Len(r2) + 2] = Element("pipe", t, c)
    BY ONLY <1>1, <1>5, CatLink, ZenonT(60)
  <2> HIDE DEF r3
  <2> QED
    BY ONLY <1>5, <2>1
<1> HIDE DEF r3
<1>7. /\ r4 \in Seq(Elements) /\ Len(r4) = 7
      /\ \A i \in 1 .. 5 : r4[i] = r3[i]
      /\ r4[6] = Element("queue", c, u) /\ r4[7] = Element("pipe", c, u)
  <2>1. /\ r4 \in Seq(Elements) /\ Len(r4) = Len(r3) + 2
        /\ \A i \in 1 .. Len(r3) : r4[i] = r3[i]
        /\ r4[Len(r3) + 1] = Element("queue", c, u)
        /\ r4[Len(r3) + 2] = Element("pipe", c, u)
    BY ONLY <1>1, <1>6, CatLink, ZenonT(60)
  <2> HIDE DEF r4
  <2> QED
    BY ONLY <1>6, <2>1
<1> HIDE DEF r4
<1>8. /\ r5 \in Seq(Elements) /\ Len(r5) = 8
      /\ \A i \in 1 .. 7 : r5[i] = r4[i]
      /\ r5[8] = At("tor", u)
  <2>1. /\ r5 \in Seq(Elements) /\ Len(r5) = Len(r4) + 1
        /\ \A i \in 1 .. Len(r4) : r5[i] = r4[i]
        /\ r5[Len(r4) + 1] = At("tor", u)
    BY ONLY <1>3, <1>7, CatOne
  <2> HIDE DEF r5
  <2> QED
    BY ONLY <1>7, <2>1
<1> HIDE DEF r5
<1>9. /\ r6 \in Seq(Elements) /\ Len(r6) = 10
      /\ \A i \in 1 .. 8 : r6[i] = r5[i]
      /\ r6[9] = Element("queue", u, f) /\ r6[10] = Element("pipe", u, f)
  <2>1. /\ r6 \in Seq(Elements) /\ Len(r6) = Len(r5) + 2
        /\ \A i \in 1 .. Len(r5) : r6[i] = r5[i]
        /\ r6[Len(r5) + 1] = Element("queue", u, f)
        /\ r6[Len(r5) + 2] = Element("pipe", u, f)
    BY ONLY <1>1, <1>8, CatLink, ZenonT(60)
  <2> HIDE DEF r6
  <2> QED
    BY ONLY <1>8, <2>1
<1> HIDE DEF r6
<1>10. /\ r6[1] = Element("queue", s, t) /\ r6[2] = Element("pipe", s, t) /\ r6[3] = At("tor", t)
       /\ r6[4] = Element("queue", t, c) /\ r6[5] = Element("pipe", t, c)
       /\ r6[6] = Element("queue", c, u) /\ r6[7] = Element("pipe", c, u) /\ r6[8] = At("tor", u)
  BY ONLY <1>4, <1>5, <1>6, <1>7, <1>8, <1>9
<1>11. LeafElements(r6, 0, a, b, core)
  <2>1. /\ r6[0 + 1] = Element("queue", s, t) /\ r6[0 + 2] = Element("pipe", s, t)
        /\ r6[0 + 3] = At("tor", t)
        /\ r6[0 + 4] = Element("queue", t, c) /\ r6[0 + 5] = Element("pipe", t, c)
        /\ r6[0 + 6] = Element("queue", c, u) /\ r6[0 + 7] = Element("pipe", c, u)
        /\ r6[0 + 8] = At("tor", u)
        /\ r6[0 + 9] = Element("queue", u, f) /\ r6[0 + 10] = Element("pipe", u, f)
    BY ONLY <1>9, <1>10
  <2> QED
    BY ONLY <2>1 DEF LeafElements, s, f, t, u, c
<1> QED
  BY <1>2, <1>9, <1>11 DEF r

(* With the ends of the flow it is a vector of the flow.                   *)
LEMMA LeafThrough ==
  ASSUME NEW k \in Below(N_CORE), flow.src \in ServerIds, flow.dst \in ServerIds,
         flow.src.tor # flow.dst.tor
  PROVE  /\ Through(<<At("endhostQ", ServerNode(flow.src))>> \o LeafRoute(flow.src, flow.dst, k, FALSE)
                     \o <<At("end", ServerNode(flow.dst))>>, "fwd", CoreNode(0, k))
         /\ Through(LeafRoute(flow.dst, flow.src, k, FALSE) \o <<At("end", ServerNode(flow.src))>>,
                    "rev", CoreNode(0, k))
<1> DEFINE a == flow.src
           b == flow.dst
           q == At("endhostQ", ServerNode(a))
           e == At("end", ServerNode(b))
           g == At("end", ServerNode(a))
           r == LeafRoute(a, b, k, FALSE)
           w == LeafRoute(b, a, k, FALSE)
<1>1. k \in Nat
  BY DEF Below
<1>2. q \in Elements /\ e \in Elements /\ g \in Elements
  BY NodesAreNodes, ElementFacts DEF Kinds
<1>3. /\ r \in Seq(Elements) /\ Len(r) = 10 /\ LeafElements(r, 0, a, b, k)
      /\ w \in Seq(Elements) /\ Len(w) = 10 /\ LeafElements(w, 0, b, a, k)
  BY <1>1, LeafVector
<1> HIDE DEF r, w
<1>4. Through(w \o <<g>>, "rev", CoreNode(0, k))
  <2> DEFINE v == w \o <<g>>
  <2>1. v \in Seq(Elements) /\ Len(v) = 11 /\ v[11] = g /\ \A i \in 1 .. 10 : v[i] = w[i]
    <3>1. /\ v \in Seq(Elements) /\ Len(v) = Len(w) + 1
          /\ \A i \in 1 .. Len(w) : v[i] = w[i]
          /\ v[Len(w) + 1] = g
      BY ONLY <1>2, <1>3, CatOne
    <3> HIDE DEF v
    <3> QED
      BY ONLY <1>3, <3>1
  <2> HIDE DEF v
  <2>2. LeafElements(v, 0, b, a, k)
    BY <1>3, <2>1 DEF LeafElements
  <2>3. /\ First0("rev") = 0 /\ Start("rev") = ServerNode(b) /\ Finish("rev") = ServerNode(a)
        /\ SrcTor("rev") = TorNode(0, b.tor) /\ DstTor("rev") = TorNode(0, a.tor)
    BY DEF First0, Start, Finish, SrcTor, DstTor
  <2>4. Through(v, "rev", CoreNode(0, k))
    BY <2>1, <2>2, <2>3 DEF Through, LeafElements
  <2> QED
    BY <2>4 DEF v
<1>5. Through(<<q>> \o r \o <<e>>, "fwd", CoreNode(0, k))
  <2> DEFINE x == <<q>> \o r
             v == x \o <<e>>
  <2>1. x \in Seq(Elements) /\ Len(x) = 11 /\ x[1] = q /\ \A i \in 1 .. 10 : x[1 + i] = r[i]
    <3> HIDE DEF q
    <3>1. <<q>> \in Seq(Elements) /\ Len(<<q>>) = 1 /\ <<q>>[1] = q
      BY <1>2
    <3>2. /\ x \in Seq(Elements) /\ Len(x) = 11
          /\ \A i \in 1 .. 11 : x[i] = IF i <= 1 THEN <<q>>[i] ELSE r[i - 1]
      <4> DEFINE y == <<q>>
      <4>1. y \in Seq(Elements) /\ Len(y) = 1
        BY <3>1
      <4> HIDE DEF y
      <4> DEFINE z == y \o r
      <4>2. /\ z \in Seq(Elements) /\ Len(z) = Len(y) + Len(r)
            /\ \A i \in 1 .. Len(y) + Len(r) : z[i] = IF i <= Len(y) THEN y[i] ELSE r[i - Len(y)]
        BY ONLY <1>3, <4>1, ConcatProperties
      <4> HIDE DEF z
      <4>3. /\ z \in Seq(Elements) /\ Len(z) = 11
            /\ \A i \in 1 .. 11 : z[i] = IF i <= 1 THEN y[i] ELSE r[i - 1]
        BY ONLY <1>3, <4>1, <4>2
      <4> QED
        BY <4>3 DEF y, z
    <3> HIDE DEF x
    <3>3. \A i \in 1 .. 10 : 1 + i \in 1 .. 11 /\ ~ (1 + i <= 1) /\ (1 + i) - 1 = i
      OBVIOUS
    <3>4. \A i \in 1 .. 10 : x[1 + i] = r[i]
      BY <3>2, <3>3
    <3>5. x[1] = q
      BY <3>1, <3>2
    <3> QED
      BY <3>2, <3>4, <3>5
  <2> HIDE DEF x
  <2>2. v \in Seq(Elements) /\ Len(v) = 12 /\ v[12] = e /\ \A i \in 1 .. 11 : v[i] = x[i]
    <3>1. /\ v \in Seq(Elements) /\ Len(v) = Len(x) + 1
          /\ \A i \in 1 .. Len(x) : v[i] = x[i]
          /\ v[Len(x) + 1] = e
      BY ONLY <1>2, <2>1, CatOne
    <3> HIDE DEF v
    <3> QED
      BY ONLY <2>1, <3>1
  <2> HIDE DEF v
  <2>3. v[1] = q /\ \A i \in 1 .. 10 : v[1 + i] = r[i]
    BY <2>1, <2>2
  <2>4. LeafElements(v, 1, a, b, k)
    BY <1>3, <2>3 DEF LeafElements
  <2>5. /\ First0("fwd") = 1 /\ Start("fwd") = ServerNode(a) /\ Finish("fwd") = ServerNode(b)
        /\ SrcTor("fwd") = TorNode(0, a.tor) /\ DstTor("fwd") = TorNode(0, b.tor)
    BY DEF First0, Start, Finish, SrcTor, DstTor
  <2>6. Through(v, "fwd", CoreNode(0, k))
    BY <2>2, <2>3, <2>4, <2>5 DEF Through, LeafElements
  <2> QED
    BY <2>6 DEF v, x
<1> QED
  BY <1>4, <1>5 DEF r, w

-----------------------------------------------------------------------------
(* Initial states.                                                         *)

(* Two paths, there and back, with the ends behind them.                   *)
LEMMA PathsVectors ==
  ASSUME flow.src \in ServerIds, flow.dst \in ServerIds, flow.src # flow.dst,
         flow.testbed # "conga", NEW p, NEW q, NEW L,
         Path(p, ServerNode(flow.src), ServerNode(flow.dst), L),
         Path(q, ServerNode(flow.dst), ServerNode(flow.src), Flip(L)),
         ServerNode(flow.src) \notin Ends(L), ServerNode(flow.dst) \notin Ends(Flip(L)),
         route = [fwd |-> p \o <<At("end", ServerNode(flow.dst))>>,
                  rev |-> q \o <<At("end", ServerNode(flow.src))>>]
  PROVE  VectorsOK
<1> DEFINE a == ServerNode(flow.src)
           b == ServerNode(flow.dst)
           v == p \o <<At("end", b)>>
           w == q \o <<At("end", a)>>
<1>1. a \in Nodes /\ b \in Nodes
  BY NodesAreNodes
<1>2. /\ v \in Seq(Elements) /\ Connects(v, a, b) /\ LinksOf(v) = L /\ Len(v) >= 2
      /\ \A i \in 1 .. Len(v) : v[i].kind # "tor"
  BY <1>1, PathEnd
<1>3. /\ w \in Seq(Elements) /\ Connects(w, b, a) /\ LinksOf(w) = Flip(L) /\ Len(w) >= 2
      /\ \A i \in 1 .. Len(w) : w[i].kind # "tor"
  BY <1>1, PathEnd
<1>4. route = [fwd |-> v, rev |-> w]
  OBVIOUS
<1> HIDE DEF v, w
<1>5. route["fwd"] = v /\ route["rev"] = w /\ route \in [Directions -> Seq(Elements)]
  <2>1. route["fwd"] = v /\ route["rev"] = w
    BY ONLY <1>4
  <2>2. v \in Seq(Elements) /\ w \in Seq(Elements)
    BY ONLY <1>2, <1>3
  <2>3. route \in [Directions -> Seq(Elements)]
    BY ONLY <1>4, <2>2 DEF Directions
  <2> QED
    BY ONLY <2>1, <2>3
<1>7. RoutesConnect
  <2>1. Start("fwd") = a /\ Finish("fwd") = b /\ Start("rev") = b /\ Finish("rev") = a
    BY DEF Start, Finish
  <2> QED
    BY <1>2, <1>3, <1>5, <2>1 DEF RoutesConnect, Directions
<1>8. AcksReturn
  <2>1. Way("fwd") = LinksOf(v) /\ Way("rev") = LinksOf(w)
    BY <1>5 DEF Way, LinksOf
  <2> QED
    BY <1>2, <1>3, <2>1 DEF AcksReturn, Flip
<1> QED
  BY <1>2, <1>3, <1>5, <1>7, <1>8 DEF VectorsOK, Directions

(* The two paths of a flow of the fat tree.                                *)
LEMMA InitTree ==
  ASSUME NEW a \in ServerIds, NEW b \in ServerIds, a # b, NEW agg \in Nat, NEW uplink \in Nat,
         flow.testbed = "fat_tree", flow.src = a, flow.dst = b,
         route = [fwd |-> <<>> \o TreeRoute(a, b, agg, agg, uplink) \o <<At("end", ServerNode(b))>>,
                  rev |-> TreeRoute(b, a, agg, agg, uplink) \o <<At("end", ServerNode(a))>>]
  PROVE  VectorsOK
<1> DEFINE p == TreeRoute(a, b, agg, agg, uplink)
           q == TreeRoute(b, a, agg, agg, uplink)
           L == TreeLinks(a, b, agg, uplink)
           M == TreeLinks(b, a, agg, uplink)
<1>1. Path(p, ServerNode(a), ServerNode(b), L) /\ ServerNode(a) \notin Ends(L) /\ Flip(L) = M
  BY TreePath
<1>2. Path(q, ServerNode(b), ServerNode(a), M) /\ ServerNode(b) \notin Ends(M)
  BY TreePath
<1>3. <<>> \o p = p
  <2>1. p \in Seq(Elements)
    BY <1>1 DEF Path
  <2> QED
    BY <2>1, ConcatEmptySeq
<1> HIDE DEF p, q, L, M
<1>4. route = [fwd |-> p \o <<At("end", ServerNode(b))>>, rev |-> q \o <<At("end", ServerNode(a))>>]
  BY <1>3 DEF p, q
<1>5. flow.testbed # "conga"
  OBVIOUS
<1> QED
  BY <1>1, <1>2, <1>4, <1>5, PathsVectors

(* Those of a flow of the CONGA testbed with ecmp.                         *)
LEMMA InitEcmp ==
  ASSUME NEW a \in ServerIds, NEW b \in ServerIds, a.tor # b.tor, NEW core \in Nat,
         flow.testbed = "ecmp", flow.src = a, flow.dst = b,
         route = [fwd |-> <<At("endhostQ", ServerNode(a))>> \o LeafRoute(a, b, core, TRUE)
                          \o <<At("end", ServerNode(b))>>,
                  rev |-> LeafRoute(b, a, core, TRUE) \o <<At("end", ServerNode(a))>>]
  PROVE  VectorsOK
<1> DEFINE e == <<At("endhostQ", ServerNode(a))>>
           r == LeafRoute(a, b, core, TRUE)
           p == e \o r
           q == LeafRoute(b, a, core, TRUE)
           L == EcmpLinks(a, b, core)
           M == EcmpLinks(b, a, core)
<1>1. Path(r, ServerNode(a), ServerNode(b), L) /\ ServerNode(a) \notin Ends(L) /\ Flip(L) = M
  BY EcmpPath
<1>2. Path(q, ServerNode(b), ServerNode(a), M) /\ ServerNode(b) \notin Ends(M)
  BY EcmpPath
<1>3. Path(e, ServerNode(a), ServerNode(a), {})
  BY NodesAreNodes, PathWait
<1> HIDE DEF e, r, L, M
<1>4. Path(p, ServerNode(a), ServerNode(b), L)
  <2>1. \A x : x \notin Ends({})
    BY DEF Ends
  <2>2. Path(p, ServerNode(a), ServerNode(b), {} \cup L)
    BY <1>1, <1>3, <2>1, PathJoin
  <2>3. {} \cup L = L
    OBVIOUS
  <2> QED
    BY <2>2, <2>3
<1>5. route = [fwd |-> p \o <<At("end", ServerNode(b))>>, rev |-> q \o <<At("end", ServerNode(a))>>]
  BY DEF e, r
<1>6. flow.testbed # "conga" /\ a # b
  OBVIOUS
<1> HIDE DEF p, q
<1> QED
  BY <1>1, <1>2, <1>4, <1>5, <1>6, PathsVectors

(* Those of a flow of the CONGA testbed.                                   *)
LEMMA InitConga ==
  ASSUME flow.src \in ServerIds, flow.dst \in ServerIds, flow.src.tor # flow.dst.tor,
         flow.testbed = "conga", NEW k \in Below(N_CORE),
         route = [fwd |-> <<At("endhostQ", ServerNode(flow.src))>>
                          \o LeafRoute(flow.src, flow.dst, k, FALSE)
                          \o <<At("end", ServerNode(flow.dst))>>,
                  rev |-> LeafRoute(flow.dst, flow.src, k, FALSE) \o <<At("end", ServerNode(flow.src))>>]
  PROVE  VectorsOK
<1> DEFINE c == CoreNode(0, k)
<1>1. c \in CongaCores
  BY DEF CongaCores
<1> HIDE DEF c
<1>2. Through(route["fwd"], "fwd", c) /\ Through(route["rev"], "rev", c)
  BY LeafThrough DEF c
<1>3. \A dir \in Directions : Through(route[dir], dir, c)
  BY <1>2 DEF Directions
<1>4. route["fwd"] \in Seq(Elements) /\ route["rev"] \in Seq(Elements)
  BY <1>2 DEF Through
<1>5. route \in [Directions -> Seq(Elements)]
  BY <1>4 DEF Directions
<1>6. VectorsOK
  BY <1>1, <1>3, <1>5 DEF VectorsOK
<1> QED
  BY <1>6

(* Every initial state.                                                    *)
LEMMA InitInv ==
  ASSUME Init
  PROVE  IInv
<1>1. PICK r \in TreeRoutes \cup LeafRoutes(TRUE) \cup LeafRoutes(FALSE) :
        /\ flow = [testbed |-> r.testbed, src |-> r.src, dst |-> r.dst]
        /\ route =
             [fwd |-> (IF r.testbed = "fat_tree" THEN <<>>
                       ELSE <<At("endhostQ", ServerNode(r.src))>>)
                      \o r.fwd \o <<At("end", ServerNode(r.dst))>>,
              rev |-> r.rev \o <<At("end", ServerNode(r.src))>>]
  BY DEF Init
<1>2. flow.testbed = r.testbed /\ flow.src = r.src /\ flow.dst = r.dst
  BY <1>1
<1>3. ASSUME r \in TreeRoutes
      PROVE  VectorsOK
  <2>1. PICK x \in Below(N_NODES - 1), dst \in Below(N_NODES),
             agg \in Below(N_AGG), uplink \in Below(N_UPLINK) :
          r = TreePair(Coordinates(OtherThan(x, dst)), Coordinates(dst), agg, agg, uplink)
    BY <1>3 DEF TreeRoutes, DstAggs
  <2> DEFINE a == Coordinates(OtherThan(x, dst))
             b == Coordinates(dst)
  <2>2. N_NODES \in Nat
    BY TopologyAssumption DEF N_NODES
  <2>3. x \in Nat /\ dst \in Nat /\ agg \in Nat /\ uplink \in Nat
    BY <2>2 DEF Below
  <2>4. OtherThan(x, dst) \in Nat /\ OtherThan(x, dst) # dst
    BY <2>3 DEF OtherThan
  <2>5. a \in ServerIds /\ b \in ServerIds /\ a # b
    BY <2>3, <2>4, CoordinatesFacts
  <2> HIDE DEF a, b
  <2>6. /\ r.testbed = "fat_tree" /\ r.src = a /\ r.dst = b
        /\ r.fwd = TreeRoute(a, b, agg, agg, uplink) /\ r.rev = TreeRoute(b, a, agg, agg, uplink)
    BY <2>1 DEF TreePair, a, b
  <2>7. flow.testbed = "fat_tree" /\ flow.src = a /\ flow.dst = b
    BY <1>2, <2>6
  <2>8. route = [fwd |-> <<>> \o TreeRoute(a, b, agg, agg, uplink) \o <<At("end", ServerNode(b))>>,
                 rev |-> TreeRoute(b, a, agg, agg, uplink) \o <<At("end", ServerNode(a))>>]
    BY <1>1, <2>6
  <2>9. VectorsOK
    BY <2>3, <2>5, <2>7, <2>8, InitTree
  <2> QED
    BY <2>9
<1>4. ASSUME NEW ecmp \in BOOLEAN, r \in LeafRoutes(ecmp)
      PROVE  \E a, b \in ServerIds, core \in Below(N_CORE) :
               a.tor # b.tor /\ r = LeafPair(a, b, core, ecmp)
  <2>1. PICK tor \in Below(N_LEAF), x \in Below(N_LEAF - 1),
             svr \in Below(N_SERVER), svr1 \in Below(N_SERVER), core \in Below(N_CORE) :
          r = LeafPair(LeafServer(tor, svr), LeafServer((tor + 1 + x) % N_LEAF, svr1), core, ecmp)
    BY <1>4 DEF LeafRoutes
  <2> DEFINE tor1 == (tor + 1 + x) % N_LEAF
             a == LeafServer(tor, svr)
             b == LeafServer(tor1, svr1)
  <2>2. tor1 \in Nat /\ tor1 # tor
    BY OtherLeaf
  <2>3. tor \in Nat /\ svr \in Nat /\ svr1 \in Nat
    BY DEF Below
  <2> HIDE DEF tor1
  <2>4. a \in ServerIds /\ b \in ServerIds /\ a.tor # b.tor
    BY <2>2, <2>3 DEF LeafServer, ServerIds
  <2>5. r = LeafPair(a, b, core, ecmp)
    BY <2>1 DEF tor1
  <2> QED
    BY <2>4, <2>5
<1>5. ASSUME r \in LeafRoutes(TRUE)
      PROVE  VectorsOK
  <2>1. PICK a \in ServerIds, b \in ServerIds, core \in Below(N_CORE) :
          a.tor # b.tor /\ r = LeafPair(a, b, core, TRUE)
    BY <1>4, <1>5
  <2>2. core \in Nat
    BY DEF Below
  <2>3. /\ r.testbed = "ecmp" /\ r.src = a /\ r.dst = b
        /\ r.fwd = LeafRoute(a, b, core, TRUE) /\ r.rev = LeafRoute(b, a, core, TRUE)
    BY <2>1 DEF LeafPair
  <2>4. flow.testbed = "ecmp" /\ flow.src = a /\ flow.dst = b
    BY <1>2, <2>3
  <2>5. route = [fwd |-> <<At("endhostQ", ServerNode(a))>> \o LeafRoute(a, b, core, TRUE)
                         \o <<At("end", ServerNode(b))>>,
                 rev |-> LeafRoute(b, a, core, TRUE) \o <<At("end", ServerNode(a))>>]
    BY <1>1, <2>3
  <2> QED
    BY <2>1, <2>2, <2>4, <2>5, InitEcmp
<1>6. ASSUME r \in LeafRoutes(FALSE)
      PROVE  VectorsOK
  <2>1. PICK a \in ServerIds, b \in ServerIds, core \in Below(N_CORE) :
          a.tor # b.tor /\ r = LeafPair(a, b, core, FALSE)
    BY <1>4, <1>6
  <2>2. /\ r.testbed = "conga" /\ r.src = a /\ r.dst = b
        /\ r.fwd = LeafRoute(a, b, core, FALSE) /\ r.rev = LeafRoute(b, a, core, FALSE)
    BY <2>1 DEF LeafPair
  <2>3. flow.testbed = "conga" /\ flow.src = a /\ flow.dst = b
    BY <1>2, <2>2
  <2>4. route = [fwd |-> <<At("endhostQ", ServerNode(flow.src))>>
                         \o LeafRoute(flow.src, flow.dst, core, FALSE)
                         \o <<At("end", ServerNode(flow.dst))>>,
                 rev |-> LeafRoute(flow.dst, flow.src, core, FALSE) \o <<At("end", ServerNode(flow.src))>>]
    BY <1>1, <2>2, <2>3
  <2> QED
    BY <2>1, <2>3, <2>4, InitConga
<1>7. VectorsOK
  BY <1>3, <1>5, <1>6
<1>8. packets \in Seq(GoodPackets)
  BY DEF Init
<1> QED
  BY <1>7, <1>8 DEF IInv

-----------------------------------------------------------------------------
(* What the invariant says.                                                *)

(* The vectors connect and return.                                         *)
LEMMA VectorsFacts ==
  ASSUME VectorsOK
  PROVE  RoutesConnect /\ AcksReturn
<1>1. CASE flow.testbed = "conga"
  <2>1. /\ flow.src \in ServerIds /\ flow.dst \in ServerIds /\ flow.src.tor # flow.dst.tor
        /\ \A dir \in Directions : \E core \in CongaCores : Through(route[dir], dir, core)
    BY <1>1 DEF VectorsOK
  <2>2. AcksReturn
    BY <1>1, <2>1, ThroughReturns
  <2>3. RoutesConnect
    BY <2>1, ThroughConnects DEF RoutesConnect
  <2> QED
    BY <2>2, <2>3
<1>2. CASE flow.testbed # "conga"
  BY <1>2 DEF VectorsOK
<1> QED
  BY <1>1, <1>2

(* A node is no mark.                                                      *)
LEMMA NoMark ==
  \A n \in Nodes : n # <<"core">>
<1>1. \A x \in ServerIds : ServerNode(x) # <<"core">>
  BY CoresFacts
<1>2. \A x, y \in Nat : TorNode(x, y) # <<"core">>
  BY CoresFacts
<1>3. \A x, y \in Nat : AggNode(x, y) # <<"core">>
  <2>1. \A x, y \in Nat : AggNode(x, y)[1] = "agg" /\ <<"core">>[1] = "core"
    BY DEF AggNode
  <2> QED
    BY <2>1
<1>4. \A x, y \in Nat : CoreNode(x, y) # <<"core">>
  <2>1. \A x, y \in Nat : Len(CoreNode(x, y)) = 3 /\ Len(<<"core">>) = 1
    BY DEF CoreNode
  <2> QED
    BY <2>1
<1> QED
  BY <1>1, <1>2, <1>3, <1>4 DEF Nodes

(* On the course of a CONGA vector the sixth hop, and no other, is a core  *)
(* queue; the leaf switches are at the third and the eighth.               *)
LEMMA CongaHops ==
  ASSUME flow.src \in ServerIds, flow.dst \in ServerIds, flow.src.tor # flow.dst.tor,
         flow.testbed = "conga",
         NEW dir \in Directions, NEW core \in CongaCores, NEW r, Through(r, dir, core)
  PROVE  \A n \in 1 .. Len(r), e \in Elements :
           SameButCore(e, r[n]) =>
             /\ IsCoreQueue(e) <=> n = First0(dir) + 6
             /\ r[n].kind = "tor" => n = First0(dir) + 3 \/ n = First0(dir) + 8
<1> DEFINE o == First0(dir)
           Q(n) == r[n].kind = "queue" /\ r[n].from \in Cores
<1>0. /\ Len(r) = o + 11 /\ o \in {0, 1}
      /\ o = 1 => r[1].kind = "endhostQ"
      /\ r[o + 1].kind = "queue" /\ r[o + 2].kind = "pipe" /\ r[o + 3].kind = "tor"
      /\ r[o + 4].kind = "queue" /\ r[o + 5].kind = "pipe" /\ r[o + 6].kind = "queue"
      /\ r[o + 7].kind = "pipe" /\ r[o + 8].kind = "tor" /\ r[o + 9].kind = "queue"
      /\ r[o + 10].kind = "pipe" /\ r[o + 11].kind = "end"
  <2>1. /\ Len(r) = o + 11 /\ o \in {0, 1}
        /\ o = 1 => r[1].kind = "endhostQ"
        /\ r[o + 1].kind = "queue" /\ r[o + 2].kind = "pipe" /\ r[o + 3].kind = "tor"
        /\ r[o + 4].kind = "queue" /\ r[o + 5].kind = "pipe"
    BY ThroughFields, SMTT(60)
  <2>2. /\ r[o + 6].kind = "queue"
        /\ r[o + 7].kind = "pipe" /\ r[o + 8].kind = "tor" /\ r[o + 9].kind = "queue"
        /\ r[o + 10].kind = "pipe" /\ r[o + 11].kind = "end"
    BY ThroughFields
  <2> HIDE DEF o
  <2> QED
    BY ONLY <2>1, <2>2
<1>1. /\ r[o + 1].from = Start(dir) /\ r[o + 4].from = SrcTor(dir)
      /\ r[o + 6].from = core /\ r[o + 9].from = DstTor(dir)
  BY ThroughFields
<1>2. core \in Cores /\ Start(dir) \notin Cores /\ SrcTor(dir) \notin Cores /\ DstTor(dir) \notin Cores
  BY FlowNodes
<1> SUFFICES ASSUME NEW n \in 1 .. Len(r), NEW e \in Elements, SameButCore(e, r[n])
             PROVE  /\ IsCoreQueue(e) <=> n = First0(dir) + 6
                    /\ r[n].kind = "tor" => n = First0(dir) + 3 \/ n = First0(dir) + 8
  OBVIOUS
<1>3. Blind(e.from) = Blind(r[n].from) /\ e.kind = r[n].kind
  BY DEF SameButCore
<1>4. e.from \in Nodes /\ r[n].from \in Nodes
  <2>1. r[n] \in Elements
    BY DEF Through
  <2> QED
    BY <2>1 DEF Elements
<1>5. IsCoreQueue(e) <=> Q(n)
  BY <1>3, <1>4, NoMark DEF IsCoreQueue, Blind
<1> HIDE DEF o
<1>6. (Q(n) <=> n = o + 6) /\ (r[n].kind = "tor" => n = o + 3 \/ n = o + 8)
  <2>1. CASE o = 1
    <3>1. n \in 1 .. 12
      BY <1>0, <1>1, <2>1
    <3> QED
      BY <1>0, <1>1, <1>2, <2>1, <3>1
  <2>2. CASE o = 0
    <3>1. n \in 1 .. 11
      BY <1>0, <1>1, <2>2
    <3> QED
      BY <1>0, <1>1, <1>2, <2>2, <3>1
  <2> QED
    BY <1>0, <1>1, <2>1, <2>2
<1> QED
  BY <1>5, <1>6 DEF o

(* The invariant implies what is promised of the packets.                  *)
LEMMA PacketsFacts ==
  ASSUME IInv
  PROVE  PacketsOnCourse /\ LeavesInTurn
<1>1. /\ DOMAIN packets = 1 .. Len(packets) /\ \A i \in DOMAIN packets : packets[i] \in GoodPackets
  BY DEF IInv
<1>2. PacketsOnCourse
  <2> SUFFICES ASSUME NEW i \in DOMAIN packets
               PROVE  /\ packets[i].nexthop < Len(route[packets[i].dir])
                      /\ SameButCore(packets[i].in, route[packets[i].dir][packets[i].nexthop])
    BY DEF PacketsOnCourse
  <2>1. packets[i] \in PacketType /\ OnCourse(packets[i])
    BY <1>1 DEF GoodPackets
  <2>2. route[packets[i].dir] \in Seq(Elements)
    BY <2>1 DEF IInv, VectorsOK, PacketType
  <2>3. Len(route[packets[i].dir]) \in Nat
    BY <2>2
  <2> QED
    BY <2>1, <2>3 DEF OnCourse
<1>3. LeavesInTurn
  <2> SUFFICES ASSUME flow.testbed = "conga", NEW i \in DOMAIN packets
               PROVE  LET p == packets[i]
                          r == route[p.dir]
                          last == TorNode(0, IF p.dir = "fwd" THEN flow.dst.tor ELSE flow.src.tor)
                      IN  /\ p.passed <=> p.nexthop >= Len(r) - 5
                          /\ LastTor(r) = At("tor", last)
                          /\ IsCoreQueue(p.in) => r[p.nexthop + 2] = At("tor", last)
    BY DEF LeavesInTurn
  <2> DEFINE p == packets[i]
             dir == p.dir
             r == route[dir]
             o == First0(dir)
             n == p.nexthop
  <2>1. p \in PacketType /\ OnCourse(p)
    BY <1>1 DEF GoodPackets
  <2>2. dir \in Directions /\ p.in \in Elements /\ n \in Nat
    BY <2>1 DEF PacketType
  <2>3. /\ flow.src \in ServerIds /\ flow.dst \in ServerIds /\ flow.src.tor # flow.dst.tor
        /\ \E core \in CongaCores : Through(r, dir, core)
    BY <2>2 DEF IInv, VectorsOK
  <2>4. PICK core \in CongaCores : Through(r, dir, core)
    BY <2>3
  <2>5. /\ Len(r) = o + 11 /\ o \in {0, 1} /\ r[o + 8] = At("tor", DstTor(dir))
    BY <2>4 DEF Through, First0
  <2>6. /\ n \in 1 .. (Len(r) - 1) /\ SameButCore(p.in, r[n])
        /\ p.passed <=> n >= o + 6
    BY <2>1 DEF OnCourse
  <2>7. n \in 1 .. Len(r)
    BY <2>5, <2>6
  <2>8. IsCoreQueue(p.in) <=> n = o + 6
    BY <2>2, <2>3, <2>4, <2>6, <2>7, CongaHops
  <2>9. DstTor(dir) = TorNode(0, IF dir = "fwd" THEN flow.dst.tor ELSE flow.src.tor)
    BY DEF DstTor
  <2> HIDE DEF p, dir, r, o, n
  <2>10. (p.passed <=> n >= Len(r) - 5) /\ Len(r) - 3 = o + 8 /\ (n = o + 6 => n + 2 = o + 8)
    BY <2>5, <2>6
  <2>11. LastTor(r) = At("tor", DstTor(dir)) /\ (IsCoreQueue(p.in) => r[n + 2] = At("tor", DstTor(dir)))
    BY <2>5, <2>8, <2>10 DEF LastTor
  <2> QED
    BY <2>9, <2>10, <2>11 DEF p, dir, r, n
<1> QED
  BY <1>2, <1>3

-----------------------------------------------------------------------------
(* The steps.                                                              *)

(* The vectors that no step has changed.                                   *)
LEMMA SameVectors ==
  ASSUME VectorsOK, UNCHANGED <<flow, route>>
  PROVE  VectorsOK' /\ GoodPackets' = GoodPackets
<1>1. VectorsOK'
  BY DEF VectorsOK, Through, First0, Start, Finish, SrcTor, DstTor, RoutesConnect, AcksReturn, Way
<1>2. GoodPackets' = GoodPackets
  BY DEF GoodPackets, OnCourse
<1> QED
  BY <1>1, <1>2

(* A vector has an end, and an element before it.                          *)
LEMMA VectorEnds ==
  ASSUME VectorsOK, NEW dir \in Directions
  PROVE  /\ route[dir] \in Seq(Elements) /\ Len(route[dir]) \in Nat /\ Len(route[dir]) >= 2
         /\ route[dir][Len(route[dir])].kind = "end"
<1>1. route[dir] \in Seq(Elements) /\ Len(route[dir]) \in Nat
  BY DEF VectorsOK
<1>2. Len(route[dir]) >= 2
  <2>1. CASE flow.testbed = "conga"
    <3>1. PICK core \in CongaCores : Through(route[dir], dir, core)
      BY <2>1 DEF VectorsOK
    <3>2. Len(route[dir]) = First0(dir) + 11 /\ First0(dir) \in {0, 1}
      BY <3>1 DEF Through, First0
    <3> QED
      BY <3>2
  <2>2. CASE flow.testbed # "conga"
    BY <2>2 DEF VectorsOK
  <2> QED
    BY <2>1, <2>2
<1>3. route[dir][Len(route[dir])] = At("end", Finish(dir))
  BY VectorsFacts DEF RoutesConnect, Connects
<1> QED
  BY <1>1, <1>2, <1>3 DEF At, Element

(* What the element of a packet hands it to.                               *)
LEMMA NextHopFacts ==
  ASSUME IInv, NEW i \in DOMAIN packets
  PROVE  /\ packets[i] \in PacketType /\ OnCourse(packets[i])
         /\ packets[i].dir \in Directions
         /\ packets[i].nexthop + 1 \in 1 .. Len(route[packets[i].dir])
         /\ NextHop(i) = route[packets[i].dir][packets[i].nexthop + 1]
         /\ NextHop(i) \in Elements
         /\ NextHop(i).kind # "end" => packets[i].nexthop + 1 < Len(route[packets[i].dir])
<1> DEFINE p == packets[i]
           n == p.nexthop
           r == route[p.dir]
<1>1. p \in PacketType /\ OnCourse(p)
  BY DEF IInv, GoodPackets
<1>2. p.dir \in Directions
  BY <1>1 DEF PacketType
<1>3. r \in Seq(Elements) /\ Len(r) \in Nat /\ r[Len(r)].kind = "end"
  BY <1>2, VectorEnds DEF IInv
<1>4. n \in 1 .. (Len(r) - 1)
  BY <1>1 DEF OnCourse
<1>5. NextHop(i) = r[n + 1]
  BY DEF NextHop
<1> HIDE DEF p, n, r
<1>6. n + 1 \in 1 .. Len(r)
  BY <1>3, <1>4
<1>7. r[n + 1] \in Elements
  BY <1>3, <1>6
<1>8. r[n + 1].kind # "end" => n + 1 < Len(r)
  BY <1>3, <1>6
<1> QED
  BY <1>1, <1>2, <1>5, <1>6, <1>7, <1>8 DEF p, n, r

(* A packet that has just come from an end is where its vector begins.     *)
LEMMA NewPacketGood ==
  ASSUME VectorsOK, NEW dir \in Directions
  PROVE  NewPacket(dir) \in GoodPackets
<1> DEFINE p == NewPacket(dir)
           r == route[dir]
<1>1. r \in Seq(Elements) /\ Len(r) \in Nat /\ Len(r) >= 2
  BY VectorEnds
<1>2. p.dir = dir /\ p.nexthop = 1 /\ p.in = r[1] /\ p.passed = FALSE
  BY DEF NewPacket
<1> HIDE DEF r
<1>3. r[1] \in Elements
  BY <1>1
<1>4. p \in PacketType
  BY <1>3 DEF NewPacket, PacketType, r
<1> HIDE DEF p
<1>5. First0(dir) \in {0, 1}
  BY DEF First0
<1>6. p.nexthop \in 1 .. (Len(r) - 1) /\ (p.passed <=> p.nexthop >= First0(p.dir) + 6)
  BY <1>1, <1>2, <1>5
<1>7. SameButCore(p.in, r[p.nexthop])
  BY <1>2 DEF SameButCore
<1>8. OnCourse(p)
  BY <1>2, <1>6, <1>7 DEF OnCourse, r
<1> QED
  BY <1>4, <1>8 DEF GoodPackets, p

(* Packets taken out, or put in behind.                                    *)
LEMMA Sequence ==
  ASSUME NEW S, NEW s \in Seq(S)
  PROVE  /\ \A i \in DOMAIN s : RemoveAt(s, i) \in Seq(S)
         /\ \A e \in S : Append(s, e) \in Seq(S)
<1>1. \A i \in DOMAIN s : RemoveAt(s, i) \in Seq(S)
  <2> SUFFICES ASSUME NEW i \in DOMAIN s
               PROVE  RemoveAt(s, i) \in Seq(S)
    OBVIOUS
  <2>1. i \in 1 .. Len(s)
    OBVIOUS
  <2> QED
    BY <2>1, RemoveAtFacts
<1> QED
  BY <1>1

(* What an element that receives a packet makes of it.                     *)
LEMMA ReceivedType ==
  ASSUME NEW p \in PacketType, NEW e \in Elements, NEW n \in Nat
  PROVE  /\ Received(p, e, n) \in PacketType
         /\ Received(p, e, n).dir = p.dir /\ Received(p, e, n).in = e
         /\ Received(p, e, n).nexthop = n
         /\ Received(p, e, n).passed <=> p.passed \/ IsCoreQueue(e)
<1>1. IsCoreQueue(e) \in BOOLEAN
  BY DEF IsCoreQueue
<1>2. p.passed \in BOOLEAN
  BY DEF PacketType
<1> QED
  BY <1>1, <1>2 DEF Received, PacketType

(* An element that receives a packet one hop on, when it is the one that   *)
(* the vector has there, cores apart.                                      *)
LEMMA ReceivedGood ==
  ASSUME VectorsOK, NEW p \in GoodPackets, NEW e \in Elements,
         p.nexthop + 1 < Len(route[p.dir]), SameButCore(e, route[p.dir][p.nexthop + 1])
  PROVE  Received(p, e, p.nexthop + 1) \in GoodPackets
<1> DEFINE n == p.nexthop
           dir == p.dir
           r == route[dir]
           q == Received(p, e, n + 1)
           o == First0(dir)
<1>1. p \in PacketType /\ OnCourse(p)
  BY DEF GoodPackets
<1>2. n \in Nat /\ dir \in Directions
  BY <1>1 DEF PacketType
<1>3. /\ q \in PacketType /\ q.dir = dir /\ q.in = e /\ q.nexthop = n + 1
      /\ q.passed <=> p.passed \/ IsCoreQueue(e)
  BY <1>1, <1>2, ReceivedType, SMTT(60)
<1>4. r \in Seq(Elements) /\ Len(r) \in Nat
  BY <1>2, VectorEnds
<1>5. n + 1 \in 1 .. (Len(r) - 1) /\ n + 1 \in 1 .. Len(r)
  BY <1>2, <1>4
<1>6. ASSUME flow.testbed = "conga"
      PROVE  q.passed <=> n + 1 >= o + 6
  <2>1. /\ flow.src \in ServerIds /\ flow.dst \in ServerIds /\ flow.src.tor # flow.dst.tor
        /\ \E core \in CongaCores : Through(r, dir, core)
    BY <1>2, <1>6 DEF VectorsOK
  <2>2. PICK core \in CongaCores : Through(r, dir, core)
    BY <2>1
  <2>3. IsCoreQueue(e) <=> n + 1 = o + 6
    BY <1>2, <1>5, <1>6, <2>1, <2>2, CongaHops
  <2>4. p.passed <=> n >= o + 6
    BY <1>1, <1>6 DEF OnCourse
  <2>5. o \in {0, 1}
    BY DEF First0
  <2> HIDE DEF n, o, q, dir
  <2> QED
    BY ONLY <1>2, <1>3, <2>3, <2>4, <2>5
<1>7. SameButCore(e, r[n + 1])
  OBVIOUS
<1> HIDE DEF q, n, r, o
<1>8. OnCourse(q)
  BY <1>3, <1>5, <1>6, <1>7 DEF OnCourse, r, o
<1> QED
  BY <1>3, <1>8 DEF GoodPackets, q, n

(* A packet goes one element on.                                           *)
LEMMA StepOn ==
  ASSUME IInv, NEW i \in DOMAIN packets, UNCHANGED <<flow, route>>,
         NextHop(i).kind # "end",
         packets' = Append(RemoveAt(packets, i), Received(packets[i], NextHop(i), packets[i].nexthop + 1))
  PROVE  IInv'
<1> DEFINE p == packets[i]
           q == Received(p, NextHop(i), p.nexthop + 1)
<1>1. VectorsOK /\ packets \in Seq(GoodPackets)
  BY DEF IInv
<1>2. p \in GoodPackets
  BY <1>1
<1>3. /\ NextHop(i) \in Elements /\ p.nexthop + 1 < Len(route[p.dir])
      /\ NextHop(i) = route[p.dir][p.nexthop + 1]
  BY NextHopFacts
<1>4. SameButCore(NextHop(i), route[p.dir][p.nexthop + 1])
  BY <1>3 DEF SameButCore
<1>5. q \in GoodPackets
  BY <1>1, <1>2, <1>3, <1>4, ReceivedGood
<1> HIDE DEF q
<1>6. packets' = Append(RemoveAt(packets, i), q)
  BY DEF q, p
<1>7. packets' \in Seq(GoodPackets)
  BY <1>1, <1>5, <1>6, Sequence
<1>8. VectorsOK' /\ GoodPackets' = GoodPackets
  BY <1>1, SameVectors
<1> QED
  BY <1>7, <1>8 DEF IInv

(* A leaf switch in a vector is the one of a CONGA flow, and the flag of   *)
(* the packet before it tells which.                                       *)
LEMMA TorAt ==
  ASSUME IInv, NEW i \in DOMAIN packets, NextHop(i).kind = "tor"
  PROVE  LET p == packets[i]
             o == First0(p.dir)
         IN  /\ flow.testbed = "conga"
             /\ o \in {0, 1}
             /\ ~ p.passed => p.nexthop = o + 2
             /\ p.passed => p.nexthop = o + 7
<1> DEFINE p == packets[i]
           dir == p.dir
           n == p.nexthop
           r == route[dir]
           o == First0(dir)
<1>1. /\ OnCourse(p) /\ dir \in Directions /\ n + 1 \in 1 .. Len(r)
      /\ r[n + 1].kind = "tor" /\ r[n + 1] \in Elements
  BY NextHopFacts
<1>2. n \in 1 .. (Len(r) - 1)
  BY <1>1 DEF OnCourse
<1>3. flow.testbed = "conga"
  <2> SUFFICES ASSUME flow.testbed # "conga"
               PROVE  FALSE
    OBVIOUS
  <2> QED
    BY <1>1 DEF IInv, VectorsOK
<1>4. /\ flow.src \in ServerIds /\ flow.dst \in ServerIds /\ flow.src.tor # flow.dst.tor
      /\ \E core \in CongaCores : Through(r, dir, core)
  BY <1>1, <1>3 DEF IInv, VectorsOK
<1>5. PICK core \in CongaCores : Through(r, dir, core)
  BY <1>4
<1>6. SameButCore(r[n + 1], r[n + 1])
  BY DEF SameButCore
<1>7. n + 1 = o + 3 \/ n + 1 = o + 8
  BY <1>1, <1>3, <1>4, <1>5, <1>6, CongaHops
<1>8. p.passed <=> n >= o + 6
  BY <1>1, <1>3 DEF OnCourse
<1>9. o \in {0, 1} /\ n \in Nat
  <2>1. packets[i] \in PacketType
    BY NextHopFacts
  <2> QED
    BY <2>1 DEF First0, PacketType
<1> HIDE DEF n, o
<1>10. (~ p.passed => n = o + 2) /\ (p.passed => n = o + 7)
  BY ONLY <1>7, <1>8, <1>9
<1> QED
  BY <1>3, <1>9, <1>10 DEF n, o

(* The last leaf switch.                                                   *)
LEMMA DstToRStep ==
  ASSUME IInv, NEW i \in DOMAIN packets, asDstToR(i)
  PROVE  IInv'
<1> DEFINE p == packets[i]
           n == p.nexthop
           r == route[p.dir]
           o == First0(p.dir)
           e == r[n + 2]
           q == Received(p, e, n + 2)
<1>1. NextHop(i).kind = "tor" /\ p.passed /\ UNCHANGED <<flow, route>>
  BY DEF asDstToR
<1>2. p \in PacketType /\ OnCourse(p) /\ p.dir \in Directions
  BY NextHopFacts
<1>3. flow.testbed = "conga" /\ o \in {0, 1} /\ n = o + 7
  BY <1>1, TorAt
<1>4. (n + 1) + 1 = n + 2 /\ n \in Nat /\ n + 2 \in Nat
  BY <1>3
<1>5. packets' = Append(RemoveAt(packets, i), q)
  BY <1>4 DEF asDstToR
<1>6. r \in Seq(Elements) /\ Len(r) = o + 11
  <2>1. \E core \in CongaCores : Through(r, p.dir, core)
    BY <1>2, <1>3 DEF IInv, VectorsOK
  <2> QED
    BY <2>1 DEF Through
<1>7. n + 2 \in 1 .. (Len(r) - 1) /\ n + 2 \in 1 .. Len(r) /\ n + 2 >= o + 6
  BY <1>3, <1>6
<1>8. e \in Elements
  BY <1>6, <1>7
<1>9. /\ q \in PacketType /\ q.dir = p.dir /\ q.in = e /\ q.nexthop = n + 2 /\ q.passed
  <2> HIDE DEF p, e, n
  <2>1. /\ q \in PacketType /\ q.dir = p.dir /\ q.in = e /\ q.nexthop = n + 2
        /\ q.passed <=> p.passed \/ IsCoreQueue(e)
    <3>1. p \in PacketType /\ n + 2 \in Nat
      BY <1>2, <1>4
    <3> QED
      BY ONLY <1>8, <3>1, ReceivedType
  <2> HIDE DEF q
  <2> QED
    BY ONLY <1>1, <2>1, Zenon
<1>10. SameButCore(e, e)
  BY DEF SameButCore
<1> HIDE DEF q, n, o
<1>11. OnCourse(q)
  BY <1>7, <1>9, <1>10 DEF OnCourse, o
<1>12. q \in GoodPackets
  BY <1>9, <1>11 DEF GoodPackets
<1>13. packets' \in Seq(GoodPackets)
  BY <1>5, <1>12, Sequence DEF IInv
<1>14. VectorsOK' /\ GoodPackets' = GoodPackets
  BY <1>1, SameVectors DEF IInv
<1> QED
  BY <1>13, <1>14 DEF IInv

(* The first leaf switch writes a core into the vector.                    *)
LEMMA SrcToRStep ==
  ASSUME IInv, NEW i \in DOMAIN packets, NEW k \in Below(N_CORE), asSrcToR(i, k)
  PROVE  IInv'
<1> DEFINE p == packets[i]
           n == p.nexthop
           dir == p.dir
           r == route[dir]
           o == First0(dir)
           new == updateRoute(r, o + 3, k, SrcTor(dir), DstTor(dir))
           e == new[o + 4]
           q == Received(p, e, o + 4)
           c == CoreNode(0, k)
<1>1. NextHop(i).kind = "tor" /\ ~ p.passed /\ flow' = flow
  BY DEF asSrcToR
<1>2. p \in PacketType /\ OnCourse(p) /\ dir \in Directions /\ NextHop(i) = r[n + 1]
  BY NextHopFacts
<1>3. flow.testbed = "conga" /\ o \in {0, 1} /\ n = o + 2
  BY <1>1, TorAt
<1>4. /\ flow.src \in ServerIds /\ flow.dst \in ServerIds /\ flow.src.tor # flow.dst.tor
      /\ route \in [Directions -> Seq(Elements)]
      /\ \A d \in Directions : \E core \in CongaCores : Through(route[d], d, core)
  BY <1>3 DEF IInv, VectorsOK
<1>5. PICK core \in CongaCores : Through(r, dir, core)
  BY <1>2, <1>4
<1>6. c \in CongaCores
  BY DEF CongaCores
<1>7. Through(new, dir, c)
  BY <1>2, <1>4, <1>5, UpdateThrough
<1>8. route' = [route EXCEPT ![dir] = new] /\ packets' = Append(RemoveAt(packets, i), q)
  <2>1. n + 1 = o + 3 /\ (o + 3) + 1 = o + 4
    BY <1>3
  <2>2. NextHop(i).from = SrcTor(dir) /\ LastTor(r).from = DstTor(dir)
    <3>1. Len(r) = o + 11 /\ r[o + 3].from = SrcTor(dir) /\ r[o + 8].from = DstTor(dir)
      BY <1>2, <1>4, <1>5, ThroughFields
    <3>2. Len(r) - 3 = o + 8
      BY <1>3, <3>1
    <3> QED
      BY <1>2, <2>1, <3>1, <3>2 DEF LastTor
  <2>3. updateRoute(r, n + 1, k, NextHop(i).from, LastTor(r).from) = new
    BY <2>1, <2>2
  <2> HIDE DEF new
  <2> QED
    BY <2>1, <2>3 DEF asSrcToR
<1> HIDE DEF new, c
<1>9. new \in Seq(Elements) /\ Len(new) = o + 11 /\ Len(r) = o + 11
  BY <1>5, <1>7 DEF Through
<1>10. \A d \in Directions : route'[d] = IF d = dir THEN new ELSE route[d]
  BY <1>2, <1>4, <1>8
<1>11. route' \in [Directions -> Seq(Elements)]
  BY <1>2, <1>4, <1>8, <1>9
<1>12. \A d \in Directions : \E core1 \in CongaCores : Through(route'[d], d, core1)
  BY <1>4, <1>6, <1>7, <1>10
<1>13. VectorsOK'
  <2>1. \A d \in Directions : \E core1 \in CongaCores : Through(route[d], d, core1)'
    <3> SUFFICES ASSUME NEW d \in Directions
                 PROVE  \E core1 \in CongaCores : Through(route[d], d, core1)'
      OBVIOUS
    <3>1. PICK core1 \in CongaCores : Through(route'[d], d, core1)
      BY <1>12
    <3>2. Through(route[d], d, core1)'
      BY <1>1, <3>1 DEF Through, Start, Finish, SrcTor, DstTor
    <3> QED
      BY <3>2
  <2> QED
    BY <1>1, <1>3, <1>4, <1>11, <2>1 DEF VectorsOK
<1>14. \A d \in Directions :
         Len(route'[d]) = Len(route[d]) /\ \A j \in 1 .. Len(route[d]) : SameButCore(route[d][j], route'[d][j])
  <2>1. Len(new) = Len(r) /\ \A j \in 1 .. Len(r) : SameButCore(r[j], new[j])
    BY <1>2, <1>4, <1>5, <1>6, <1>7, ThroughSame
  <2>2. \A x : SameButCore(x, x)
    BY DEF SameButCore
  <2> QED
    BY <1>10, <2>1, <2>2
<1>15. GoodPackets \subseteq GoodPackets'
  <2> SUFFICES ASSUME NEW x \in GoodPackets
               PROVE  x \in GoodPackets'
    OBVIOUS
  <2>1. x \in PacketType /\ OnCourse(x)
    BY DEF GoodPackets
  <2>2. x.dir \in Directions
    BY <2>1 DEF PacketType
  <2>3. /\ x.nexthop \in 1 .. (Len(route[x.dir]) - 1) /\ SameButCore(x.in, route[x.dir][x.nexthop])
        /\ flow.testbed = "conga" => (x.passed <=> x.nexthop >= First0(x.dir) + 6)
    BY <2>1 DEF OnCourse
  <2>4. Len(route[x.dir]) \in Nat
    BY <1>4, <2>2
  <2>5. x.nexthop \in 1 .. Len(route[x.dir])
    BY <2>3, <2>4
  <2>6. SameButCore(route[x.dir][x.nexthop], route'[x.dir][x.nexthop])
    BY <1>14, <2>2, <2>5
  <2>7. SameButCore(x.in, route'[x.dir][x.nexthop])
    BY <2>3, <2>6 DEF SameButCore
  <2>8. x.nexthop \in 1 .. (Len(route'[x.dir]) - 1)
    BY <1>14, <2>2, <2>3
  <2>9. OnCourse(x)'
    BY <1>1, <2>3, <2>7, <2>8 DEF OnCourse
  <2> QED
    BY <2>1, <2>9 DEF GoodPackets
<1>16. q \in GoodPackets'
  <2>1. o + 4 \in 1 .. Len(new) /\ o + 4 \in 1 .. (Len(new) - 1) /\ o + 4 \in Nat /\ o + 4 # o + 6
        /\ ~ (o + 4 >= o + 6)
    BY <1>3, <1>9
  <2>2. e \in Elements
    BY <1>9, <2>1
  <2>3. SameButCore(e, e)
    BY DEF SameButCore
  <2>4. ~ IsCoreQueue(e)
    BY <1>2, <1>3, <1>4, <1>6, <1>7, <2>1, <2>2, <2>3, CongaHops
  <2>5. q \in PacketType /\ q.dir = dir /\ q.in = e /\ q.nexthop = o + 4 /\ ~ q.passed
    <3> DEFINE m == o + 4
    <3>1. p \in PacketType /\ m \in Nat
      BY <1>2, <2>1
    <3> HIDE DEF p, e, m
    <3>2. /\ q \in PacketType /\ q.dir = dir /\ q.in = e /\ q.nexthop = m
          /\ q.passed <=> p.passed \/ IsCoreQueue(e)
      BY ONLY <2>2, <3>1, ReceivedType DEF m
    <3> HIDE DEF q
    <3> QED
      BY ONLY <1>1, <2>4, <3>2, Zenon DEF m
  <2>6. route'[dir] = new
    BY <1>2, <1>10
  <2>7. ASSUME NEW x \in PacketType, x.nexthop \in 1 .. (Len(route'[x.dir]) - 1),
               SameButCore(x.in, route'[x.dir][x.nexthop]), ~ x.passed,
               ~ (x.nexthop >= First0(x.dir) + 6)
        PROVE  x \in GoodPackets'
    BY <2>7 DEF GoodPackets, OnCourse
  <2> HIDE DEF q, o, e
  <2>8. /\ q.nexthop \in 1 .. (Len(route'[q.dir]) - 1) /\ ~ (q.nexthop >= First0(q.dir) + 6)
        /\ SameButCore(q.in, route'[q.dir][q.nexthop])
    BY <2>1, <2>3, <2>5, <2>6 DEF o, e
  <2> QED
    BY <2>5, <2>7, <2>8
<1>17. packets' \in Seq(GoodPackets')
  <2>1. packets \in Seq(GoodPackets')
    <3>1. packets \in Seq(GoodPackets)
      BY DEF IInv
    <3> HIDE DEF q
    <3> QED
      BY <1>15, <3>1
  <2> HIDE DEF q
  <2> QED
    BY <1>8, <1>16, <2>1, Sequence
<1> QED
  BY <1>13, <1>17 DEF IInv

(* The end takes the packet, and the sink sends an ack.                    *)
LEMMA EndStep ==
  ASSUME IInv, NEW i \in DOMAIN packets, EndReceives(i)
  PROVE  IInv'
<1> DEFINE s == RemoveAt(packets, i)
           a == IF packets[i].dir = "fwd" THEN <<NewPacket("rev")>> ELSE <<>>
<1>1. packets' = s \o a /\ UNCHANGED <<flow, route>>
  BY DEF EndReceives
<1>2. VectorsOK /\ packets \in Seq(GoodPackets)
  BY DEF IInv
<1>3. s \in Seq(GoodPackets)
  BY <1>2, Sequence
<1>4. NewPacket("rev") \in GoodPackets
  BY <1>2, NewPacketGood DEF Directions
<1>5. a \in Seq(GoodPackets)
  <2> DEFINE e == NewPacket("rev")
  <2> HIDE DEF e
  <2>1. <<e>> \in Seq(GoodPackets) /\ <<>> \in Seq(GoodPackets)
    BY <1>4 DEF e
  <2> QED
    BY <2>1 DEF e
<1> HIDE DEF s, a
<1>6. packets' \in Seq(GoodPackets)
  BY <1>1, <1>3, <1>5, ConcatProperties
<1>7. VectorsOK' /\ GoodPackets' = GoodPackets
  BY <1>1, <1>2, SameVectors
<1> QED
  BY <1>6, <1>7 DEF IInv

(* The source sends.                                                       *)
LEMMA SendStep ==
  ASSUME IInv, Send
  PROVE  IInv'
<1>1. packets' = Append(packets, NewPacket("fwd")) /\ UNCHANGED <<flow, route>>
  BY DEF Send
<1>2. VectorsOK /\ packets \in Seq(GoodPackets)
  BY DEF IInv
<1>3. NewPacket("fwd") \in GoodPackets
  BY <1>2, NewPacketGood DEF Directions
<1>4. packets' \in Seq(GoodPackets)
  BY <1>1, <1>2, <1>3, Sequence
<1>5. VectorsOK' /\ GoodPackets' = GoodPackets
  BY <1>1, <1>2, SameVectors
<1> QED
  BY <1>4, <1>5 DEF IInv

-----------------------------------------------------------------------------
(* The theorems.                                                           *)

(* In every state the vectors and the packets are as the lemmas above      *)
(* need them: whatever the order in which the elements hand packets on,    *)
(* and the leaf switches rewrite the vectors under them.                   *)
THEOREM InductiveInvariant == Spec => []IInv
<1>1. Init => IInv
  BY InitInv
<1>2. IInv /\ [Next]_vars => IInv'
  <2> SUFFICES ASSUME IInv, [Next]_vars
               PROVE  IInv'
    OBVIOUS
  <2>1. CASE Send
    BY <2>1, SendStep
  <2>2. ASSUME NEW i \in DOMAIN packets, sendOn(i)
        PROVE  IInv'
    <3>1. /\ NextHop(i).kind # "end" /\ UNCHANGED <<flow, route>>
          /\ packets' = Append(RemoveAt(packets, i),
                                Received(packets[i], NextHop(i), packets[i].nexthop + 1))
      BY <2>2 DEF sendOn
    <3> QED
      BY <3>1, StepOn
  <2>3. ASSUME NEW i \in DOMAIN packets, NEW core \in Below(N_CORE), asSrcToR(i, core)
        PROVE  IInv'
    BY <2>3, SrcToRStep
  <2>4. ASSUME NEW i \in DOMAIN packets, asDstToR(i)
        PROVE  IInv'
    BY <2>4, DstToRStep
  <2>5. ASSUME NEW i \in DOMAIN packets, EndReceives(i)
        PROVE  IInv'
    BY <2>5, EndStep
  <2>6. CASE UNCHANGED vars
    <3>1. UNCHANGED <<flow, route>> /\ packets' = packets
      BY <2>6 DEF vars
    <3>2. VectorsOK' /\ GoodPackets' = GoodPackets
      BY <3>1, SameVectors DEF IInv
    <3> QED
      BY <3>1, <3>2 DEF IInv
  <2> QED
    BY <2>1, <2>2, <2>3, <2>4, <2>5, <2>6 DEF Next
<1> QED
  BY <1>1, <1>2, PTL DEF Spec

(* A route vector of either testbed, of a network of any size, is at every *)
(* moment a path of links from the server that sends to the end of the     *)
(* other one: generateRandomRoute and routeGenerate build one, and what    *)
(* updateRoute writes into it keeps it one.                                *)
THEOREM RoutesAlwaysConnect == Spec => []RoutesConnect
<1>1. IInv => RoutesConnect
  BY VectorsFacts DEF IInv
<1> QED
  BY <1>1, InductiveInvariant, PTL

(* The generators never take a server as its own partner, and the vector   *)
(* back takes the links of the vector forward, the core apart with CONGA.  *)
THEOREM AcksTakeTheWayBack == Spec => []AcksReturn
<1>1. IInv => AcksReturn
  BY VectorsFacts DEF IInv
<1> QED
  BY <1>1, InductiveInvariant, PTL

(* A packet is in the element that its vector has at its hop, cores apart, *)
(* whatever the leaf switches have written into the vector since: sendOn   *)
(* never leads a packet from one route to another.                         *)
THEOREM PacketsStayOnCourse == Spec => []PacketsOnCourse
<1>1. IInv => PacketsOnCourse
  BY PacketsFacts
<1> QED
  BY <1>1, InductiveInvariant, PTL

(* The flag of a packet tells every leaf switch whether it is the first or *)
(* the last of the packet's vector, and the switch two hops behind a core  *)
(* queue is the last.                                                      *)
THEOREM LeafSwitchesInTurn == Spec => []LeavesInTurn
<1>1. IInv => LeavesInTurn
  BY PacketsFacts
<1> QED
  BY <1>1, InductiveInvariant, PTL
=============================================================================
