------------------------------- MODULE Routes -------------------------------
(***************************************************************************)
(* The packets of one flow on their way, hop by hop.  A packet holds a     *)
(* pointer to the route vector of its direction and the index of its next  *)
(* hop; sendOn of network.cpp hands it to that element, and an element     *)
(* sends it on in turn.  In the CONGA testbed the leaf switches rewrite    *)
(* the vector, also under the packets that are further on.                 *)
(*                                                                         *)
(* Queues and pipes keep the order of their packets and take any time.  A  *)
(* lost packet would be one that is gone: losses are not modelled.         *)
(***************************************************************************)
EXTENDS Topology

CONSTANT MAX_PACKETS  \* bound of the model: packets the source sends

ASSUME RoutesAssumption == MAX_PACKETS \in Nat

VARIABLES
  flow,     \* testbed, and the servers src and dst, of the flow
  route,    \* per direction, its route vector
  packets,  \* packets on their way, by their arrival at the element they are in
  sent      \* packets the source has sent

vars == <<flow, route, packets, sent>>

Directions == {"fwd", "rev"}

(* createFlow of the generator puts an end-host queue, in the CONGA        *)
(* testbed, in front of the route forward, and the ends behind both.       *)
Init ==
  /\ \E r \in TreeRoutes \cup LeafRoutes(TRUE) \cup LeafRoutes(FALSE) :
       /\ flow = [testbed |-> r.testbed, src |-> r.src, dst |-> r.dst]
       /\ route =
            [fwd |-> (IF r.testbed = "fat_tree" THEN <<>>
                      ELSE <<At("endhostQ", ServerNode(r.src))>>)
                     \o r.fwd \o <<At("end", ServerNode(r.dst))>>,
             rev |-> r.rev \o <<At("end", ServerNode(r.src))>>]
  /\ packets = <<>>
  /\ sent = 0

(* A new packet that its first element has received.                       *)
NewPacket(dir) ==
  [dir |-> dir, nexthop |-> 1, in |-> route[dir][1], passed |-> FALSE]

Send ==
  /\ sent < MAX_PACKETS
  /\ sent' = sent + 1
  /\ packets' = Append(packets, NewPacket("fwd"))
  /\ UNCHANGED <<flow, route>>

(* Element e is a CoreQueue: a queue from a core of the CONGA testbed.     *)
IsCoreQueue(e) == flow.testbed = "conga" /\ e.kind = "queue" /\ e.from \in Cores

(* Mutant of Received: core queues do not mark the packet.                 *)
ReceivedUnmarked(p, e, n) == [p EXCEPT !.in = e, !.nexthop = n]

(* The queue or pipe e receives packet p, which has hop n next.            *)
Received(p, e, n) ==
  [p EXCEPT !.in = e, !.nexthop = n, !.passed = @ \/ IsCoreQueue(e)]

(* The packets that may leave the element they are in.                     *)
First(i) == \A j \in 1 .. (i - 1) : packets[j].in # packets[i].in

(* What the element of packet i hands it to.                               *)
NextHop(i) == route[packets[i].dir][packets[i].nexthop + 1]

sendOn(i) ==
  /\ First(i)
  /\ NextHop(i).kind \in {"queue", "pipe"}
  /\ packets' = Append(RemoveAt(packets, i),
                       Received(packets[i], NextHop(i), packets[i].nexthop + 1))
  /\ UNCHANGED <<flow, route, sent>>

(* The last leaf switch of a route, found by its place before the end.     *)
LastTor(r) == r[Len(r) - 3]

(* Mutant of asSrcToR: a packet that comes from a core is taken for new.   *)
asSrcToRAgain(i, core) ==
  LET p == packets[i]
      tor == NextHop(i)
      hop == p.nexthop + 1
      new == updateRoute(route[p.dir], hop, core, tor.from, LastTor(route[p.dir]).from)
  IN  /\ First(i)
      /\ tor.kind = "tor"
      /\ route' = [route EXCEPT ![p.dir] = new]
      /\ packets' = Append(RemoveAt(packets, i), Received(p, new[hop + 1], hop + 1))
      /\ UNCHANGED <<flow, sent>>

(* The first leaf switch chooses a core and writes it into the vector.     *)
asSrcToR(i, core) ==
  LET p == packets[i]
      tor == NextHop(i)
      hop == p.nexthop + 1
      new == updateRoute(route[p.dir], hop, core, tor.from, LastTor(route[p.dir]).from)
  IN  /\ First(i)
      /\ tor.kind = "tor" /\ ~p.passed
      /\ route' = [route EXCEPT ![p.dir] = new]
      /\ packets' = Append(RemoveAt(packets, i), Received(p, new[hop + 1], hop + 1))
      /\ UNCHANGED <<flow, sent>>

asDstToR(i) ==
  LET p == packets[i]
      hop == p.nexthop + 1
  IN  /\ First(i)
      /\ NextHop(i).kind = "tor" /\ p.passed
      /\ packets' = Append(RemoveAt(packets, i),
                           Received(p, route[p.dir][hop + 1], hop + 1))
      /\ UNCHANGED <<flow, route, sent>>

(* The end receives the packet; the sink acks it.                          *)
EndReceives(i) ==
  /\ First(i)
  /\ NextHop(i).kind = "end"
  /\ packets' = RemoveAt(packets, i)
                  \o (IF packets[i].dir = "fwd" THEN <<NewPacket("rev")>> ELSE <<>>)
  /\ UNCHANGED <<flow, route, sent>>

Next ==
  \/ Send
  \/ \E i \in DOMAIN packets :
       \/ sendOn(i)
       \/ \E core \in Below(N_CORE) : asSrcToR(i, core)
       \/ asDstToR(i)
       \/ EndReceives(i)

Spec == Init /\ [][Next]_vars

-----------------------------------------------------------------------------
Start(dir) == ServerNode(IF dir = "fwd" THEN flow.src ELSE flow.dst)
Finish(dir) == ServerNode(IF dir = "fwd" THEN flow.dst ELSE flow.src)

(* Positions of the pipes of a route.                                      *)
Pipes(r) == {i \in 1 .. Len(r) : r[i].kind = "pipe"}

(* Route r is a path of links from node a to the end at node b: every      *)
(* queue is followed by the pipe of its own link, every element begins     *)
(* where the last one ended, and no node is entered twice.                 *)
Connects(r, a, b) ==
  /\ r[1].from = a
  /\ r[Len(r)] = At("end", b)
  /\ \A i \in 1 .. (Len(r) - 1) :
       IF r[i].kind = "queue" THEN r[i + 1] = [r[i] EXCEPT !.kind = "pipe"]
       ELSE r[i + 1].kind # "pipe" /\ r[i + 1].from = r[i].to
  /\ \A i, j \in Pipes(r) : r[i].to # a /\ (i # j => r[i].to # r[j].to)

(* A route vector is such a path at every moment, whatever the leaf        *)
(* switches write into it.                                                 *)
RoutesConnect == \A dir \in Directions : Connects(route[dir], Start(dir), Finish(dir))

(* A node, when the core does not matter.                                  *)
Blind(n) == IF n \in Cores THEN <<"core">> ELSE n

(* The links a route takes, for a flow that may change its core.           *)
Way(dir) ==
  LET r == route[dir]
      place(n) == IF flow.testbed = "conga" THEN Blind(n) ELSE n
  IN  {<<place(r[i].from), place(r[i].to)>> : i \in Pipes(r)}

(* The ends of a flow are different servers, and its acks take the way of  *)
(* its data back.  With CONGA the core may differ.                         *)
AcksReturn ==
  /\ flow.src # flow.dst
  /\ Way("rev") = {<<l[2], l[1]>> : l \in Way("fwd")}

SameButCore(e, f) ==
  e.kind = f.kind /\ Blind(e.from) = Blind(f.from) /\ Blind(e.to) = Blind(f.to)

(* What a vector that is rewritten under a packet can change for it is the *)
(* core: the packet is in an element of the kind, between the nodes, that  *)
(* its vector has at its hop, cores apart.  So it meets the leaf switches  *)
(* of its vector and its own end, after as many hops as the vector has.    *)
PacketsOnCourse ==
  \A i \in DOMAIN packets :
    LET p == packets[i]
    IN  /\ p.nexthop < Len(route[p.dir])
        /\ SameButCore(p.in, route[p.dir][p.nexthop])

(* A leaf switch tells by PASSED_CORE whether it is the first or the last. *)
(* A packet has the flag from the core queue on, and no core queue misses  *)
(* the switch that it takes for its egress port, two hops on.              *)
LeavesInTurn ==
  flow.testbed = "conga" =>
    \A i \in DOMAIN packets :
      LET p == packets[i]
          r == route[p.dir]
          last == TorNode(0, IF p.dir = "fwd" THEN flow.dst.tor ELSE flow.src.tor)
      IN  /\ p.passed <=> p.nexthop >= Len(r) - 5
          /\ LastTor(r) = At("tor", last)
          /\ IsCoreQueue(p.in) => r[p.nexthop + 2] = At("tor", last)
=============================================================================
