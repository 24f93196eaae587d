------------------------------ MODULE Topology ------------------------------
(***************************************************************************)
(* The route vectors of the two testbeds, test_fat-tree_testbed.cpp and    *)
(* test_conga_testbed.cpp.  A link is a queue and a pipe between the same  *)
(* two nodes, and a route is a sequence of such elements, of the leaf      *)
(* switches where there are some, and of the end that receives.            *)
(***************************************************************************)
EXTENDS Naturals, SequencesExt

CONSTANTS
  N_SUBTREE, N_TOR, N_AGG, N_UPLINK,  \* of the fat tree
  N_LEAF, N_CORE,                     \* of the CONGA fabric
  N_SERVER                            \* per top-of-rack switch

ASSUME TopologyAssumption ==
  /\ N_SUBTREE \in Nat \ {0} /\ N_TOR \in Nat \ {0} /\ N_AGG \in Nat \ {0}
  /\ N_UPLINK \in Nat \ {0} /\ N_LEAF \in Nat \ {0} /\ N_CORE \in Nat \ {0}
  /\ N_SERVER \in Nat \ {0}
  /\ N_LEAF > 1 /\ N_SUBTREE * N_TOR * N_SERVER > 1

Below(n) == 0 .. (n - 1)

(* The nodes of both networks.  Agg switch j of every tree has its uplinks *)
(* to the cores <<j, k>>; the CONGA fabric is one tree without agg         *)
(* switches.                                                               *)
ServerNode(x) == <<"server", x.tree, x.tor, x.svr>>
TorNode(tree, tor) == <<"tor", tree, tor>>
AggNode(tree, agg) == <<"agg", tree, agg>>
CoreNode(agg, uplink) == <<"core", agg, uplink>>
Cores == {CoreNode(j, k) : j \in Below(N_AGG), k \in Below(N_UPLINK)}
         \cup {CoreNode(0, k) : k \in Below(N_CORE)}

(* An element of a route.                                                  *)
Element(kind, from, to) == [kind |-> kind, from |-> from, to |-> to]
Link(from, to) == <<Element("queue", from, to), Element("pipe", from, to)>>
At(kind, node) == Element(kind, node, node)

-----------------------------------------------------------------------------
(* generateRandomRoute of the fat tree.                                    *)
N_NODES == N_SUBTREE * N_TOR * N_SERVER
N_NODES_SUBTREE == N_TOR * N_SERVER

(* Mutant of OtherThan: off by one.                                        *)
OtherThanOff(r, dst) == IF r > dst THEN r + 1 ELSE r

(* The source, for a number of one of the N_NODES - 1 others.              *)
OtherThan(r, dst) == IF r >= dst THEN r + 1 ELSE r

Coordinates(n) ==
  [tree |-> n \div N_NODES_SUBTREE,
   tor  |-> (n \div N_SERVER) % N_TOR,
   svr  |-> n % N_SERVER]

(* Mutant of DstAggs: any agg switch of the other tree.                    *)
DstAggsAny(src_agg) == Below(N_AGG)

DstAggs(src_agg) == {src_agg}

(* From server a up to the lowest common switch and down to server b;      *)
(* agg and agg1 are the switches on a's and on b's side.                   *)
TreeRoute(a, b, agg, agg1, uplink) ==
  LET tor == TorNode(a.tree, a.tor)
      tor1 == TorNode(b.tree, b.tor)
      core == CoreNode(agg, uplink)
      core1 == CoreNode(agg1, uplink)
  IN  Link(ServerNode(a), tor)
      \o (IF tor = tor1 THEN <<>>
          ELSE Link(tor, AggNode(a.tree, agg))
               \o (IF a.tree = b.tree THEN <<>>
                   ELSE Link(AggNode(a.tree, agg), core)
                        \o Link(core1, AggNode(b.tree, agg1)))
               \o Link(AggNode(b.tree, agg1), tor1))
      \o Link(tor1, ServerNode(b))

(* A pair of routes that it may return, with its ends.                     *)
TreePair(a, b, agg, agg1, uplink) ==
  [testbed |-> "fat_tree", src |-> a, dst |-> b,
   fwd |-> TreeRoute(a, b, agg, agg1, uplink),
   rev |-> TreeRoute(b, a, agg1, agg, uplink)]

TreeRoutes ==
  UNION {{TreePair(Coordinates(OtherThan(r, dst)), Coordinates(dst), agg, agg1, uplink) :
            agg1 \in DstAggs(agg)} :
           r \in Below(N_NODES - 1), dst \in Below(N_NODES),
           agg \in Below(N_AGG), uplink \in Below(N_UPLINK)}

-----------------------------------------------------------------------------
(* routeGenerate of the CONGA testbed; with ecmp the leaf switches are not *)
(* in the route.                                                           *)
LeafRoute(a, b, core, ecmp) ==
  LET leaf(x) == TorNode(0, x.tor)
      tor(x) == IF ecmp THEN <<>> ELSE <<At("tor", leaf(x))>>
  IN  Link(ServerNode(a), leaf(a))
      \o tor(a)
      \o Link(leaf(a), CoreNode(0, core))
      \o Link(CoreNode(0, core), leaf(b))
      \o tor(b)
      \o Link(leaf(b), ServerNode(b))

LeafPair(a, b, core, ecmp) ==
  [testbed |-> IF ecmp THEN "ecmp" ELSE "conga", src |-> a, dst |-> b,
   fwd |-> LeafRoute(a, b, core, ecmp),
   rev |-> LeafRoute(b, a, core, ecmp)]

(* A server of the CONGA testbed.                                          *)
LeafServer(tor, svr) == [tree |-> 0, tor |-> tor, svr |-> svr]

LeafRoutes(ecmp) ==
  {LeafPair(LeafServer(tor, svr), LeafServer((tor + 1 + r) % N_LEAF, svr1), core, ecmp) :
     tor \in Below(N_LEAF), r \in Below(N_LEAF - 1),
     svr \in Below(N_SERVER), svr1 \in Below(N_SERVER), core \in Below(N_CORE)}

(* congaRoute::updateRoute: the four hops between two leaf switches, for a *)
(* packet whose _nexthop is hop (counted from 0), go through core.         *)
updateRoute(route, hop, core, src, dst) ==
  LET up == Link(src, CoreNode(0, core))
      down == Link(CoreNode(0, core), dst)
  IN  [route EXCEPT ![hop + 1] = up[1], ![hop + 2] = up[2],
                    ![hop + 3] = down[1], ![hop + 4] = down[2]]
=============================================================================
