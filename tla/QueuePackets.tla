---------------------------- MODULE QueuePackets ----------------------------
(***************************************************************************)
(* What the queue disciplines of the simulator share: packets and the      *)
(* bytes they take.  A packet has the number of its arrival as identity,   *)
(* since two packets may have the same id (a retransmission).              *)
(***************************************************************************)
EXTENDS Integers, Sequences, FiniteSets, SequencesExt

CONSTANTS
  Flow,         \* ids of the flows that use the queue
  Size,         \* sizes of packets, in bytes
  Key,          \* packet ids or priorities, where the discipline reads them
  MAXSIZE,      \* _maxsize, in bytes
  ECN_TH,       \* dctcpThreshold(), in bytes
  MAX_ARRIVALS  \* bound of the model: packets that arrive

ASSUME QueueAssumption ==
  /\ Size \subseteq Nat \ {0} /\ \A s \in Size : s <= MAXSIZE
  /\ Key \subseteq Nat
  /\ MAXSIZE \in Nat /\ ECN_TH \in Nat /\ MAX_ARRIVALS \in Nat

Packet == [n : 1 .. MAX_ARRIVALS, flow : Flow, size : Size, key : Key]

(* The packets that may arrive after n others.                             *)
Arriving(n) ==
  [n : {n + 1} \cap 1 .. MAX_ARRIVALS, flow : Flow, size : Size, key : Key]

Bytes(S) == MapThenSumSet(LAMBDA p : p.size, S)

(* How many packets to drop from the end of line so that no more than      *)
(* MAXSIZE of the total bytes are left.                                    *)
TailDrops(line, total) ==
  Min({k \in 0 .. Len(line) :
         total - Bytes(ToSet(SubSeq(line, Len(line) - k + 1, Len(line))))
           <= MAXSIZE})
=============================================================================
