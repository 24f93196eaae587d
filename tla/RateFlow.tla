------------------------------ MODULE RateFlow ------------------------------
(***************************************************************************)
(* One flow of a paced end host, TIMELY or packet pair, on a path in       *)
(* simulated time.  Everything that happens is an event of the event list, *)
(* in its order; what is open is which packets are lost or delayed.        *)
(***************************************************************************)
EXTENDS Timely, PacketPair

CONSTANT EndHosts  \* the end hosts of the instance

ASSUME RateFlowAssumption == EndHosts \subseteq {"TIMELY", "PKTPAIR"}

VARIABLE endhost  \* which one the flow has

vars == <<endhost, pendingsources, now, pathVars, sinkVars, sourceVars,
          last_rtt_bytes, estimateVars, pairVars>>

(* The source has its first event at the start of the flow.                *)
Init ==
  /\ endhost \in EndHosts
  /\ now = 0
  /\ pendingsources = sourceIsPending(<<>>, SOURCE, 0)
  /\ PathInit /\ SinkInit /\ SourceInit
  /\ last_rtt_bytes = 0 /\ gap = MIN_GAP
  /\ first_rto = 0 /\ pktpair_ewma = 0
  /\ pktpairdiff = 0 /\ first_pair_ts = 0 /\ first_pair_seqno = 0

Next ==
  \/ /\ endhost = "TIMELY" /\ TimelyNext
     /\ UNCHANGED <<endhost, estimateVars, pairVars>>
  \/ /\ endhost = "PKTPAIR" /\ PacketPairNext
     /\ UNCHANGED <<endhost, last_rtt_bytes>>

(* The event list runs every event it has.                                 *)
Spec == Init /\ [][Next]_vars /\ WF_vars(Next)

-----------------------------------------------------------------------------
SourceEvents == EventsOf(SOURCE)

(* Type invariant of the source, the path and the sink.                    *)
TypeOK ==
  /\ state \in {"IDLE", "STARTUP", "NORMAL", "RECOVERY", "FINISH", "DELETED"}
  /\ {recover_seq, dupacks, highest_sent, last_acked, packets_sent, bdp, gap, rtt, mdev,
      rto, min_rtt, rto_timeout, first_rto, pktpair_ewma, now, cumulative_ack} \subseteq Nat
  /\ dupacks <= 65535
  /\ Len(enqueued) <= QUEUE_SIZE
  /\ disturbances \in 0 .. MAX_DISTURBANCES

(* There is one chain of events of a source: its handler never schedules   *)
(* two, nor does an ack that arrives while one is pending.  A TIMELY       *)
(* source has one event until it is deleted.  A packet-pair source has     *)
(* besides it at most the event that would send the first pair again, and  *)
(* neither when it is deleted: the list would call the deleted source.     *)
OneChain ==
  LET others == {k \in SourceEvents : pendingsources[k].when # first_rto}
  IN  IF endhost = "TIMELY"
      THEN Cardinality(SourceEvents) = (IF state = "DELETED" THEN 0 ELSE 1)
      ELSE /\ Cardinality(others) <= 1 /\ Cardinality(SourceEvents) <= 2
           /\ state = "DELETED" => SourceEvents = {}

(* Whatever is lost, a source that is not acknowledged everything has its  *)
(* timeout set and an event in which it sends again: a TIMELY source until *)
(* it has finished the event that looks at the timeout, and a packet-pair  *)
(* source in STARTUP the event that sends the first pair again.  After     *)
(* timeouts an ack may be beyond highest_sent; the bytes in flight then    *)
(* wrap, and only the timeout gets the source out.  Of a packet-pair       *)
(* source that has left STARTUP only the timeout is claimed: the event at  *)
(* first_rto may then be its last, and nothing looks at the timeout.       *)
TimerRunning ==
  Active /\ highest_sent # last_acked =>
    /\ rto_timeout # 0
    /\ endhost = "TIMELY" => SourceEvents # {}
    /\ endhost = "PKTPAIR" /\ state = "STARTUP" =>
         \E k \in SourceEvents : pendingsources[k].when = first_rto

(* On a path that loses and delays nothing no timeout and no fast          *)
(* retransmit sends a segment again: the timer is put off in time, and the *)
(* sink's acks never look like duplicates.                                 *)
QuietPath == disturbances = 0 => packets_sent = highest_sent

(* While nothing was sent again, a pair measures what its second segment   *)
(* took at the bottleneck, whatever else was lost or delayed: "Time        *)
(* difference should be equal to time to transmit an MSS_BYTES size        *)
(* packet".  No other two segments are taken for a pair.                   *)
PairIsService ==
  packets_sent = highest_sent =>
    pktpairdiff \in {0, SERVICE} \cup {SERVICE + x : x \in Extra}

(* The flow as ReliableFlow sees it.                                       *)
phase == CASE state = "IDLE"    -> "idle"
           [] Active            -> "running"
           [] state = "FINISH"  -> "finished"
           [] state = "DELETED" -> "deleted"

Reliable == INSTANCE ReliableFlow WITH delivered <- cumulative_ack, packets <- nPackets

(* Both paced end hosts implement ReliableFlow: no ack claims more than    *)
(* the sink has, a finished source sends nothing, not even when a timeout  *)
(* is due, and its objects are deleted when they are not in use.           *)
ImplementsReliableFlow == Reliable!Spec

(* A TIMELY flow is transferred and deleted, whatever is lost or late.     *)
TimelyCompletes == endhost = "TIMELY" ~> state = "DELETED"

(* Said of packet pair, "Cleanup the finished flow." and "Keep scheduling  *)
(* till all packets have been drained.": a flow that has finished is       *)
(* deleted.                                                                *)
PairFlowCleaned == (endhost = "PKTPAIR" /\ state = "FINISH") ~> state = "DELETED"
=============================================================================
