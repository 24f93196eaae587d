----------------------------- MODULE PacketPair -----------------------------
(***************************************************************************)
(* PacketPairSrc and PacketPairSink of packetpair.cpp.  The source sends   *)
(* segments in pairs.  The sink measures the time between the two segments *)
(* of a pair, which is the time one takes at the bottleneck, and returns   *)
(* it in the ack of the second; the source sends a pair every two such     *)
(* times.  The marks of ECN are not modelled: the reduction by alpha that  *)
(* follows from them may have any of the values of Slow.                   *)
(***************************************************************************)
EXTENDS RateSource

CONSTANT Slow  \* quarters by which alpha stretches the gap: 4 for none, 8 for all

ASSUME PacketPairAssumption == Slow \subseteq 4 .. 8

VARIABLES
  first_rto,       \* when the first pair is given up, or was
  pktpair_ewma,    \* smoothed time between the segments of a pair
  pktpairdiff,     \* of the sink: time between the segments of the last pair
  first_pair_ts, first_pair_seqno  \* of the sink: first segment of a pair, or 0

pairVars == <<pktpairdiff, first_pair_ts, first_pair_seqno>>
estimateVars == <<first_rto, pktpair_ewma>>

-----------------------------------------------------------------------------
(* doNextEvent.                                                            *)

(* transmitPacketPair for a handler that has brought highest_sent to high. *)
Pair(high, window, dups) ==
  IF \/ high >= FLOWSIZE
     \/ window # 0 /\ InFlight(high) > window + window \div 2 + dups * MSS_BYTES
  THEN <<>>
  ELSE IF high + MSS_BYTES >= FLOWSIZE THEN <<Segment(high + 1, TRUE)>>
  ELSE <<Segment(high + 1, TRUE), Segment(high + MSS_BYTES + 1, FALSE)>>

(* A handler sends the packets again and a pair, and schedules the next    *)
(* event of the source at wake.                                            *)
SendPairAndReschedule(again, pair, high, timer, wake, d) ==
  /\ highest_sent' = high + MSS_BYTES * Len(pair)
  /\ rto_timeout' = IF pair = <<>> THEN timer ELSE Armed(timer)
  /\ SendOut(again \o pair, d)
  /\ pendingsources' =
       sourceIsPending(Served(again \o pair, d, Tail(pendingsources)), SOURCE, wake)
  /\ UNCHANGED <<inflight, sinkVars, pairVars>>

(* Mutant of Restarts: the first pair is sent only once.                   *)
RestartsNever == state = "IDLE"

Restarts == state = "IDLE" \/ (state = "STARTUP" /\ now' = first_rto)

(* The first pair, which is sent again until a pair has been measured.     *)
PacketPairStart(d) ==
  /\ NextEventOf(SOURCE) /\ Restarts
  /\ state' = "STARTUP"
  /\ last_acked' = 0
  /\ bdp' = 2 * MSS_BYTES
  /\ first_rto' = now' + rto
  /\ UNCHANGED <<recover_seq, dupacks, gap, rttVars, pktpair_ewma>>
  /\ SendPairAndReschedule(<<>>, IF FLOWSIZE > MSS_BYTES
                                 THEN <<Segment(1, TRUE), Segment(MSS_BYTES + 1, FALSE)>>
                                 ELSE <<Segment(1, TRUE)>>,
                           0, rto_timeout, now' + rto, d)

PacketPairTimeout(d) ==
  /\ NextEventOf(SOURCE)
  /\ ~Restarts /\ now' # first_rto
  /\ Timeout
  /\ UNCHANGED <<bdp, gap, estimateVars>>
  /\ LET high == last_acked + MSS_BYTES
     IN  SendPairAndReschedule(<<Segment(last_acked + 1, FALSE)>>,
           Pair(high, bdp, 0), high, now' + rto', now' + gap, d)

PacketPairPace(d) ==
  /\ NextEventOf(SOURCE)
  /\ Active /\ ~Restarts /\ ~TimeoutDue /\ now' # first_rto
  /\ UNCHANGED <<state, recover_seq, dupacks, last_acked, bdp, gap, rttVars, estimateVars>>
  /\ SendPairAndReschedule(<<>>, Pair(highest_sent, bdp, dupacks), highest_sent,
                           rto_timeout, now' + gap, d)

(* The event that was to send the first pair again, or any other at that   *)
(* time, does not schedule another one.                                    *)
FirstRtoTimeout(d) ==
  /\ NextEventOf(SOURCE)
  /\ ~Restarts /\ now' = first_rto
  /\ Timeout
  /\ highest_sent' = last_acked + MSS_BYTES
  /\ SendOut(<<Segment(last_acked + 1, FALSE)>>, d)
  /\ pendingsources' = Served(<<Segment(last_acked + 1, FALSE)>>, d, Tail(pendingsources))
  /\ UNCHANGED <<bdp, gap, estimateVars, inflight, sinkVars, pairVars>>

FirstRtoPassed ==
  /\ NextEventOf(SOURCE)
  /\ state # "DELETED" /\ ~Restarts /\ ~TimeoutDue /\ now' = first_rto
  /\ pendingsources' = Tail(pendingsources)
  /\ UNCHANGED <<sourceVars, estimateVars, pathVars, sinkVars, pairVars>>

(* Mutant of PacketPairCleanUp: the event at first_rto may still come.     *)
PacketPairCleanUpEarly ==
  /\ NextEventOf(SOURCE) /\ state = "FINISH"
  /\ nPackets = 0
  /\ state' = "DELETED"
  /\ pendingsources' = Tail(pendingsources)
  /\ UNCHANGED <<ackVars, packets_sent, bdp, gap, rttVars, rto_timeout,
                 estimateVars, pathVars, sinkVars, pairVars>>

PacketPairCleanUp ==
  /\ NextEventOf(SOURCE) /\ state = "FINISH"
  /\ nPackets = 0 /\ now' > first_rto
  /\ state' = "DELETED"
  /\ pendingsources' = Tail(pendingsources)
  /\ UNCHANGED <<ackVars, packets_sent, bdp, gap, rttVars, rto_timeout,
                 estimateVars, pathVars, sinkVars, pairVars>>

PacketPairDrain ==
  /\ NextEventOf(SOURCE) /\ state = "FINISH"
  /\ now' # first_rto
  /\ nPackets > 0 \/ now' < first_rto
  /\ pendingsources' = sourceIsPending(Tail(pendingsources), SOURCE, now' + rtt)
  /\ UNCHANGED <<sourceVars, estimateVars, pathVars, sinkVars, pairVars>>

-----------------------------------------------------------------------------
(* receivePacket.                                                          *)

(* Bytes in flight for a pair that is e apart.                             *)
PairWindow(e) == Bigger((MSS_BYTES * min_rtt') \div e, 2 * MSS_BYTES)

(* The ack of a segment that is not the second of a pair.                  *)
AckNoPair(d) ==
  /\ AckTaken
  /\ theAck.diff = 0
  /\ UpdateRtt
  /\ UNCHANGED <<bdp, gap, estimateVars, pairVars>>
  /\ ProcessAck(Untouched, theAck.ackno, d)

(* A new measurement.                                                      *)
AckPair(d) ==
  /\ AckTaken
  /\ theAck.diff # 0 /\ state # "STARTUP"
  /\ UpdateRtt
  /\ pktpair_ewma' = (pktpair_ewma + theAck.diff + 1) \div 2
  /\ bdp' = PairWindow(pktpair_ewma')
  /\ \E k \in Slow : gap' = (2 * pktpair_ewma' * k) \div 4
  /\ UNCHANGED <<first_rto, pairVars>>
  /\ ProcessAck(Untouched, theAck.ackno, d)

(* The first measurement starts the pacing, before the ack is processed.   *)
AckFirstPair(d) ==
  /\ AckTaken
  /\ theAck.diff # 0 /\ state = "STARTUP"
  /\ UpdateRtt
  /\ pktpair_ewma' = theAck.diff
  /\ bdp' = PairWindow(theAck.diff)
  /\ gap' = 2 * theAck.diff
  /\ UNCHANGED <<first_rto, pairVars>>
  /\ LET pair == Pair(highest_sent, bdp', dupacks)
         h == [st |-> "NORMAL",
               high |-> highest_sent + MSS_BYTES * Len(pair),
               timer |-> IF pair = <<>> THEN rto_timeout ELSE Armed(rto_timeout),
               out |-> pair,
               wake |-> now' + gap']
     IN  ProcessOpenAck(h, theAck.ackno, d)

(* Mutant of Measured: a segment that is not of the pair is compared too.  *)
MeasuredAny(p) ==
  IF p.first \/ first_pair_seqno = 0 THEN 0 ELSE now' - first_pair_ts

(* The time between the segments of a pair, when p is its second one.      *)
Measured(p) ==
  IF ~p.first /\ first_pair_seqno = p.seqno - MSS_BYTES THEN now' - first_pair_ts ELSE 0

(* PacketPairSink::receivePacket.                                          *)
PacketPairSinkReceive(d) ==
  LET p == Head(inflight[FORWARD]).pkt
  IN  /\ NextEventOf(FORWARD)
      /\ processDataPacket(p.seqno)
      /\ pktpairdiff' = Measured(p)
      /\ first_pair_ts' = IF p.first THEN now' ELSE 0
      /\ first_pair_seqno' = IF p.first THEN p.seqno ELSE 0
      /\ SinkEvent([ackno |-> cumulative_ack', ts |-> p.ts, diff |-> pktpairdiff'], d)
      /\ UNCHANGED <<sourceVars, estimateVars>>

PacketPairNext ==
  \/ FirstRtoPassed
  \/ PacketPairCleanUp
  \/ PacketPairDrain
  \/ \E d \in Disturbance :
       \/ PacketPairStart(d)
       \/ PacketPairTimeout(d)
       \/ PacketPairPace(d)
       \/ FirstRtoTimeout(d)
       \/ AckNoPair(d)
       \/ AckPair(d)
       \/ AckFirstPair(d)
       \/ PacketPairSinkReceive(d)
       \/ /\ \/ AckIgnored(d) \/ AckFinish(d)
             \/ completeService(d) /\ UNCHANGED <<sourceVars, sinkVars>>
          /\ UNCHANGED <<estimateVars, pairVars>>
=============================================================================
