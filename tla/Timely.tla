------------------------------- MODULE Timely -------------------------------
(***************************************************************************)
(* TimelySrc and TimelySink of timely.cpp: a source that sends a segment   *)
(* every gap while less than one and a half times bdp is in flight, and    *)
(* that changes its rate, once per bdp of acked data, with the round-trip  *)
(* time.  The rate is kept as the gap; the gradient of the round-trip time *)
(* is not modelled, so between T_LOW and T_HIGH the gap may change either  *)
(* way.                                                                    *)
(***************************************************************************)
EXTENDS RateSource

CONSTANTS
  INIT_BDP,        \* bytes, 8 segments
  MIN_GAP,         \* gap of the highest rate, which is also the first
  Gaps,            \* gaps that rates in the middle range may have
  T_LOW, T_HIGH    \* round-trip times

ASSUME TimelyAssumption ==
  /\ INIT_BDP \in Nat \ {0} /\ MIN_GAP \in Nat \ {0}
  /\ Gaps \subseteq Nat \ {0} /\ \A g \in Gaps : g >= MIN_GAP
  /\ T_LOW \in Nat /\ T_HIGH \in Nat /\ T_LOW <= T_HIGH

VARIABLE last_rtt_bytes  \* last_acked when the rate was last changed

-----------------------------------------------------------------------------
(* doNextEvent.                                                            *)

(* bytes in flight that stop the source.                                   *)
TimelyLimit(window, dups) == window + window \div 2 + dups * MSS_BYTES

(* The segment of sendPackets, if it sends one.                            *)
NextSegment(high, window, dups) ==
  IF high >= FLOWSIZE \/ (window # 0 /\ InFlight(high) >= TimelyLimit(window, dups))
  THEN <<>>
  ELSE <<Segment(high + 1, FALSE)>>

(* sendPackets in a handler that has sent the packets again and brought    *)
(* highest_sent to high, and the next event.                               *)
SendAndReschedule(again, high, timer, d) ==
  LET new == NextSegment(high, bdp', dupacks')
  IN  /\ highest_sent' = high + MSS_BYTES * Len(new)
      /\ rto_timeout' = IF new = <<>> THEN timer ELSE Armed(timer)
      /\ SendOut(again \o new, d)
      /\ pendingsources' =
           sourceIsPending(Served(again \o new, d, Tail(pendingsources)), SOURCE, now' + gap)
      /\ UNCHANGED <<inflight, sinkVars>>

TimelyStart(d) ==
  /\ NextEventOf(SOURCE) /\ state = "IDLE"
  /\ state' = "NORMAL"
  /\ bdp' = INIT_BDP
  /\ last_acked' = 0
  /\ UNCHANGED <<recover_seq, dupacks, gap, rttVars, last_rtt_bytes>>
  /\ SendAndReschedule(<<>>, 0, rto_timeout, d)

TimelyTimeout(d) ==
  /\ NextEventOf(SOURCE)
  /\ Timeout
  /\ UNCHANGED <<bdp, gap, last_rtt_bytes>>
  /\ SendAndReschedule(<<Segment(last_acked + 1, FALSE)>>, last_acked + MSS_BYTES,
                       now' + rto', d)

TimelyPace(d) ==
  /\ NextEventOf(SOURCE)
  /\ Active /\ ~TimeoutDue
  /\ UNCHANGED <<state, recover_seq, dupacks, last_acked, bdp, gap, rttVars, last_rtt_bytes>>
  /\ SendAndReschedule(<<>>, highest_sent, rto_timeout, d)

TimelyCleanUp ==
  /\ NextEventOf(SOURCE) /\ state = "FINISH"
  /\ nPackets = 0
  /\ state' = "DELETED"
  /\ pendingsources' = Tail(pendingsources)
  /\ UNCHANGED <<ackVars, packets_sent, bdp, gap, rttVars, rto_timeout,
                 last_rtt_bytes, pathVars, sinkVars>>

(* Mutant of TimelyDrain: the source does not wait for its packets.        *)
TimelyDrainStops ==
  /\ NextEventOf(SOURCE) /\ state = "FINISH"
  /\ nPackets > 0
  /\ pendingsources' = Tail(pendingsources)
  /\ UNCHANGED <<sourceVars, last_rtt_bytes, pathVars, sinkVars>>

TimelyDrain ==
  /\ NextEventOf(SOURCE) /\ state = "FINISH"
  /\ nPackets > 0
  /\ pendingsources' = sourceIsPending(Tail(pendingsources), SOURCE, now' + gap)
  /\ UNCHANGED <<sourceVars, last_rtt_bytes, pathVars, sinkVars>>

-----------------------------------------------------------------------------
(* receivePacket.                                                          *)

(* The gaps after a change of rate.  The rate rises by a step up to the    *)
(* highest below T_LOW.  Above T_HIGH it falls to a fifth: T_HIGH /        *)
(* new_rtt is a division of integers.                                      *)
ChangedGaps ==
  IF Sample < T_LOW THEN {g \in Gaps \cup {gap} : g <= gap}
  ELSE IF Sample > T_HIGH THEN {5 * gap}
  ELSE Gaps \cup {gap}

(* The rate times min_rtt, rounded, in bytes.                              *)
RateWindow(g) == (2 * MSS_BYTES * min_rtt' + g) \div (2 * g)

ChangeRate ==
  \/ /\ last_acked <= last_rtt_bytes + bdp
     /\ UNCHANGED <<gap, bdp, last_rtt_bytes>>
  \/ /\ last_acked > last_rtt_bytes + bdp
     /\ \E g \in ChangedGaps : gap' = g /\ bdp' = RateWindow(g)
     /\ last_rtt_bytes' = last_acked

TimelyAck(d) ==
  /\ AckTaken
  /\ UpdateRtt
  /\ ChangeRate
  /\ ProcessAck(Untouched, theAck.ackno, d)

(* TimelySink::receivePacket: the ack has the time stamp of the segment.   *)
TimelySinkReceive(d) ==
  LET p == Head(inflight[FORWARD]).pkt
  IN  /\ NextEventOf(FORWARD)
      /\ processDataPacket(p.seqno)
      /\ SinkEvent([ackno |-> cumulative_ack', ts |-> p.ts], d)
      /\ UNCHANGED <<sourceVars, last_rtt_bytes>>

TimelyNext ==
  \/ TimelyCleanUp
  \/ TimelyDrain
  \/ \E d \in Disturbance :
       \/ TimelyStart(d)
       \/ TimelyTimeout(d)
       \/ TimelyPace(d)
       \/ TimelyAck(d)
       \/ TimelySinkReceive(d)
       \/ /\ \/ AckIgnored(d) \/ AckFinish(d)
             \/ completeService(d) /\ UNCHANGED <<sourceVars, sinkVars>>
          /\ UNCHANGED last_rtt_bytes
=============================================================================
