----------------------------- MODULE RateSource -----------------------------
(***************************************************************************)
(* What the paced sources timely.cpp and packetpair.cpp have in common:    *)
(* their state, the estimate of the round-trip time and of the timeout,    *)
(* and the processing of acks, which is the same code in both.  A source   *)
(* sends in its own periodic event, every gap; acks change the gap and the *)
(* bytes that may be in flight.  Times are exact, in ticks; sequence       *)
(* numbers are bytes, and uint64_t arithmetic wraps at WORD.  Flows have a *)
(* size and no limit in time.                                              *)
(***************************************************************************)
EXTENDS TimedPath, DataSink

CONSTANTS
  FLOWSIZE,  \* bytes to transfer
  INIT_RTO,  \* timeout before the first estimate
  MIN_RTO,   \* least timeout
  FOREVER,   \* a time that is never reached: ULLONG_MAX
  WORD       \* number of values of uint64_t

ASSUME RateSourceAssumption ==
  /\ FLOWSIZE \in Nat \ {0}
  /\ INIT_RTO \in Nat \ {0} /\ MIN_RTO \in Nat \ {0} /\ FOREVER \in Nat
  /\ WORD \in Nat /\ WORD > 4 * (FLOWSIZE + MSS_BYTES)

VARIABLES
  state,         \* _state, or "DELETED" when the objects are gone
  recover_seq, dupacks, highest_sent, last_acked,
  packets_sent,  \* bytes sent, retransmissions included
  bdp,           \* _bdp_estimate
  gap,           \* time between two events of the source, from its rate
  rtt, mdev, rto, min_rtt,
  rto_timeout    \* when the timeout is due, or 0

ackVars == <<recover_seq, dupacks, highest_sent, last_acked>>
rttVars == <<rtt, mdev, rto, min_rtt>>
sourceVars == <<state, ackVars, packets_sent, bdp, gap, rttVars, rto_timeout>>

SourceInit ==
  /\ state = "IDLE"
  /\ recover_seq = 0 /\ dupacks = 0 /\ highest_sent = 0 /\ last_acked = 0
  /\ packets_sent = 0 /\ bdp = 0
  /\ rtt = 0 /\ mdev = 0 /\ rto = INIT_RTO /\ min_rtt = FOREVER
  /\ rto_timeout = 0

Active == state \in {"STARTUP", "NORMAL", "RECOVERY"}

Bigger(a, b) == IF a > b THEN a ELSE b
Smaller(a, b) == IF a < b THEN a ELSE b

-----------------------------------------------------------------------------
(* A segment that is sent now; first is the flag PP_FIRST.                 *)
Segment(seqno, first) == [seqno |-> seqno, ts |-> now', first |-> first]

SendOut(out, d) ==
  /\ Transmit(out, d)
  /\ packets_sent' = packets_sent + MSS_BYTES * Len(out)

(* Mutant of Armed: only acks set the timeout.                             *)
ArmedNever(timer) == timer

(* Mutant of Armed: the round-trip time is taken for the timeout.          *)
ArmedFromRtt(timer) == IF timer = 0 THEN now' + rtt' ELSE timer

(* The timeout after something was sent.                                   *)
Armed(timer) == IF timer = 0 THEN now' + rto' ELSE timer

(* _highest_sent - _last_acked.                                            *)
InFlight(high) == (high - last_acked) % WORD

(* highest_sent after segment acked + 1 was sent again.                    *)
AfterRetransmit(acked, high) == IF acked = high THEN high + MSS_BYTES ELSE high

(* Mutant of TimeoutDue: the timeout of a finished source counts as well.  *)
TimeoutDueAlways ==
  state \notin {"IDLE", "DELETED"} /\ rto_timeout # 0 /\ now' >= rto_timeout

(* The retransmission timeout is due.                                      *)
TimeoutDue == Active /\ rto_timeout # 0 /\ now' >= rto_timeout

(* What the timeout resets before segment last_acked + 1 is sent again.    *)
Timeout ==
  /\ TimeoutDue
  /\ state' = "NORMAL"
  /\ recover_seq' = highest_sent
  /\ dupacks' = 0
  /\ rto' = 2 * rto
  /\ rto_timeout' = now' + rto'
  /\ UNCHANGED <<last_acked, rtt, mdev, min_rtt>>

-----------------------------------------------------------------------------
(* receivePacket.  An event of the pipe back brings an ack.                *)

theAck == Head(inflight[BACK]).pkt

AckEvent ==
  /\ NextEventOf(BACK)
  /\ inflight' = [inflight EXCEPT ![BACK] = Tail(@)]
  /\ UNCHANGED sinkVars

(* The event list when the handler of the ack has sent out and, unless     *)
(* wake is FOREVER, scheduled an event of the source.                      *)
AckScheduled(out, wake, d) ==
  LET events == Served(out, d, Tail(pendingsources))
  IN  pendingsources' = Rescheduled(BACK, inflight',
                          IF wake = FOREVER THEN events
                          ELSE sourceIsPending(events, SOURCE, wake))

(* An ack from the past, or of a source that has finished.                 *)
AckIgnored(d) ==
  /\ AckEvent
  /\ state = "FINISH" \/ (theAck.ackno < FLOWSIZE /\ theAck.ackno < last_acked)
  /\ Transmit(<<>>, d)
  /\ AckScheduled(<<>>, FOREVER, d)
  /\ UNCHANGED sourceVars

(* The ack of the whole flow.                                              *)
AckFinish(d) ==
  /\ AckEvent
  /\ Active /\ theAck.ackno >= FLOWSIZE
  /\ state' = "FINISH"
  /\ Transmit(<<>>, d)
  /\ AckScheduled(<<>>, FOREVER, d)
  /\ UNCHANGED <<ackVars, packets_sent, bdp, gap, rttVars, rto_timeout>>

(* An ack that is processed further.                                       *)
AckTaken ==
  /\ AckEvent
  /\ Active
  /\ last_acked <= theAck.ackno /\ theAck.ackno < FLOWSIZE

Sample == now' - theAck.ts

(* Estimates of the round-trip time and of the timeout.                    *)
UpdateRtt ==
  LET diff == Bigger(Sample - rtt, rtt - Sample)
  IN  /\ min_rtt' = Smaller(min_rtt, Sample)
      /\ rtt' = IF rtt = 0 THEN Sample ELSE (7 * rtt) \div 8 + Sample \div 8
      /\ mdev' = IF rtt = 0 THEN Sample \div 2 ELSE (3 * mdev) \div 4 + diff \div 4
      /\ rto' = Bigger(rtt' + 4 * mdev', MIN_RTO)

(***************************************************************************)
(* The rest of receivePacket, for a handler that by now is in state st,    *)
(* has sent the packets h.out up to h.high, has the timeout h.timer, and   *)
(* has scheduled an event of the source at h.wake.                         *)
(***************************************************************************)

(* A new ack outside fast recovery.                                        *)
NewAck(h, ack, d) ==
  /\ ack > last_acked /\ h.st # "RECOVERY"
  /\ state' = h.st
  /\ last_acked' = ack /\ dupacks' = 0 /\ highest_sent' = h.high
  /\ rto_timeout' = IF ack = h.high THEN 0 ELSE now' + rto'
  /\ SendOut(h.out, d)
  /\ AckScheduled(h.out, h.wake, d)
  /\ UNCHANGED recover_seq

(* A partial ack in fast recovery: the next segment is lost as well.       *)
(* dupacks is an uint16_t.                                                 *)
PartialAck(h, ack, d) ==
  /\ ack > last_acked /\ h.st = "RECOVERY" /\ ack < recover_seq
  /\ state' = h.st
  /\ last_acked' = ack
  /\ dupacks' = (dupacks - (ack - last_acked) \div MSS_BYTES + 1) % 65536
  /\ highest_sent' = AfterRetransmit(ack, h.high)
  /\ rto_timeout' = now' + rto'
  /\ SendOut(h.out \o <<Segment(ack + 1, FALSE)>>, d)
  /\ AckScheduled(h.out \o <<Segment(ack + 1, FALSE)>>, h.wake, d)
  /\ UNCHANGED recover_seq

(* The ack that ends fast recovery.                                        *)
RecoveredAck(h, ack, d) ==
  /\ ack > last_acked /\ h.st = "RECOVERY" /\ ack >= recover_seq
  /\ state' = "NORMAL"
  /\ last_acked' = ack /\ dupacks' = 0 /\ highest_sent' = h.high
  /\ rto_timeout' = IF ack = h.high THEN 0 ELSE now' + rto'
  /\ SendOut(h.out, d)
  /\ AckScheduled(h.out, h.wake, d)
  /\ UNCHANGED recover_seq

(* The duplicate ack that starts fast recovery.                            *)
StartsRecovery(h) ==
  h.st # "RECOVERY" /\ dupacks + 1 = 3 /\ last_acked >= recover_seq

DupAck(h, ack, d) ==
  /\ ack = last_acked /\ ~StartsRecovery(h)
  /\ state' = h.st
  /\ dupacks' = (dupacks + 1) % 65536
  /\ highest_sent' = h.high
  /\ rto_timeout' = h.timer
  /\ SendOut(h.out, d)
  /\ AckScheduled(h.out, h.wake, d)
  /\ UNCHANGED <<recover_seq, last_acked>>

FastRetransmit(h, ack, d) ==
  /\ ack = last_acked /\ StartsRecovery(h)
  /\ state' = "RECOVERY"
  /\ dupacks' = 3
  /\ recover_seq' = h.high
  /\ highest_sent' = AfterRetransmit(ack, h.high)
  /\ rto_timeout' = Armed(h.timer)
  /\ SendOut(h.out \o <<Segment(ack + 1, FALSE)>>, d)
  /\ AckScheduled(h.out \o <<Segment(ack + 1, FALSE)>>, h.wake, d)
  /\ UNCHANGED last_acked

(* An ack outside fast recovery.                                           *)
ProcessOpenAck(h, ack, d) ==
  \/ NewAck(h, ack, d)
  \/ DupAck(h, ack, d)
  \/ FastRetransmit(h, ack, d)

ProcessAck(h, ack, d) ==
  \/ ProcessOpenAck(h, ack, d)
  \/ PartialAck(h, ack, d)
  \/ RecoveredAck(h, ack, d)

(* A handler that has done nothing yet.                                    *)
Untouched ==
  [st |-> state, high |-> highest_sent, timer |-> rto_timeout, out |-> <<>>,
   wake |-> FOREVER]
=============================================================================
