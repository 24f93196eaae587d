------------------------------ MODULE TcpFlow ------------------------------
(***************************************************************************)
(* One TCP (New Reno or DCTCP) flow of the simulator: TcpSrc of tcp.cpp,   *)
(* TcpSink with the reassembly of datasink.cpp, and a path of queues and   *)
(* pipes in each direction.  The simulator is single-threaded: a handler   *)
(* (doNextEvent of the source, receivePacket of the source or the sink)    *)
(* runs to completion, and the interleavings are those of the events.      *)
(*                                                                         *)
(* A path is a FIFO, or with reorder (cores of different delay) a bag, and *)
(* may drop any packet that enters it (a full queue on the way).  Time is  *)
(* abstracted: rto is whether the retransmission timeout is set, and a     *)
(* timeout that is set may have passed at any of the periodic checks.      *)
(* Sequence numbers and windows are in bytes; uint32_t arithmetic wraps at *)
(* WORD.  Flows have a size and, as the flow generator makes them, no      *)
(* limit in time.                                                          *)
(***************************************************************************)
EXTENDS DataSink

CONSTANTS
  FLOWSIZE,      \* bytes to transfer
  DUPACK_LIMIT,  \* duplicate acks that start fast recovery (3)
  WORD,          \* number of values of uint32_t
  Modes,         \* dctcp: TcpSrc::_enable_dctcp; reorder: whether packets
                 \* overtake each other on the path
  PATH_CAPACITY  \* bound of the model: packets in one direction of the path

ASSUME TcpAssumption ==
  /\ FLOWSIZE \in Nat \ {0}
  /\ DUPACK_LIMIT \in Nat \ {0}
  /\ Modes \subseteq [dctcp : BOOLEAN, reorder : BOOLEAN]
  /\ PATH_CAPACITY \in Nat \ {0}
  /\ WORD \in Nat
  /\ WORD > 4 * (FLOWSIZE + (PATH_CAPACITY + DUPACK_LIMIT + 2) * MSS_BYTES)

VARIABLES
  mode,           \* of the flow and its path
  state,          \* _state, or "DELETED" when the objects are gone
  cwnd, ssthresh, recover_seq, dupacks,
  highest_sent,   \* bytes counted as sent
  last_acked,     \* highest cumulative ack received
  rto,            \* _RFC2988_RTO_timeout # 0
  fwd,            \* data segments on their way: sequence numbers
  rev,            \* acks on their way
  nPackets        \* _flow._nPackets

srcVars == <<state, cwnd, ssthresh, recover_seq, dupacks, highest_sent,
             last_acked, rto>>
netVars == <<fwd, rev, nPackets>>
flowVars == <<srcVars, sinkVars, netVars>>
vars == <<mode, flowVars>>

Min2(a, b) == IF a < b THEN a ELSE b
Max2(a, b) == IF a > b THEN a ELSE b

Init ==
  /\ mode \in Modes
  /\ state = "IDLE"
  /\ cwnd = 0 /\ ssthresh = WORD - 1 /\ recover_seq = 0 /\ dupacks = 0
  /\ highest_sent = 0 /\ last_acked = 0
  /\ rto = FALSE
  /\ SinkInit
  /\ fwd = <<>> /\ rev = <<>> /\ nPackets = 0

-----------------------------------------------------------------------------
(* The path.                                                               *)

(* What can be left of the packets out, in their order, on a path that has *)
(* room for some.                                                          *)
Survivors(out, room) ==
  UNION {{[j \in 1 .. k |-> out[at[j]]] :
            at \in {f \in [1 .. k -> 1 .. Len(out)] :
                     \A i, j \in 1 .. k : i < j => f[i] < f[j]}} :
         k \in 0 .. Min2(room, Len(out))}

(* Mutant of Send: a new packet is not counted in the flow.                *)
SendUncounted(path, out, path1, n, n1) ==
  \E kept \in Survivors(out, PATH_CAPACITY - Len(path)) :
    path1 = path \o kept /\ n1 = n

(* Packets out enter a path; some are dropped by a queue on the way and    *)
(* freed.  n is the number of packets of the flow before.                  *)
Send(path, out, path1, n, n1) ==
  \E kept \in Survivors(out, PATH_CAPACITY - Len(path)) :
    path1 = path \o kept /\ n1 = n + Len(kept)

(* Positions of the path whose packet may be the next to arrive.           *)
Arrivals(path) ==
  IF mode.reorder THEN 1 .. Len(path) ELSE 1 .. Min2(1, Len(path))

(* How many segments sendPackets sends: until the window is full or the    *)
(* whole flow is sent.                                                     *)
SegmentsToSend(acked, window, highest) ==
  IF highest >= FLOWSIZE \/ acked + window < highest THEN 0
  ELSE Min2((acked + window - highest) \div MSS_BYTES,
            (FLOWSIZE - highest + MSS_BYTES - 1) \div MSS_BYTES)

(* First bytes of the segments that sendPackets sends.                     *)
NewSegments(acked, window, highest) ==
  [i \in 1 .. SegmentsToSend(acked, window, highest) |->
     highest + (i - 1) * MSS_BYTES + 1]

(* Mutant of SendPackets: sending does not set the timeout again.          *)
SendWithoutTimer(retransmit, acked, window, armed, n) ==
  LET new == NewSegments(acked, window, highest_sent)
      out == (IF retransmit THEN <<acked + 1>> ELSE <<>>) \o new
  IN  /\ Send(fwd, out, fwd', n, nPackets')
      /\ highest_sent' = highest_sent + Len(new) * MSS_BYTES
      /\ rto' = armed

(* sendPackets after the optional retransmission of segment acked + 1, for *)
(* a source that has just computed acked and window.  Either sets the      *)
(* timeout when it is not set.                                             *)
SendPackets(retransmit, acked, window, armed, n) ==
  LET new == NewSegments(acked, window, highest_sent)
      out == (IF retransmit THEN <<acked + 1>> ELSE <<>>) \o new
  IN  /\ Send(fwd, out, fwd', n, nPackets')
      /\ highest_sent' = highest_sent + Len(new) * MSS_BYTES
      /\ rto' = (armed \/ out # <<>>)

-----------------------------------------------------------------------------
(* TcpSrc::doNextEvent.  The source is rescheduled by every call until it  *)
(* deletes itself, so a call is possible at any time; the branches that    *)
(* change nothing are not actions.                                         *)

StartFlow ==
  /\ state = "IDLE"
  /\ state' = "SLOW_START"
  /\ cwnd' = 2 * MSS_BYTES
  /\ SendPackets(FALSE, last_acked, 2 * MSS_BYTES, rto, nPackets)
  /\ UNCHANGED <<ssthresh, recover_seq, dupacks, last_acked, sinkVars, rev>>

(* Mutant of CleanUp: packets that are still on their way do not matter.   *)
CleanUpNow ==
  /\ state = "FINISH"
  /\ state' = "DELETED"
  /\ UNCHANGED <<cwnd, ssthresh, recover_seq, dupacks, highest_sent,
                 last_acked, rto, sinkVars, netVars>>

CleanUp ==
  /\ state = "FINISH"
  /\ nPackets = 0
  /\ state' = "DELETED"
  /\ UNCHANGED <<cwnd, ssthresh, recover_seq, dupacks, highest_sent,
                 last_acked, rto, sinkVars, netVars>>

Active == state \in {"SLOW_START", "CONG_AVOID", "FAST_RECOV"}

(* Mutant of FlightWindow: no segment more than what is in flight.         *)
FlightWindowBare(sst, acked) == Min2(sst, (highest_sent - acked) % WORD)

(* min(_ssthresh, flightsize + MSS_BYTES) with flightsize in uint32_t.     *)
FlightWindow(sst, acked) ==
  Min2(sst, (((highest_sent - acked) % WORD) + MSS_BYTES) % WORD)

Timeout ==
  LET window == IF state = "FAST_RECOV" THEN FlightWindow(ssthresh, last_acked)
                                        ELSE cwnd
  IN  /\ Active /\ rto
      /\ ssthresh' = Max2(window \div 2, 2 * MSS_BYTES)
      /\ cwnd' = MSS_BYTES
      /\ state' = "SLOW_START"
      /\ recover_seq' = highest_sent
      /\ highest_sent' = last_acked + MSS_BYTES
      /\ dupacks' = 0
      /\ Send(fwd, <<last_acked + 1>>, fwd', nPackets, nPackets')
      /\ UNCHANGED <<last_acked, rto, sinkVars, rev>>

-----------------------------------------------------------------------------
(* TcpSrc::receivePacket.                                                  *)

(* The DCTCP part: a mark ends slow start, and once per window of data the *)
(* window is reduced by up to a half.  Marks and the moments when a window *)
(* of data is complete are not modelled, so both may happen at any ack.    *)
EcnOutcomes ==
  LET marked == {[st |-> state, sst |-> ssthresh]} \cup
                {[st |-> "CONG_AVOID", sst |-> cwnd] :
                   x \in {y \in {state} : y = "SLOW_START" /\ ssthresh > cwnd}}
      none == {[st |-> m.st, sst |-> m.sst, cw |-> cwnd] : m \in marked}
      reduced == {[st |-> m.st, sst |-> Max2(c, MSS_BYTES), cw |-> Max2(c, MSS_BYTES)] :
                    m \in marked, c \in (cwnd \div 2) .. cwnd}
  IN  IF mode.dctcp THEN none \cup reduced
      ELSE {[st |-> state, sst |-> ssthresh, cw |-> cwnd]}

(* inflateWindow, for the ack and the window it is called with.            *)
InflatedWindow(acked, window, sst) ==
  LET newly == Min2(acked + window - highest_sent, MSS_BYTES)
  IN  IF newly < 0 THEN window
      ELSE IF window < sst THEN window + Min2(sst - window, newly)
      ELSE window + Max2((newly * MSS_BYTES) \div window, 1)

(* An ack that finishes the flow, or reaches a source that has finished.   *)
AckFinish(i) ==
  /\ i \in Arrivals(rev)
  /\ state = "FINISH" \/ (Active /\ rev[i] >= FLOWSIZE)
  /\ state' = "FINISH"
  /\ rev' = RemoveAt(rev, i) /\ nPackets' = nPackets - 1
  /\ UNCHANGED <<cwnd, ssthresh, recover_seq, dupacks, highest_sent,
                 last_acked, rto, sinkVars, fwd>>

(* An ack from the past.                                                   *)
AckPast(i) ==
  /\ i \in Arrivals(rev) /\ Active
  /\ rev[i] < FLOWSIZE /\ rev[i] < last_acked
  /\ rev' = RemoveAt(rev, i) /\ nPackets' = nPackets - 1
  /\ UNCHANGED <<srcVars, sinkVars, fwd>>

TakeAck(i) ==
  /\ i \in Arrivals(rev) /\ Active
  /\ last_acked <= rev[i] /\ rev[i] < FLOWSIZE
  /\ rev' = RemoveAt(rev, i)
  /\ UNCHANGED sinkVars

(* A new ack outside fast recovery.  The timeout is cancelled by an ack of *)
(* everything sent, and set again by what is sent next.                    *)
AckNew(i, e) ==
  LET ack == rev[i]
      window == InflatedWindow(ack, e.cw, e.sst)
  IN  /\ TakeAck(i)
      /\ ack > last_acked /\ e.st # "FAST_RECOV"
      /\ last_acked' = ack
      /\ dupacks' = 0
      /\ state' = e.st /\ ssthresh' = e.sst /\ cwnd' = window
      /\ SendPackets(FALSE, ack, window, ack # highest_sent, nPackets - 1)
      /\ UNCHANGED recover_seq

(* The ack that ends fast recovery.                                        *)
AckRecovered(i, e) ==
  LET ack == rev[i]
      window == FlightWindow(e.sst, ack)
  IN  /\ TakeAck(i)
      /\ ack > last_acked /\ e.st = "FAST_RECOV" /\ ack >= recover_seq
      /\ last_acked' = ack
      /\ dupacks' = 0
      /\ state' = "CONG_AVOID" /\ ssthresh' = e.sst /\ cwnd' = window
      /\ SendPackets(FALSE, ack, window, ack # highest_sent, nPackets - 1)
      /\ UNCHANGED recover_seq

(* A partial ack during fast recovery: another segment was lost.           *)
AckPartial(i, e) ==
  LET ack == rev[i]
      window == Max2(e.cw - (ack - last_acked), 0) + MSS_BYTES
  IN  /\ TakeAck(i)
      /\ ack > last_acked /\ e.st = "FAST_RECOV" /\ ack < recover_seq
      /\ last_acked' = ack
      /\ state' = e.st /\ ssthresh' = e.sst /\ cwnd' = window
      /\ SendPackets(TRUE, ack, window, ack # highest_sent, nPackets - 1)
      /\ UNCHANGED <<recover_seq, dupacks>>

(* A duplicate ack that does not start fast recovery.                      *)
AckDup(i, e) ==
  LET window == IF e.st = "FAST_RECOV" THEN e.cw + MSS_BYTES ELSE e.cw
  IN  /\ TakeAck(i)
      /\ rev[i] = last_acked
      /\ e.st = "FAST_RECOV" \/ dupacks + 1 # DUPACK_LIMIT
      /\ dupacks' = IF e.st = "FAST_RECOV" THEN dupacks ELSE dupacks + 1
      /\ state' = e.st /\ ssthresh' = e.sst /\ cwnd' = window
      /\ SendPackets(FALSE, last_acked, window, rto, nPackets - 1)
      /\ UNCHANGED <<recover_seq, last_acked>>

(* The last duplicate ack while a timeout is still being recovered from.   *)
AckDupNoRecovery(i, e) ==
  /\ TakeAck(i)
  /\ rev[i] = last_acked
  /\ e.st # "FAST_RECOV" /\ dupacks + 1 = DUPACK_LIMIT
  /\ last_acked < recover_seq
  /\ dupacks' = DUPACK_LIMIT
  /\ state' = e.st /\ ssthresh' = e.sst /\ cwnd' = e.cw
  /\ nPackets' = nPackets - 1
  /\ UNCHANGED <<recover_seq, highest_sent, last_acked, rto, fwd>>

(* The last duplicate ack: fast retransmit.                                *)
AckDupRecovery(i, e) ==
  LET sst == Max2(e.cw \div 2, 2 * MSS_BYTES)
  IN  /\ TakeAck(i)
      /\ rev[i] = last_acked
      /\ e.st # "FAST_RECOV" /\ dupacks + 1 = DUPACK_LIMIT
      /\ last_acked >= recover_seq
      /\ dupacks' = DUPACK_LIMIT
      /\ ssthresh' = sst
      /\ cwnd' = sst + DUPACK_LIMIT * MSS_BYTES
      /\ state' = "FAST_RECOV"
      /\ recover_seq' = highest_sent
      /\ rto' = TRUE
      /\ Send(fwd, <<last_acked + 1>>, fwd', nPackets - 1, nPackets')
      /\ UNCHANGED <<highest_sent, last_acked>>

-----------------------------------------------------------------------------
(* TcpSink::receivePacket.                                                 *)

SinkReceive(i) ==
  /\ i \in Arrivals(fwd)
  /\ processDataPacket(fwd[i])
  /\ fwd' = RemoveAt(fwd, i)
  /\ Send(rev, <<cumulative_ack'>>, rev', nPackets - 1, nPackets')
  /\ UNCHANGED srcVars

-----------------------------------------------------------------------------
Places == 1 .. PATH_CAPACITY

ReceiveAck(i) ==
  \E e \in EcnOutcomes :
    \/ AckNew(i, e)
    \/ AckRecovered(i, e)
    \/ AckPartial(i, e)
    \/ AckDup(i, e)
    \/ AckDupNoRecovery(i, e)
    \/ AckDupRecovery(i, e)

Next ==
  /\ \/ StartFlow
     \/ Timeout
     \/ CleanUp
     \/ \E i \in Places :
          \/ AckFinish(i)
          \/ AckPast(i)
          \/ ReceiveAck(i)
          \/ SinkReceive(i)
  /\ UNCHANGED mode

Spec == Init /\ [][Next]_vars

(***************************************************************************)
(* Fairness.  The event list runs every pending event: the periodic check  *)
(* of the source, and the arrival of every packet on the path.  Losses are *)
(* not permanent: of the timeouts, and of the segments that arrive, that   *)
(* occur again and again some get their packet through.                    *)
(***************************************************************************)
Fairness ==
  /\ WF_flowVars(StartFlow)
  /\ WF_flowVars(CleanUp)
  /\ WF_flowVars(\E i \in Places : AckFinish(i) \/ AckPast(i) \/ ReceiveAck(i))
  /\ WF_flowVars(\E i \in Places : SinkReceive(i))
  /\ SF_flowVars(Timeout /\ Len(fwd') > Len(fwd))
  /\ SF_flowVars(SinkReceive(1) /\ Len(rev') > Len(rev))

FairSpec == Spec /\ Fairness

-----------------------------------------------------------------------------
(* Type invariant of source, sink and path.  What the code adds to cwnd is *)
(* not reduced in the model, and so stays below WORD; the flight size is   *)
(* reduced in FlightWindow, and WindowInBounds is about what comes of it.  *)
TypeOK ==
  /\ state \in {"IDLE", "SLOW_START", "CONG_AVOID", "FAST_RECOV", "FINISH", "DELETED"}
  /\ cwnd \in 0 .. (WORD - 1)
  /\ ssthresh \in 0 .. (WORD - 1)
  /\ recover_seq \in Nat /\ dupacks \in Nat
  /\ highest_sent \in Nat /\ last_acked \in Nat
  /\ rto \in BOOLEAN
  /\ cumulative_ack \in Nat
  /\ received \in Seq(Nat)
  /\ fwd \in Seq(Nat) /\ Len(fwd) <= PATH_CAPACITY
  /\ rev \in Seq(Nat) /\ Len(rev) <= PATH_CAPACITY
  /\ nPackets \in Nat

(* A bound of the congestion window when no byte is acknowledged yet.      *)
WindowBound ==
  3 * FLOWSIZE + (4 * PATH_CAPACITY + 2 * DUPACK_LIMIT + 2) * MSS_BYTES

(* The window of a source in the middle of a transfer is at least a        *)
(* segment, and at most what the flow and the path account for, far from   *)
(* the wrapped values of an uint32_t.  An ack beyond highest_sent wraps    *)
(* the flight size when it ends fast recovery; all that comes of it is a   *)
(* window of zero in a source that counts nothing in flight and has its    *)
(* timeout set.                                                            *)
WindowInBounds == Active =>
  \/ cwnd \in MSS_BYTES .. (FLOWSIZE + WindowBound)
  \/ state = "CONG_AVOID" /\ cwnd = 0 /\ highest_sent = last_acked /\ rto

(* A source in the middle of a transfer always has its retransmission      *)
(* timeout set: no combination of acks, losses, recoveries and timeouts    *)
(* leaves it waiting for a packet that nobody will send.                   *)
TimerRunning == Active => rto

(* "Delayed / reordered ack.  Shouldn't happen for simple queues": on a    *)
(* path that is a FIFO the acks on their way are in order and none is      *)
(* older than last_acked.                                                  *)
AcksInOrder == ~mode.reorder =>
  /\ \A i \in 1 .. Len(rev) : Active => rev[i] >= last_acked
  /\ \A i, j \in 1 .. Len(rev) : i < j => rev[i] <= rev[j]

(* The flow as ReliableFlow sees it.                                       *)
phase == CASE state = "IDLE"    -> "idle"
           [] Active            -> "running"
           [] state = "FINISH"  -> "finished"
           [] state = "DELETED" -> "deleted"

Reliable == INSTANCE ReliableFlow WITH delivered <- cumulative_ack, packets <- nPackets

(* TCP and DCTCP implement ReliableFlow: whatever was lost, reordered or   *)
(* sent twice, a source finishes only a flow that the sink has to the last *)
(* byte; a finished source sends nothing; and the objects of a flow are    *)
(* deleted only when no packet that points to them is left.                *)
ImplementsReliableFlow == Reliable!Spec

(* A flow is transferred completely and its objects are deleted, whatever  *)
(* is lost on the way.                                                     *)
FlowCompletes == <>(state = "DELETED")

(* Said of the ack that ends fast recovery: "resume normal service".  A    *)
(* source in congestion avoidance then has a window of at least a segment. *)
ResumesService == state = "CONG_AVOID" => cwnd >= MSS_BYTES

=============================================================================
