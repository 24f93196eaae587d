------------------------------ MODULE PipeLine ------------------------------
(***************************************************************************)
(* Pipes in series: a generator sends packets into the first pipe, and a   *)
(* packet that leaves a pipe enters the next one in the same event.  A     *)
(* packet is the time at which it was sent.                                *)
(***************************************************************************)
EXTENDS Pipe

CONSTANTS
  Gap,      \* times between packets of the generator
  MAX_PKTS  \* bound of the model: packets sent

ASSUME PipeLineAssumption == Gap \subseteq Nat /\ MAX_PKTS \in Nat

VARIABLES
  nSent,     \* packets sent
  delivered  \* history: per packet that left the last pipe, [sent, at]

vars == <<pendingsources, now, inflight, nSent, delivered>>

(* The generator is source 0.                                              *)
Init ==
  /\ now = 0
  /\ pendingsources = sourceIsPending(<<>>, 0, 0)
  /\ inflight = [i \in Pipes |-> <<>>]
  /\ nSent = 0
  /\ delivered = <<>>

(* The generator sends a packet and schedules the next one.                *)
SendPacket(gap) ==
  /\ NextEventOf(0)
  /\ nSent < MAX_PKTS
  /\ nSent' = nSent + 1
  /\ inflight' = Received(1, now', inflight, now')
  /\ pendingsources' = Notified(1, inflight,
                         sourceIsPending(Tail(pendingsources), 0, now' + gap), now')
  /\ UNCHANGED delivered

SendNothing ==
  /\ NextEventOf(0)
  /\ nSent = MAX_PKTS
  /\ pendingsources' = Tail(pendingsources)
  /\ UNCHANGED <<inflight, nSent, delivered>>

(* doNextEvent of pipe i: its first packet goes on to the next pipe or to  *)
(* the sink, and then the pipe schedules its next event.                   *)
doNextEvent(i) ==
  LET p    == Head(inflight[i])
      left == [inflight EXCEPT ![i] = Tail(@)]
      rest == Tail(pendingsources)
  IN  /\ NextEventOf(i)
      /\ inflight[i] # <<>>
      /\ IF i < N_PIPES
         THEN /\ inflight' = Received(i + 1, p.pkt, left, now')
              /\ pendingsources' =
                   Rescheduled(i, left, Notified(i + 1, left, rest, now'))
              /\ UNCHANGED delivered
         ELSE /\ inflight' = left
              /\ pendingsources' = Rescheduled(i, left, rest)
              /\ delivered' = Append(delivered, [sent |-> p.pkt, at |-> now'])
      /\ UNCHANGED nSent

Next ==
  \/ \E gap \in Gap : SendPacket(gap)
  \/ SendNothing
  \/ \E i \in Pipes : doNextEvent(i)

Spec == Init /\ [][Next]_vars /\ WF_vars(Next)

-----------------------------------------------------------------------------
(* The time from the generator to the end of each pipe.                    *)
Reach[i \in 0 .. N_PIPES] == IF i = 0 THEN 0 ELSE Reach[i - 1] + Delay[i]

RouteDelay == Reach[N_PIPES]

(* Every packet takes exactly the delay of the route, packets arrive in    *)
(* the order in which they were sent, and time never runs backwards, to    *)
(* before an arrival (the asserts of sourceIsPending and doNextEvent).     *)
ExactDelay ==
  \A k \in 1 .. Len(delivered) :
    /\ delivered[k].at = delivered[k].sent + RouteDelay
    /\ delivered[k].at <= now
    /\ k > 1 => delivered[k].sent >= delivered[k - 1].sent

(* Every packet that can arrive in time does: when the list is empty,      *)
(* only packets that are due past the end are left in a pipe.              *)
AllDelivered ==
  <>(/\ pendingsources = <<>>
     /\ \A i \in Pipes : \A k \in 1 .. Len(inflight[i]) : ~InTime(inflight[i][k].when))
=============================================================================
