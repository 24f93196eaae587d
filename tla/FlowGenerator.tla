--------------------------- MODULE FlowGenerator ---------------------------
(***************************************************************************)
(* The flow generator of flow-generator.cpp, driven by the event list.  It *)
(* creates flows at random times or at those of a trace; when it replaces  *)
(* flows it opens MAX_FLOWS of them and replaces each one that finishes.   *)
(* Sizes and routes of flows are abstracted.  A flow (a DataSource) starts *)
(* at its first event and finishes, after an arbitrary duration, at its    *)
(* second.                                                                 *)
(*                                                                         *)
(* The drivers call setTimeLimits before the end of the simulation is set  *)
(* in the event list, so the first events are added whatever their time.   *)
(* The end they set is the tick after STOP.                                *)
(***************************************************************************)
EXTENDS EventList

CONSTANTS
  START,      \* startTime
  STOP,       \* endTime, _endTime
  TRACE,      \* arrival times of the trace, sorted
  MAX_FLOWS,  \* _maxFlows
  Gap,        \* times between arrivals
  Wait,       \* sleep time and jitter before a new flow starts
  Duration    \* times from the start of a flow to its end

ASSUME GeneratorAssumption ==
  /\ START \in Nat /\ STOP \in Nat /\ MAX_FLOWS \in Nat \ {0}
  /\ END_TIME = 0 \/ STOP <= END_TIME
  /\ Gap \subseteq Nat /\ Wait \subseteq Nat /\ Duration \subseteq Nat
  /\ TRACE \in Seq(Nat) /\ TRACE # <<>>
  /\ \A i \in 2 .. Len(TRACE) : TRACE[i - 1] <= TRACE[i]

VARIABLES
  useTrace,         \* _useTrace, set by the driver before the run
  replaceFlow,      \* _replaceFlow, likewise
  flowTrace,        \* rest of the trace
  flowsGenerated,
  concurrentFlows,
  liveFlows,        \* flows that have not finished
  started,          \* flows that have started
  arrivals          \* history: times at which the generator made a flow

genVars == <<useTrace, replaceFlow, flowTrace, flowsGenerated, concurrentFlows, liveFlows>>
vars == <<pendingsources, now, genVars, started, arrivals>>

(* The generator is source 0.                                              *)
GEN == 0

(* The first entries of the list; END_TIME is not yet set.                 *)
setTimeLimits ==
  LET first == IF useTrace THEN Head(TRACE) ELSE START
      arrive == [when |-> first, src |-> GEN]
      stop == [when |-> STOP, src |-> GEN]
  IN  IF first <= STOP THEN <<arrive, stop>> ELSE <<stop, arrive>>

Init ==
  /\ useTrace \in BOOLEAN /\ replaceFlow \in BOOLEAN
  /\ now = 0
  /\ pendingsources = setTimeLimits
  /\ flowTrace = TRACE
  /\ flowsGenerated = 0 /\ concurrentFlows = 0
  /\ liveFlows = {} /\ started = {}
  /\ arrivals = <<>>

-----------------------------------------------------------------------------
(* The event list after createFlow: the new flow has its start event.      *)
FlowScheduled(events, wait) ==
  sourceIsPending(events, flowsGenerated + 1, now' + wait)

(* Mutant of ScheduleNext: the limit is not looked at.                     *)
ScheduleNextAlways(n) == TRUE

(* Whether a next arrival is scheduled when n flows have been opened.      *)
ScheduleNext(n) == ~replaceFlow \/ n < MAX_FLOWS

(* doNextEvent of the generator at the end: statistics, no more arrivals   *)
(* from this event.                                                        *)
EndTime ==
  /\ NextEventOf(GEN)
  /\ now' = STOP
  /\ pendingsources' = Tail(pendingsources)
  /\ UNCHANGED <<genVars, started, arrivals>>

(* Mutant of NextArrival: the time of the trace is taken as relative.      *)
NextArrivalRelative(gap, rest) == now' + IF useTrace THEN Head(rest) ELSE gap

(* When the next flow arrives, if the trace is not at its end.             *)
NextArrival(gap, rest) == IF useTrace THEN Head(rest) ELSE now' + gap

MoreArrivals(rest) == ~useTrace \/ rest # <<>>

(* doNextEvent of the generator: a flow arrives.                           *)
Generate(gap, wait) ==
  LET events == FlowScheduled(Tail(pendingsources), wait)
  IN  /\ NextEventOf(GEN)
      /\ now' # STOP
      /\ flowTrace' = IF useTrace THEN Tail(flowTrace) ELSE flowTrace
      /\ flowsGenerated' = flowsGenerated + 1
      /\ liveFlows' = liveFlows \cup {flowsGenerated + 1}
      /\ concurrentFlows' = concurrentFlows + 1
      /\ arrivals' = Append(arrivals, now')
      /\ pendingsources' =
           IF MoreArrivals(flowTrace') /\ ScheduleNext(concurrentFlows')
           THEN sourceIsPending(events, GEN, NextArrival(gap, flowTrace'))
           ELSE events
      /\ UNCHANGED <<useTrace, replaceFlow, started>>

(* A flow starts; its end is an event too.                                 *)
StartFlow(f, duration) ==
  /\ NextEventOf(f)
  /\ f \notin started
  /\ started' = started \cup {f}
  /\ pendingsources' = sourceIsPending(Tail(pendingsources), f, now' + duration)
  /\ UNCHANGED <<genVars, arrivals>>

(* A flow finishes, calls finishFlow and is perhaps replaced.              *)
finishFlow(f, wait) ==
  /\ NextEventOf(f)
  /\ f \in started
  /\ IF replaceFlow
     THEN /\ liveFlows' = (liveFlows \ {f}) \cup {flowsGenerated + 1}
          /\ flowsGenerated' = flowsGenerated + 1
          /\ pendingsources' = FlowScheduled(Tail(pendingsources), wait)
     ELSE /\ liveFlows' = liveFlows \ {f}
          /\ pendingsources' = Tail(pendingsources)
          /\ UNCHANGED flowsGenerated
  /\ UNCHANGED <<useTrace, replaceFlow, flowTrace, concurrentFlows, started,
                 arrivals>>

Next ==
  \/ EndTime
  \/ \E gap \in Gap, wait \in Wait : Generate(gap, wait)
  \/ \E f \in 1 .. flowsGenerated, d \in Duration : StartFlow(f, d)
  \/ \E f \in 1 .. flowsGenerated, wait \in Wait : finishFlow(f, wait)

Spec == Init /\ [][Next]_vars

-----------------------------------------------------------------------------
(* With replacement the slots are kept: whatever finishes while arrivals   *)
(* are still being made, there are as many live flows as slots opened, and *)
(* never more than MAX_FLOWS.                                              *)
SlotsKept ==
  replaceFlow => /\ Cardinality(liveFlows) = concurrentFlows
             /\ concurrentFlows <= MAX_FLOWS

(* The trace is replayed: the flows made so far are the first ones of the  *)
(* trace, each at its own time, and none that is due before now and before *)
(* the end is missing.                                                     *)
TraceReplayed ==
  useTrace /\ ~replaceFlow =>
    /\ IsPrefix(arrivals, TRACE)
    /\ \A i \in 1 .. Len(TRACE) :
         TRACE[i] < now /\ TRACE[i] < STOP => i <= Len(arrivals)

=============================================================================
