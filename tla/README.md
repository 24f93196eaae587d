# A TLA+ verification project for datacenter-networking

The repository holds three projects about moving data through a datacenter:

* `src/TCP-SW-DPDK`: a reliable transfer with a sliding window between two
  hosts, written directly on DPDK ports (C);
* `src/CONGA-Htsim`: a packet-level, event-driven simulator (htsim) with CONGA
  load balancing, TCP, DCTCP, TIMELY and packet-pair hosts, six queueing
  disciplines, and a flow generator (C++);
* `src/Project`: scripts and measurements around other systems.

This directory models the first two. Each module is written from the code; the
comments of a module say what it leaves out. `PROJECT.json` is the index: the
components, the runs, the source lines of every definition, the hazards, and
the theorems.

Contents: 1 inventory, 2 modules and code, 3 runs and bounds, 4 fairness,
5 proofs, 6 where the code and its comments disagree, 7 what is not modelled,
8 plan.

## 1. Inventory

| Component | State | Operations | What makes it hard | Correct when |
|---|---|---|---|---|
| DPDK client (`lab1-client.c`) | per flow `last_pkt_acked`, `last_pkt_sent`, `last_pkt_written`, `rcv_wnd`, the send buffer, timers | one polling loop: retransmit what timed out, refill, send what the window admits, receive acks; a stop packet at the end | acks lost, late and repeated; `uint32_t` differences; progress depends on retransmission alone | the window differences never wrap, an ack never exceeds what was sent, every flow ends |
| DPDK server (`lab1-server.c`) | per flow `nxt_pkt_expcd`, `last_pkt_recvd`, `last_pkt_read`, the ring `seqbuf`, the stall counter `same_ack` | receive a burst into the ring, then per flow: scan, give up, ack | late copies share ring slots with new packets; missing packets are given up after 10 stalls | a slot never stands for two packets, nothing is acked that is neither received nor given up |
| CONGA leaf and core (`conga.cpp/.h`) | `CongToLeaf`, `CongFromLeaf`, `nxtLbTag`, the smoothed register of each core queue | source leaf picks a core and writes header and route; core stamps; destination leaf records and takes feedback | one route vector is shared by all the packets of a direction and is rewritten while they travel; both directions drive the same round robin | what a table says was really measured, about that peer and that tag |
| TCP/DCTCP hosts (`tcp.cpp`, `datasource.h`, `datasink.cpp`) | window state of the source, cumulative ack and reassembly list of the sink, `_nPackets` of the flow | start, timeout, ack, duplicate ack, segment, clean-up | a timeout moves `_highest_sent` back under acks in flight; objects delete themselves while packets exist | the timer runs while it is needed, the list is exact, finished means delivered, deleted means drained |
| Queues (`queue`, `randomqueue`, `fairqueue`, `priorityqueue`, `aprx-fairqueue`, `stoc-fairqueue`) | packets, byte and packet counters, rounds, credits, sketch, the packet in service | `receivePacket`, `beginService`, `completeService` | counters kept by hand through drops and departures; a missed event stops a link for ever; unsigned subtraction | counters match the packets, order is kept in a class, service never stops, and the fairness each discipline is for |
| Pipe (`pipe.cpp`) | packets in flight with their times | receive, deliver | one event stands for all packets | every packet takes exactly the delay |
| Event list (`eventlist.cpp`) | ordered pending events, the time, the end | add, run next | handlers add events during the run | time is monotone, no event is lost before the end |
| Flow generator (`flow-generator.cpp`) | counters, live flows, the rest of the trace | next arrival, flow finished | finished flows are replaced while slots are still being opened; times are compared for equality | slots are neither lost nor exceeded, a trace is replayed |
| Packets, routes (`network.*`, `datapacket.h`) | route vector and next hop of a packet, flags, the count of packets per flow | allocate, send on, free | a packet points to a vector that others rewrite; a count that is off deletes a flow too early or never | every packet arrives at its own end; the count is seen through the flow that uses it |
| TIMELY and packet-pair hosts (`timely.cpp`, `packetpair.cpp`) | as TCP, with a rate and estimates of the round-trip time; the pair measurement of the packet-pair sink | pacing event, timeout, ack, segment, clean-up | a source lives on its own chain of events, which must neither end nor split nor outlive it; timeouts race late acks; losses and retransmissions fall between the two segments of a pair | one chain of events, nothing points to a deleted source, a timeout whenever one is needed and none on a quiet path, only pairs are measured as pairs |
| Testbed topologies (`test_fat-tree_testbed.cpp`, `test_conga_testbed.cpp`) | the links, the leaf switches | generate a pair of routes, rewrite one | indices into arrays of links at each end of up to six links; places in a vector counted from either end | routes are paths between two different servers, acks go back the same way |
| Drivers (`main.cpp`, `test_*single_link.cpp`), workloads, loggers | command line, distributions, output | set-up | - | not modelled |

**Interactions.** The two DPDK programs share only the link. In the simulator
one thread runs the event list; an object's handler runs to completion and may
call others: a packet that leaves a queue or a pipe is handed to the next hop of
its route by a direct call (`sendOn`), a finished source calls the generator
back, and everything delayed goes through `sourceIsPendingRel`. So an action of
the model is a whole handler, the calls it makes included, and interleavings are
the orders in which events fire.

## 2. Modules and code

| Module | Code | Correspondence |
|---|---|---|
| `SlidingWindow` | `lcore_main` of client and server | `cpc`, `spc` are the part of the loop a side is in. `ClientIterate` is the retransmission, refill and send passes; `ClientRecv`, `ClientRecvNothing` one poll for acks; `ClientStop` the end. `ServerRx`, `ServerRxStop`, `ServerForeignBurst`, `ServerEnd...Burst` are the receive burst, `ServerAck` the per-flow scan, give-up and ack. The link is a set of packets: any subset of what is sent enters it, a packet that is taken may stay |
| `Conga` | `conga.*`, routes of `test_conga_testbed.cpp` | `asSrcToR`, `CoreReceive`, `asDstToR` are the code's three handlers. `route[d]` is the shared vector |
| `ReliableFlow` | - | the abstract flow that every end host implements: the source is told of the end only after the sink has all, sends nothing from then on, and deletes the flow's objects once nothing points to them |
| `DataSink` | `datasink.cpp` | the reassembly all sinks share |
| `TcpFlow` | `tcp.cpp`, `datasource.h` | one action per branch of `receivePacket` (`AckFinish`, `AckPast`, `AckNew`, `AckRecovered`, `AckPartial`, `AckDup`, `AckDupRecovery`), `Timeout` and `CleanUp` for `doNextEvent`, `SinkReceive` for the sink with `processDataPacket` |
| `QueuePackets` | `queue.*`, `network.h` | packets (flow, size, key, arrival number), byte sums, tail drop; shared by all queues |
| `LinkQueue` | - | the abstract queue: at most `MAXSIZE` bytes, order within a class, drops from the end of a class, departures never stop |
| `OutputQueue` | `fat_tree::createQueue` of `test_fat-tree_testbed.cpp` | composes the five types below: a queue of the type the command line names, its handlers, and the refinement of `LinkQueue` |
| `FifoQueue` | `queue.cpp`, `randomqueue.cpp` | class: all packets |
| `FairQueue` | `fairqueue.cpp` (LAZY) | class: the flow |
| `PriorityQueue` | `priorityqueue.cpp` | class: the priority |
| `AprxFairQueue` | `aprx-fairqueue.cpp` | class: the flow |
| `StocFairQueue` | `stoc-fairqueue.cpp` | class: the FIFO a flow hashes to |
| `EventList` | `eventlist.cpp` | `pendingsources`, `now`, the operators every event-driven module uses |
| `Pipe` | `pipe.cpp` | the handlers of a pipe, on the packets in the pipes and the event list |
| `PipeLine` | `pipe.cpp`, `eventlist.cpp` | pipes in series over the event list |
| `TimedPath` | `queue.cpp`, `pipe.cpp` | a bottleneck queue and a pipe forward, a pipe back, over the event list; other flows as bounded losses and delays |
| `RateSource` | `timely.cpp`, `packetpair.cpp` | what the two sources have in common: state, estimates, timeout, and the processing of acks, which is the same code in both (lines are given for `timely.cpp`) |
| `Timely`, `PacketPair` | `timely.cpp`, `packetpair.cpp` | source and sink of each: one action per branch of `doNextEvent` and of `receivePacket`, down to the common part |
| `RateFlow` | - | composes source, path, sink and event list into a flow of either end host, and relates it to `ReliableFlow` |
| `Topology` | `generateRandomRoute`, `conga::routeGenerate`, `updateRoute` | the pairs of routes the testbeds can return, as sets |
| `Routes` | `network.cpp`, `conga.cpp/.h`, `FlowGenerator::createFlow` | packets of a flow hop by hop along the route vectors of its two directions, which leaf switches rewrite; `sendOn` for queues and pipes, `asSrcToR`, `asDstToR` for the leaf switches, `EndReceives` for the ends |
| `FlowGenerator` | `flow-generator.cpp` | arrivals, trace, replacement over the event list |
| `SlidingWindow_proofs`, `Conga_proofs`, `TcpFlow_proofs`, `RateFlow_proofs`, `Routes_proofs`, `PipeLine_proofs`, `FlowGenerator_proofs` | - | theorems about the module each is named for |
| `NatLemmas` | - | lemmas that several of them cite: least numbers, division, multiples of a segment size, insertion into and removal from sequences, entries of an event list |
| `MC...` | - | constants of the instances |

`OutputQueue` instantiates the queue modules, one of which is active. It defines
the set of packets the active type holds (`Held`) and the class within which the
type keeps the order of arrival (`Class`: all packets, the flow, the priority, or
the FIFO a flow hashes to), and instantiates `LinkQueue` with them; the formula
`ImplementsLinkQueue` is the abstract specification, its fairness included, under
that mapping. In every queue the number of its events in the event list is the
variable `pending`, so that a second or a missing departure event can be seen.

Data that no property tells apart is left out: payloads, checksums and
addresses, output, names, and the values of times where only their order or
their passing counts. Unsigned counters whose wrap-around matters keep their
width (`WORD` in `TcpFlow` and `RateSource`, `RX_WIN_SPAN` in `SlidingWindow`). Values the code
reads before it sets them are a choice: the stop decision on a burst of
foreign frames (`ServerForeignBurst`), `_currentPkt` of a new fair or priority
queue (`UNINITIALISED`), and the distance of two arrays that the server passes as
the window (`FRAME_GAP`, one number for a build).

Time is kept where it matters: `RateFlow` has one timeline, in ticks of a tenth of
a microsecond, and every step is an event of the event list at its time. Rates are
kept as the gap between two events; where a rate follows from smoothed floating-point
numbers (the gradient of TIMELY, the mark fraction of packet pair) any of a small set
of gaps may result (`Gaps`, `Slow`), while the other changes of rate are computed.

Definitions named as mutants (for instance `AckNextExpected`, `CreditedNot`)
are plausible mistakes in the definition that follows them. They are used by no
specification; `PROJECT.json` names, for each property, one that breaks it.

## 3. Runs and bounds

Passing runs; deadlock is not checked because each model may end (the client is
done, all packets of the bound have been sent).

| Run | Shows |
|---|---|
| `window` | loss, repetition and reordering on both links, packets given up: no window difference wraps (`ClientWindow`), the ring is exact (`RingExact`), acked packets are received or given up (`AckedIsAccountedFor`), at most `BUF_SIZE` packets are spanned (`BufferSpan`), only missing packets are given up (`GivesUpOnlyMissing`), and the client gets a flow longer than the buffer through (`ClientFinishes`) |
| `conga` | a pair in a `CongToLeaf` table was recorded by the peer (`FeedbackIsSeen`), and what a leaf records was stamped on a packet towards it (`SeenIsStamped`), with routes rewritten under packets |
| `tcp` | DCTCP on a lossy FIFO path and New Reno on a path that loses and reorders: `TimerRunning`, `WindowInBounds` (the window is at least a segment and at most what flow and path account for, or zero with nothing counted in flight and the timeout set), `SinkList`, the refinement `ImplementsReliableFlow`, and that every flow is transferred and its objects deleted (`FlowCompletes`) |
| `rate` | TIMELY and packet pair in time: `OneChain` (a source never has two chains of events, and none when it is deleted), `TimerRunning` (before everything is acknowledged the timeout is set; a TIMELY source has the event that looks at it, a packet-pair source in `STARTUP` the one that sends the first pair again), `QuietPath` (without losses and delays nothing is sent twice), `PairIsService` (a pair measures the service of one segment), the refinement `ImplementsReliableFlow`, and `TimelyCompletes` |
| `routes` | every pair of routes of a fat tree and a CONGA fabric, with packets in both directions: `RoutesConnect` (a vector is a path to its end at every moment), `AcksReturn` (between two servers, and back the same way), `PacketsOnCourse` (rewriting changes nothing but the core for a packet under way), `LeavesInTurn` (a leaf switch knows whether it is the first or the last) |
| `queue` | a queue of each of six types implements `LinkQueue`, its counters are exact (`CountersExact`), and its type does what it is for: `OwnBacklogOnly` (fair), `UrgentFirst` (priority), `EstimateCoversRound`, `RoundShare`, `IdleAccepts` (approximate fair), `CreditsInBounds` (stochastic fair) |
| `pipe` | `OneEventPerPipe`, `ExactDelay` (and time never runs back), `AllDelivered`, with an end of the simulation that some packets reach and others do not |
| `generator` | `SlotsKept`: with replacement, live flows and opened slots always add up; `TraceReplayed`: flows of the trace are made in order and on time, simultaneous ones too |

The runs that end with a violation are in section 6.

Why the bounds are enough:

* *Sliding window.* `NUM_PING = 3` with `BUF_SIZE = 2` wraps the ring, and 5 as
  the bound on `nxt_pkt_expcd` lets the server give up beyond the last packet.
  Stalls before a packet is given up are 2, the code's 10 would only lengthen
  traces. The theorems of section 5 remove the bounds.
* *CONGA.* Two leaves and two cores is the smallest fabric with a choice; a
  buffer of one packet and three congestion levels give drops and every order
  of feedback. With two packets per direction the second one rewrites the route of the first. The
  theorems remove the bounds.
* *TCP.* Seven segments, the last one short, in a path of 2 packets (six and 4 in
  `tcp_resume`), and the code's 3 duplicate acks reach, in both modes, slow start,
  congestion avoidance, fast recovery with partial acks, repeated timeouts, and acks
  that end fast recovery beyond a lowered `_highest_sent`. A path of 2 still lets one
  packet be overtaken by any number of others, where the mode reorders, and three
  segments wait in the list of the sink. `WORD = 256` is far above every legitimate
  value, so a wrap is a real one.
* *Queues.* Packets of 1 and 3 bytes in a buffer of 7, with a quantum and a round
  of 2: sizes divide neither the limit nor the quantum, and a packet may need
  two turns. Flows 1 and 3 of three collide in the sketch and in the hash. Packets
  differ in flow or key only where the type reads it (`Traffic`), and five or six
  of them fill the buffer, overflow it, and drain it.
* *TIMELY, packet pair.* Seven segments, the last one short, through a queue of four,
  with `MAX_DISTURBANCES` = 4 losses or longer services in any places: three
  duplicate acks and a fast retransmit that is lost again, timeouts in a row, and
  acks later than the timeout all happen. The first timeout (200 ticks) leaves room for
  the flow to finish before it, the least one (60) is shorter than a round trip that
  others have lengthened. With eight segments (`FLOWSIZE = 15`) the same
  properties hold, in over twice the states.
* *Routes.* Two trees of two top-of-rack and two aggregation switches, two uplinks
  each: routes within a switch, within a tree and between trees all occur. Three leaves and two
  cores, so that the other leaf is not determined. Two data packets and their acks:
  the second packet rewrites the vector under the first. Three packets give the same.
* *Pipe, generator.* Delays and gaps include 0, equal times and times at and
  after the end. The generator is run in its four modes (random arrivals or a
  trace, with or without replacement).

Observations made while modelling, which no run is about:

* *DPDK.* After a burst without flow packets the server compares an uninitialised
  `rfid` with the stop id (`ServerForeignBurst` may stop it). The server acks packets that
  it has given up, and the client drops its copy. The client's stop packet is sent once
  and not confirmed, so that a lost one leaves the server polling.
* *TCP.* A timeout lowers `_highest_sent` below numbers that were sent.
* *Paced sources.* After timeouts an ack may be beyond `_highest_sent` here too; the bytes in
  flight wrap, and the source sends nothing until the next timeout (`TimerRunning` says
  that there is one, and for TIMELY that it is looked at). A partial ack for more segments than there were duplicate acks
  takes the `uint16_t` `_dupacks` below zero (`timely.cpp:257`), and the source then sends
  without the limit of its window.
* *Packet pair.* A source that gets a third duplicate ack before a pair was measured is in
  `RECOVERY` at `_first_rto`, where `doNextEvent` neither starts again nor schedules
  an event, so that the flow stops for good; three losses of the first segment reach it. Its
  timeout stays set and nothing looks at it, which is why `TimerRunning` claims no event for
  a packet-pair source that has left `STARTUP`. A pacing event that comes exactly at
  `_first_rto` is lost in the same way. A retransmitted
  segment may follow the first segment of a pair and be measured as its second, which is
  why `PairIsService` ends at the first retransmission.
* *Queues.* `_nActiveFlows` of the fair queue is not counted down by departures, and only
  `PRECISE` mode reads it. The rows of the approximate fair queue's sketch all collide
  together, because the row multipliers are prime to the number of buckets, so rows add
  no protection. `Queue` and the approximate and stochastic queues test the mark threshold
  after the packet has been taken out, the fair and priority queues before.
* *Generator.* The event at the end time ends only itself, so arrivals go on until the
  event list's own end. `_concurrentFlows` counts live flows only with replacement.
* *CONGA testbed.* The server numbers (`srcToR * N_LEAF + sInRack`) are unique only while
  `N_SERVER` is at most `N_LEAF`; both are 8. The pseudo-code in `CONGA-Htsim/README` tests
  for a passed core the other way round from `conga.cpp`.

## 4. Fairness

* `SlidingWindow!FairSpec`: each side keeps polling (weak fairness on the steps
  of the two loops: nothing in them blocks), and a link on which a packet is sent
  again and again lets it through again and again (strong fairness on the sends
  that get through and on the receipts that matter). Without the second no
  retransmission protocol terminates. `ClientFinishes` excuses a server that a
  foreign frame has stopped.
* `TcpFlow!FairSpec`: the event list runs every pending event, which gives weak
  fairness to the timer, the clean-up and the arrivals; a path that is sent to
  for ever delivers something for ever (strong fairness on sends that are kept).
* `OutputQueue`: weak fairness of `completeService`, because `EventList::doNextEvent`
  runs every event that was added, in the order of time, and drivers with queues
  run until the list is empty or the end time.
* `PipeLine`, `RateFlow`: weak fairness of the event loop itself, which runs the first
  event while there is one. In `RateFlow` losses are bounded, so nothing else is needed
  for `TimelyCompletes`; the other end host does not complete (section 6).
* `Routes` has safety properties only.

## 5. Proofs

TLAPS checks eight modules. Their theorems hold for every value of the constants
under the named assumptions of the modules they are about (`ConstantsAssumption`,
`CongaAssumption`, `DataSinkAssumption`, `TcpAssumption`, `TopologyAssumption`,
`RoutesAssumption`, `EventListAssumption`, `PipeAssumption`, `PipeLineAssumption`,
`GeneratorAssumption`, `RateSourceAssumption`, `TimedPathAssumption`,
`TimelyAssumption`, `PacketPairAssumption`, `RateFlowAssumption`), which TLC
evaluates on every run. Most say that sizes are natural numbers, that buffers,
limits, timeouts and networks are not empty, and that a trace is sorted (as
`setTrace` assumes). Three say more:

* `TcpAssumption`: the words of the source are wide enough for the flow and what the
  path can hold, `WORD > 4 * (FLOWSIZE + (PATH_CAPACITY + DUPACK_LIMIT + 2) * MSS_BYTES)`.
  The code's word is `uint32_t`; this is the size of flow up to which the theorems
  speak about it. That what the code adds to `_cwnd` stays below `WORD` is then a result and
  not an assumption. The flight size may wrap all the same: `highest_sent - seqno` is below zero
  for an ack beyond `_highest_sent` whatever the size of the word, `FlightWindow` reduces it as
  the code does, and `WindowInBounds` says what comes of it.
  `RateSourceAssumption` says the same of the paced sources, `WORD > 4 * (FLOWSIZE + MSS_BYTES)`.
* `GeneratorAssumption`: STOP is not after the end of the event list. All drivers end
  the list one picosecond after the generator's end.

Each `InductiveInvariant` is `Spec => []IInv`; the other theorems follow from it,
and the action properties and the refinement from it and the step.

**SlidingWindow.** From `InductiveInvariant`
`TypeCorrect`, `ClientWindowSafe`, `RingSafe`, `AckSafe`, `BufferSpanSafe` follow
and, with the step, the action property `GiveUpSafe`. The invariants of the run
are not inductive: whether a late packet can land in a slot that stands for
another packet depends on what is in the link. `IInv` adds what the link may
hold: a packet is at most `BUF_SIZE` beyond the last ack the client has seen, and
an ack is below `nxt_pkt_expcd` (`LinkOK`); everything below `nxt_pkt_expcd` is
accounted for (`ExpectedOK`); the ring holds nothing beyond `last_pkt_recvd`, which
is at most `BUF_SIZE` beyond `last_pkt_read` (`RecvdOK`); and `last_pkt_read` is
`nxt_pkt_expcd - 1` until a flow has been scanned (`ReadOK`). Since
`nxt_pkt_expcd` only grows, the chain *last ack seen < next expected <= slots of
one ring* places every packet in the link within one ring, and `ModInjective`
(two numbers less than `BUF_SIZE` apart with the same remainder are equal) gives
each its own slot. Note that the advertised window plays no part: safety rests
on the client's own cap.

**CONGA.** `InductiveInvariant`, then `TypeCorrect`, `FeedbackSound` and
`StampSound`. The tables alone say nothing about the next header to arrive, so
`IInv` adds that every packet in a fabric queue carries feedback that its source
leaf has recorded for its destination leaf, and that the packets in a core's
queue towards a leaf are for that leaf and carry a congestion value stamped on
one (`FlightOK`), and that a leaf's table is part of its history (`RecordOK`).
It holds whichever core a rewritten route takes a packet to, which is why the
disagreement `conga_lbtag` does not spoil the tables' contents, only their
attribution to a core.

**TcpFlow.** `TypeCorrect`, `WindowStaysInBounds`, `TimerAlwaysRunning`, `AcksArriveInOrder`,
`SinkListSound` and `Refinement`, for flows and paths within `TcpAssumption`, with and without
reordering. The window is the hard part: no branch that enlarges `_cwnd` looks at a limit, and the
flight size that replaces it may have wrapped. `TypeOK` says of it only that the additions stay
below `WORD`; `WindowInBounds` gives a bound made of the flow and the path, and says that a
wrapped flight size leaves a window of zero and nothing else. `IInv` adds to the
properties of the run

* what is on its way: the segments are segments of the flow (`SegmentsOn`), an ack ends
  at a segment boundary and is not beyond `_cumulative_ack` (`AcksOn`), acks on a path that
  keeps the order are in order (`AcksInOrder`, theorem `AcksArriveInOrder`), and `_nPackets`
  counts both (`PacketsCounted`). Without the first two the sink's list and
  `_last_acked` have no bound;
* where the source is: its numbers are segment boundaries within the flow
  (`SourceOK`), and a finished source was acknowledged everything (`PhaseOK`);
* the window (`WindowOK`). Outside fast recovery `_cwnd` has grown by at most a segment for
  every new ack, so it is at most `_last_acked + WindowBound`. In fast recovery it grows by a
  segment with each duplicate ack and could do so for ever, were it not that every duplicate
  ack takes a packet out of the path: `_cwnd` plus the bytes of the packets on their way plus
  what was not yet sent does not grow, and is at most `WindowBound`. The window is zero only in a
  source that fast recovery has left with `_highest_sent = _last_acked`, which is
  the state that the run `tcp_resume` exhibits. `WindowInBounds` follows from `WindowOK` and
  `TimerRunning`.

`Refinement` maps a step of the flow to a step of `ReliableFlow` or a stutter: the
source finishes only on an ack for the whole flow, which by `AcksOn` the sink has
sent only after it had everything; and it is deleted only when `_nPackets` is zero.

**RateFlow.** `TypeCorrect`, `TimerAlwaysRunning`, `OneSourceChain`, `PairMeasuresService` and `Refinement`, for
both paced end hosts, a flow of any size, any service time, queue and pipes, and any losses
and delays that other flows cause. Source, path and sink share one event list, and what each
may do depends on what the others have in it. `IInv` adds to the types and to the timeout that
is set (`TimerSet`, the first part of `TimerRunning`)

* the list is in order and not before the time now (`ListOK`); a pipe with packets due in
  time has its one event, at the time of the first of them, and a pipe without has none;
  the queue has at most one event, and none while it is empty (`PathEvents`). The
  differences of times that the code keeps in unsigned numbers are not negative because of it;
* what is on its way: the queue holds segments that were sent before now, no more than it
  has room for (`QueueOK`); in the pipes, packets are in the order of time and not further
  ahead than the delay of the pipe, and an ack is at most `cumulative_ack` (`FlightOK`);
* the source's chain of events (`SourceChain`). A packet-pair source has at most two events, one
  of them at `first_rto` if there are two; in `STARTUP` the only one is there, and
  there is none when the flow is deleted (`PairChain`, `StartChain`). A TIMELY source has at most one,
  and has it until it is deleted *while the list takes every event* (`TimelyChain`). Past the end of
  simulation `sourceIsPending` drops the event and the source has none, which is why
  `OneSourceChain` states `OneChain` for packet pair, or with `END_TIME = 0` as in the run, and
  `TimerAlwaysRunning` states `TimerRunning` with `END_TIME = 0`, and the timeout without.

What a handler does to the list is a chain of insertions and one removal. `Onto` and
`SameEvents` say that the events of each other source are the same afterwards but for a shift, and
are carried through the handlers (`StepOK`). `Refinement` is as for TCP.

`PairMeasuresService` states `PairIsService` and has an invariant of its own, `PairInv`. The
sink takes two segments for a pair if the second follows the first in sequence and comes next.
For the two to be one service apart, nothing in between may have followed on, so `PairInv`
follows every first segment of a pair on its way (`PairsOK`): if the segment that follows on is in the
queue, it stands directly behind, or is in service and due one service after the first is;
if it is in the pipe, it comes one service later (`Lead`); and if it is in neither, it was lost, for it was
sent with the first or not at all (`Known`). All this holds while nothing was sent again,
`highest_sent = packets_sent`; that it can never hold *again* once it did not is `SentOK`: `packets_sent` is
then beyond everything the sink or the path has, so the source cannot catch up with it.

**Routes.** `RoutesAlwaysConnect`, `AcksTakeTheWayBack`, `PacketsStayOnCourse`,
`LeafSwitchesInTurn`, in fat trees, ECMP and CONGA fabrics of any size.
`IInv` is `VectorsOK` (what the two vectors of the flow are) and that each packet is
one of `GoodPackets`. Fat-tree and ECMP vectors never change; that they connect
two servers is proved from the way `generateRandomRoute` puts them together: a link is a path
(`PathHop`), and two paths that meet in a node are one whose links are
those of both, if these have no end in common (`PathCat`), where the nodes are kept
apart by their places in the tree. A CONGA vector is at any moment the vector
*through some core* (`Through`). This is what `updateRoute` preserves, although it
counts places from the end of the vector and the forward one has the queue of
the end host in front; it makes the invariant independent of the packet whose leaf
switch rewrote the vector last. A packet is on course when the element it is in is the one
at its place, *cores apart*, because a rewritten vector names another core than the one
the packet goes through; and its flag tells on which side of the core it is, which
is what a leaf switch looks at. `OtherLeaf` shows that the
random choice of another leaf really excludes the own one, `CoordinatesFacts` that
server numbers and places correspond one to one.

**PipeLine.** `EventOfEveryPipe` and `DelayIsExact`, for any number of pipes with any delays.
The first is
inductive with the types alone, but its proof needs that an event that is added or taken leaves
the events of every other pipe where they are but for a shift (`InsertPlaces`, `TailPlaces`):
`receivePacket` relies on its own event being in the list when its queue is not empty, and
`doNextEvent` on it having been the only one. For the second, `Times` adds that the list is in
order and not before now, that each pipe's packets are in order, and that the packet sent at time
*t* is due at the end of pipe *i* at *t* plus the delays up to *i* (`Reach`). The event that is due
first is that of a first packet, so a packet is handed on at the very time it is due. `Reach` is
a recursive function; that it exists and obeys its equation (`ReachFacts`) is proved by way of a least
counterexample, since the library's theorems on recursive definitions are out of reach.

**FlowGenerator.** `SlotsAlwaysKept` and `TraceIsReplayed`, for any number of slots, any
trace, and any gaps, jitter and durations. Neither is inductive: both depend on what is
pending. `IInv` says that the list is in order and not before the time now; that a flow
has at most one event and has one only while it is live, so that `finishFlow` cannot
free a slot twice; that at most one arrival is pending, only while there are slots to open
and at the time of the next flow of the trace (`ArrivalDue`); that the arrival is pending if that
flow is due before STOP (`NextIsPending`); and that flows made and trace left are the trace
(`IsRest`). The generator's event at STOP does nothing, which is why it is not counted
(`Active`). That the list stays in order comes from `CountBefore`: the number of entries that
are not later is the place of the new one.

**Only model-checked.**

* Liveness (`ClientFinishes`, `FlowCompletes`, `AllDelivered`, `TimelyCompletes`) and the fairness
  part of `ImplementsLinkQueue`: TLAPS has no support for fairness and `ENABLED` here.
* The queues (`CountersExact`, `OwnBacklogOnly`, `EstimateCoversRound`, `RoundShare`,
  `IdleAccepts`, `CreditsInBounds`, `UrgentFirst`) with their refinement of `LinkQueue`. All but
  `UrgentFirst` and `EstimateCoversRound` add up bytes over sets of packets, so they need what a
  fold over a set computes, for six types of queue; no proof has been attempted.
* `QuietPath` of `RateFlow`. That no timeout runs out while nothing disturbs the path depends on how
  the timeouts relate to the delays, so it holds for the constants of the run and not for all.

## 6. Where the code and its comments disagree

Each is a run in which TLC finds the comment's claim violated; `PROJECT.json`
quotes the lines.

| Run | Claim | What happens |
|---|---|---|
| `conga_lbtag` | `lbtag` is the core of the packet | a later packet rewrites the shared route of one that waits |
| `tcp_resume` | after recovery the source resumes normal service | an ack beyond the lowered `_highest_sent` wraps the flight size and the window becomes zero |
| `pp_cleanup` | a finished flow is cleaned up, and scheduled until its packets are drained | a packet-pair flow of one or two segments finishes before its only event, at `_first_rto`; that event is not later than `_first_rto` and does not schedule another, so the flow's objects stay for good |
| `queue_current` | `_currentPkt` of a fair or priority queue is the packet in service | a new queue has not set it |

## 7. What is not modelled

* Of TIMELY and packet pair, the gradient and the mark fraction (see section 2) and flows
  limited in time, which the flow generator never makes.
* TCP's RTT estimator, deadline-aware window and flows limited in time: numeric
  code that moves when a timeout may happen; the model lets it happen at any
  check.
* PRECISE mode of the fair queue: no constructor or option selects it.
* Creation of links and the command lines of the testbeds and single-link drivers: pure
  set-up. Losses in `Routes`: a lost packet is one that is no longer there.
* Workload distributions, loggers, log files, the progress clock: numeric
  generation and output.
* DPDK port set-up, checksums, mbuf ownership: library calls. What can go wrong with
  the ownership of an mbuf is neither modelled nor among the hazards of `PROJECT.json`.
* `src/Project`: scripts around other systems, no program state.

## 8. Plan

Done in order of importance: the sliding window (the repository's own protocol),
CONGA, TCP, the queues with their abstract specification, event list, pipe and
generator; the theorems about the first two; the paced sources composed with
a queue, pipes and the event list, the abstract flow of all end hosts, and the
routes of both testbeds.

Then the theorems about TCP with its refinement, the routes, the pipes with their delays, the
generator, and the paced end hosts with theirs.

Left:

1. Proofs about the queues, from the sum of bytes over a set of packets upwards.
2. RTT estimation and deadlines in TCP over `TimedPath`.
3. Two flows of `RateFlow` through one queue, in place of its disturbances.
