--------------------------- MODULE SlidingWindow ---------------------------
(***************************************************************************)
(* The sliding-window transfer of TCP-SW-DPDK: a client that sends         *)
(* NUM_PING numbered packets on each of several flows, a server that       *)
(* buffers them in a ring and answers with cumulative acks, and the link   *)
(* between two NIC ports.  The client is lcore_main of lab1-client.c, the  *)
(* server lcore_main of lab1-server.c; both are single-threaded polling    *)
(* loops, so the interleavings are those of the two loops and the link.    *)
(*                                                                         *)
(* The link is external: a packet handed to rte_eth_tx_burst may be lost   *)
(* (it never enters data or acks), delayed, reordered, and, because a      *)
(* retransmission is indistinguishable from the original, received more    *)
(* than once (a received packet may leave another copy in the link).       *)
(* Time is abstracted: the retransmission timer of a packet may have       *)
(* expired or not in every iteration.                                      *)
(***************************************************************************)
EXTENDS Integers, FiniteSets

CONSTANTS
  Flow,            \* flow ids 0 .. flow_num - 1
  NUM_PING,        \* packets to send per flow: flow_size / payload_len
  BUF_SIZE,        \* slots of the server's ring, cap of the client's window
  SAME_ACK_LIMIT,  \* stalled bursts before the server gives a packet up (10)
  RX_WIN_SPAN,     \* number of values of the 16-bit field rx_win (65536)
  FRAME_GAP,       \* last_pkt_recvd - last_pkt_read, see AdvertisedWindow
  FOREIGN_FRAMES,  \* whether frames that are not for a flow reach the server
  MAX_EXPCD        \* bound of the model on nxt_pkt_expcd

ASSUME ConstantsAssumption ==
  /\ NUM_PING \in Nat
  /\ BUF_SIZE \in Nat \ {0}
  /\ SAME_ACK_LIMIT \in Nat \ {0}
  /\ RX_WIN_SPAN \in Nat \ {0}
  /\ FRAME_GAP \in Int
  /\ FOREIGN_FRAMES \in BOOLEAN
  /\ MAX_EXPCD \in Nat /\ MAX_EXPCD > NUM_PING + 1

VARIABLES
  cpc,               \* the part of its loop the client is in
  last_pkt_acked,    \* per flow, highest ack the client has seen
  last_pkt_sent,     \* per flow, highest packet the client counts as sent
  last_pkt_written,  \* per flow, highest packet the application has written
  rcv_wnd,           \* per flow, window of the last ack
  spc,               \* the part of its loop the server is in
  nxt_pkt_expcd,     \* per flow, first packet not yet acknowledged
  last_pkt_recvd,    \* per flow, highest packet received
  last_pkt_read,     \* per flow, nxt_pkt_expcd - 1 when the iteration began
  seqbuf,            \* per flow, the ring of sequence numbers
  same_ack,          \* per flow, bursts that did not advance nxt_pkt_expcd
  rcvd,              \* per flow, whether this burst had a packet of it
  data,              \* data packets in the link
  acks,              \* acks in the link
  stop,              \* whether the packet that stops the server is in the link
  got,               \* history: packets the server has received
  skipped            \* history: packets the server gave up waiting for

clientVars == <<cpc, last_pkt_acked, last_pkt_sent, last_pkt_written, rcv_wnd>>
serverVars == <<spc, nxt_pkt_expcd, last_pkt_recvd, last_pkt_read, seqbuf,
                same_ack, rcvd, got, skipped>>
linkVars == <<data, acks, stop>>
vars == <<clientVars, serverVars, linkVars>>

-----------------------------------------------------------------------------
(* Packets.  Only the fields the two loops read are kept: the flow, which  *)
(* is the TCP port, and the sequence number or the ack and the window.     *)

Seqs == 1 .. NUM_PING
Windows == 0 .. (RX_WIN_SPAN - 1)
Data == [fid : Flow, seq : Seqs]
Acks == [fid : Flow, recv_ack : Nat, rx_win : Windows]

(* The server passes BUF_SIZE - (last_pkt_recvd - last_pkt_read) as the    *)
(* window.  The two names are arrays, so this is the distance in elements  *)
(* between two objects of the stack frame: one number for a whole build,   *)
(* FRAME_GAP.  The header field it is stored in has 16 bits.               *)
AdvertisedWindow == (BUF_SIZE - FRAME_GAP) % RX_WIN_SPAN

(* Mutant of construct_ack: acks nxt_pkt_expcd, not the packet before it.  *)
AckNextExpected(f, a) ==
  [fid |-> f, recv_ack |-> a + 1, rx_win |-> AdvertisedWindow]

construct_ack(f, a) ==
  [fid |-> f, recv_ack |-> a, rx_win |-> AdvertisedWindow]

Smaller(a, b) == IF a < b THEN a ELSE b
Larger(a, b) == IF a > b THEN a ELSE b

(* The link after a packet has been taken out of it: the packet is gone,   *)
(* or another copy of it is still there.                                   *)
Taken(link, m, link1) == link1 \in {link, link \ {m}}

-----------------------------------------------------------------------------
(* The client.                                                             *)

ClientInit ==
  /\ cpc = "xmit"
  /\ last_pkt_acked = [f \in Flow |-> 0]
  /\ last_pkt_sent = [f \in Flow |-> 0]
  /\ last_pkt_written = [f \in Flow |-> 0]
  /\ rcv_wnd = [f \in Flow |-> BUF_SIZE]

AllAcked == \A f \in Flow : last_pkt_acked[f] >= NUM_PING

(* Packets the retransmission pass looks at: sent, written and not acked.  *)
Unacked(f) ==
  (last_pkt_acked[f] + 1) .. Smaller(last_pkt_sent[f], last_pkt_written[f])

(* Refill of the send buffer.                                              *)
Written(f) == Smaller(NUM_PING, last_pkt_acked[f] + BUF_SIZE)

(* Mutant of SentAfter: the window is not relative to the last ack.        *)
SentToWindow(f) == Larger(last_pkt_sent[f], Smaller(Written(f), rcv_wnd[f]))

(* Where the send loop stops.  last_pkt_sent - last_pkt_acked is computed  *)
(* in uint32_t: ClientWindow shows that it never wraps.                    *)
SentAfter(f) ==
  Larger(last_pkt_sent[f],
         Smaller(Written(f), last_pkt_acked[f] + rcv_wnd[f]))

(* What one iteration may hand to the NIC: timed-out and new packets.      *)
Transmittable ==
  {m \in Data : \/ m.seq \in Unacked(m.fid)
               \/ m.seq \in (last_pkt_sent[m.fid] + 1) .. SentAfter(m.fid)}

(* The sending half of an iteration: retransmit what timed out, refill the *)
(* buffer, send what the window allows.  through is what gets through.     *)
ClientIterate(through) ==
  /\ cpc = "xmit"
  /\ ~ AllAcked
  /\ last_pkt_written' = [f \in Flow |-> Written(f)]
  /\ last_pkt_sent' = [f \in Flow |-> SentAfter(f)]
  /\ data' = data \cup through
  /\ cpc' = "recv"
  /\ UNCHANGED <<last_pkt_acked, rcv_wnd, serverVars, acks, stop>>

(* Mutant of ClientRecv: an ack does not move last_pkt_sent.               *)
ClientRecvOnly(m) ==
  /\ cpc = "recv"
  /\ m \in acks
  /\ Taken(acks, m, acks')
  /\ rcv_wnd' = [rcv_wnd EXCEPT ![m.fid] = m.rx_win]
  /\ last_pkt_acked' =
       [last_pkt_acked EXCEPT ![m.fid] = Larger(@, m.recv_ack)]
  /\ UNCHANGED <<cpc, last_pkt_sent, last_pkt_written, serverVars, data, stop>>

(* The receiving half, one ack at a time.  The window is taken from every  *)
(* ack, old or new.                                                        *)
ClientRecv(m) ==
  /\ cpc = "recv"
  /\ m \in acks
  /\ Taken(acks, m, acks')
  /\ rcv_wnd' = [rcv_wnd EXCEPT ![m.fid] = m.rx_win]
  /\ last_pkt_acked' =
       [last_pkt_acked EXCEPT ![m.fid] = Larger(@, m.recv_ack)]
  /\ last_pkt_sent' =
       [last_pkt_sent EXCEPT ![m.fid] =
          IF m.recv_ack > last_pkt_acked[m.fid] THEN Larger(@, m.recv_ack)
                                                ELSE @]
  /\ UNCHANGED <<cpc, last_pkt_written, serverVars, data, stop>>

(* rte_eth_rx_burst returns nothing: the next iteration begins.            *)
ClientRecvNothing ==
  /\ cpc = "recv"
  /\ cpc' = "xmit"
  /\ UNCHANGED <<last_pkt_acked, last_pkt_sent, last_pkt_written, rcv_wnd,
                 serverVars, linkVars>>

(* Everything is acked: send the stop packet once, and leave.              *)
ClientStop ==
  /\ cpc = "xmit"
  /\ AllAcked
  /\ cpc' = "done"
  /\ stop' \in BOOLEAN
  /\ UNCHANGED <<last_pkt_acked, last_pkt_sent, last_pkt_written, rcv_wnd,
                 serverVars, data, acks>>

-----------------------------------------------------------------------------
(* The server.  spc = "rx" while a burst of packets is being taken from    *)
(* the NIC, "ack" while the flows of the burst are being acknowledged.     *)

Slot(s) == (s - 1) % BUF_SIZE
Slots == 0 .. (BUF_SIZE - 1)

ServerInit ==
  /\ spc = "rx"
  /\ nxt_pkt_expcd = [f \in Flow |-> 1]
  /\ last_pkt_recvd = [f \in Flow |-> 0]
  /\ last_pkt_read = [f \in Flow |-> 0]
  /\ seqbuf = [f \in Flow |-> [i \in Slots |-> 0]]
  /\ same_ack = [f \in Flow |-> 0]
  /\ rcvd = [f \in Flow |-> FALSE]
  /\ got = [f \in Flow |-> {}]
  /\ skipped = [f \in Flow |-> {}]

(* Mutant of ServerRx: late packets are written to the ring as well.       *)
ServerRxLate(m) ==
  /\ spc = "rx"
  /\ m \in data
  /\ Taken(data, m, data')
  /\ rcvd' = [rcvd EXCEPT ![m.fid] = TRUE]
  /\ seqbuf' = [seqbuf EXCEPT ![m.fid][Slot(m.seq)] = m.seq]
  /\ last_pkt_recvd' = [last_pkt_recvd EXCEPT ![m.fid] = Larger(@, m.seq)]
  /\ got' = [got EXCEPT ![m.fid] = @ \cup {m.seq}]
  /\ UNCHANGED <<clientVars, spc, nxt_pkt_expcd, last_pkt_read, same_ack,
                 skipped, acks, stop>>

(* One data packet of a burst.                                             *)
ServerRx(m) ==
  /\ spc = "rx"
  /\ m \in data
  /\ Taken(data, m, data')
  /\ rcvd' = [rcvd EXCEPT ![m.fid] = TRUE]
  /\ seqbuf' = IF m.seq >= nxt_pkt_expcd[m.fid]
                 THEN [seqbuf EXCEPT ![m.fid][Slot(m.seq)] = m.seq]
                 ELSE seqbuf
  /\ last_pkt_recvd' = [last_pkt_recvd EXCEPT ![m.fid] = Larger(@, m.seq)]
  /\ got' = [got EXCEPT ![m.fid] = @ \cup {m.seq}]
  /\ UNCHANGED <<clientVars, spc, nxt_pkt_expcd, last_pkt_read, same_ack,
                 skipped, acks, stop>>

(* The stop packet ends the burst and the loop: the flows that were        *)
(* received before it in the burst get no ack.                             *)
ServerRxStop ==
  /\ spc = "rx"
  /\ stop
  /\ stop' = FALSE
  /\ spc' = "stopped"
  /\ UNCHANGED <<clientVars, nxt_pkt_expcd, last_pkt_recvd, last_pkt_read,
                 seqbuf, same_ack, rcvd, got, skipped, data, acks>>

(* A burst without a packet for any flow.  rfid is not initialised, and it *)
(* is compared with STOP_FLOW_ID: the loop ends or goes on.                *)
ServerForeignBurst ==
  /\ FOREIGN_FRAMES
  /\ spc = "rx"
  /\ \A f \in Flow : ~ rcvd[f]
  /\ spc' \in {"rx", "stopped"}
  /\ UNCHANGED <<clientVars, nxt_pkt_expcd, last_pkt_recvd, last_pkt_read,
                 seqbuf, same_ack, rcvd, got, skipped, linkVars>>

ServerEndBurst ==
  /\ spc = "rx"
  /\ \E f \in Flow : rcvd[f]
  /\ spc' = "ack"
  /\ UNCHANGED <<clientVars, nxt_pkt_expcd, last_pkt_recvd, last_pkt_read,
                 seqbuf, same_ack, rcvd, got, skipped, linkVars>>

(* Mutant of FirstMissing: the ring is not scanned.                        *)
NotScanned(f, n) == n = nxt_pkt_expcd[f]

(* n is where the scan of the ring from nxt_pkt_expcd stops.               *)
FirstMissing(f, n) ==
  /\ n >= nxt_pkt_expcd[f]
  /\ \A k \in nxt_pkt_expcd[f] .. (n - 1) : seqbuf[f][Slot(k)] = k
  /\ seqbuf[f][Slot(n)] # n

(* Stalled bursts of f, this one included, when the scan stopped at n.     *)
Stalls(f, n) == IF n = nxt_pkt_expcd[f] THEN same_ack[f] + 1 ELSE same_ack[f]

(* Mutant of StallsAfter: giving a packet up does not reset same_ack.      *)
StallsKept(f, n) == Stalls(f, n)

StallsAfter(f, n) ==
  IF Stalls(f, n) >= SAME_ACK_LIMIT THEN 0 ELSE Stalls(f, n)

(* After SAME_ACK_LIMIT stalled bursts the missing packet is given up.     *)
GivesUp(f, n) == Stalls(f, n) >= SAME_ACK_LIMIT /\ n < MAX_EXPCD

(* Mutant of RecvdAfter: a packet given up is not counted as received.     *)
RecvdKept(f, n) == last_pkt_recvd[f]

RecvdAfter(f, n) ==
  IF GivesUp(f, n) THEN Larger(last_pkt_recvd[f], n) ELSE last_pkt_recvd[f]

(* The ack of one flow of the burst, which gets through or not.  With the  *)
(* last flow the iteration ends, and the next one begins by reading the    *)
(* buffer.                                                                 *)
ServerAck(f, n, through) ==
  LET next == IF GivesUp(f, n) THEN n + 1 ELSE n
  IN  /\ spc = "ack"
      /\ rcvd[f]
      /\ FirstMissing(f, n)
      /\ nxt_pkt_expcd' = [nxt_pkt_expcd EXCEPT ![f] = next]
      /\ same_ack' = [same_ack EXCEPT ![f] = StallsAfter(f, n)]
      /\ last_pkt_recvd' = [last_pkt_recvd EXCEPT ![f] = RecvdAfter(f, n)]
      /\ skipped' = IF GivesUp(f, n)
           THEN [skipped EXCEPT ![f] = @ \cup {n}]
           ELSE skipped
      /\ rcvd' = [rcvd EXCEPT ![f] = FALSE]
      /\ acks' = IF through THEN acks \cup {construct_ack(f, next - 1)}
                            ELSE acks
      /\ IF \E g \in Flow \ {f} : rcvd[g]
           THEN UNCHANGED <<spc, last_pkt_read>>
           ELSE /\ spc' = "rx"
                /\ last_pkt_read' = [g \in Flow |-> nxt_pkt_expcd'[g] - 1]
      /\ UNCHANGED <<clientVars, seqbuf, got, data, stop>>

-----------------------------------------------------------------------------
LinkInit == data = {} /\ acks = {} /\ stop = FALSE

Init == ClientInit /\ ServerInit /\ LinkInit

Client ==
  \/ \E through \in SUBSET Transmittable : ClientIterate(through)
  \/ \E m \in acks : ClientRecv(m)
  \/ ClientRecvNothing
  \/ ClientStop

Server ==
  \/ \E m \in data : ServerRx(m)
  \/ ServerRxStop
  \/ ServerForeignBurst
  \/ ServerEndBurst
  \/ \E f \in Flow, n \in 1 .. MAX_EXPCD, through \in BOOLEAN :
       ServerAck(f, n, through)

Next == Client \/ Server

Spec == Init /\ [][Next]_vars

(***************************************************************************)
(* Fairness.  Both loops poll for ever, so every step of a loop that stays *)
(* possible is taken.  A packet the client keeps retransmitting, and an    *)
(* ack the server keeps sending, gets through now and then; what got       *)
(* through is received.  Strong fairness, because each loop is only        *)
(* intermittently at the place where it takes the step.                    *)
(***************************************************************************)
ClientGetsThrough(f) ==
  \E through \in SUBSET Transmittable :
     /\ \E m \in through : m.fid = f /\ m.seq = last_pkt_acked[f] + 1
     /\ ClientIterate(through)

ClientRecvNew(f) ==
  \E m \in acks : /\ m.fid = f /\ m.recv_ack > last_pkt_acked[f]
                  /\ ClientRecv(m)

ServerRxFlow(f) == \E m \in data : m.fid = f /\ ServerRx(m)

ServerAckFlow(f, through) == \E n \in 1 .. MAX_EXPCD : ServerAck(f, n, through)

Fairness ==
  /\ WF_vars(ClientRecvNothing)
  /\ WF_vars(ClientStop)
  /\ WF_vars(ServerRxStop)
  /\ WF_vars(ServerEndBurst)
  /\ \A f \in Flow :
       /\ SF_vars(ClientGetsThrough(f))
       /\ SF_vars(ClientRecvNew(f))
       /\ SF_vars(ServerRxFlow(f))
       /\ WF_vars(ServerAckFlow(f, TRUE) \/ ServerAckFlow(f, FALSE))
       /\ SF_vars(ServerAckFlow(f, TRUE))

FairSpec == Spec /\ Fairness

-----------------------------------------------------------------------------
(* Type invariant of the two loops and the link.                           *)
TypeOK ==
  /\ cpc \in {"xmit", "recv", "done"}
  /\ spc \in {"rx", "ack", "stopped"}
  /\ last_pkt_acked \in [Flow -> Nat]
  /\ last_pkt_sent \in [Flow -> Nat]
  /\ last_pkt_written \in [Flow -> Nat]
  /\ rcv_wnd \in [Flow -> Nat]
  /\ nxt_pkt_expcd \in [Flow -> 1 .. MAX_EXPCD]
  /\ last_pkt_recvd \in [Flow -> Nat]
  /\ last_pkt_read \in [Flow -> Nat]
  /\ seqbuf \in [Flow -> [Slots -> 0 .. NUM_PING]]
  /\ same_ack \in [Flow -> 0 .. (SAME_ACK_LIMIT - 1)]
  /\ rcvd \in [Flow -> BOOLEAN]
  /\ data \in SUBSET Data
  /\ acks \in SUBSET Acks
  /\ stop \in BOOLEAN
  /\ got \in [Flow -> SUBSET Seqs]
  /\ skipped \in [Flow -> SUBSET (1 .. MAX_EXPCD)]

(* The client's window: last_pkt_sent - last_pkt_acked, a uint32_t         *)
(* difference, never wraps, although an ack may name a packet that was     *)
(* never sent, and never exceeds BUF_SIZE, the length of send_pkts and of  *)
(* the time_sent ring, whatever window the server advertises.              *)
ClientWindow ==
  \A f \in Flow :
    /\ last_pkt_acked[f] <= last_pkt_sent[f]
    /\ last_pkt_sent[f] <= last_pkt_acked[f] + BUF_SIZE

(* The server's ring answers exactly whether a packet of the window that   *)
(* starts at nxt_pkt_expcd has been received: no write of a later or a     *)
(* late packet ever destroys the record of another one.                    *)
RingExact ==
  \A f \in Flow : \A s \in nxt_pkt_expcd[f] .. (nxt_pkt_expcd[f] + BUF_SIZE - 1) :
    seqbuf[f][Slot(s)] = s <=> s \in got[f]

(* A cumulative ack that reached the client covers only packets the server *)
(* received or explicitly gave up, across any loss and reordering.         *)
AckedIsAccountedFor ==
  \A f \in Flow : 1 .. last_pkt_acked[f] \subseteq got[f] \cup skipped[f]

(* The window the server means to advertise, computed per flow: the span   *)
(* last_pkt_recvd[fid] - last_pkt_read[fid] is neither negative nor more   *)
(* than the buffer at any time, so BUF_SIZE minus it would be a window.    *)
BufferSpan ==
  \A f \in Flow : last_pkt_recvd[f] - last_pkt_read[f] \in 0 .. BUF_SIZE

(* The server never gives up a packet that it has received.                *)
GivesUpOnlyMissing ==
  [][\A f \in Flow : (skipped'[f] \ skipped[f]) \cap got[f] = {}]_vars

(* Every flow is eventually acked in full and the client leaves its loop,  *)
(* whatever is lost on the way, unless a frame that is not for a flow has  *)
(* stopped the server.                                                     *)
ClientFinishes == <>(cpc = "done" \/ (FOREIGN_FRAMES /\ spc = "stopped"))
=============================================================================
