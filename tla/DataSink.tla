------------------------------ MODULE DataSink ------------------------------
(***************************************************************************)
(* The reassembly of datasink.cpp, which the sinks of all end hosts share: *)
(* the bytes received in sequence and the list of segments beyond a gap.   *)
(* A segment is its first byte; all segments have one size.                *)
(***************************************************************************)
EXTENDS Integers, Sequences, SequencesExt

CONSTANT MSS_BYTES  \* size of a segment

ASSUME DataSinkAssumption == MSS_BYTES \in Nat \ {0}

VARIABLES
  cumulative_ack,  \* bytes received in sequence
  received         \* out-of-order segments

sinkVars == <<cumulative_ack, received>>

SinkInit == cumulative_ack = 0 /\ received = <<>>

(* Out-of-order segments at the front of the list that follow on from c.   *)
InSequence(c) ==
  CHOOSE n \in 0 .. Len(received) :
    /\ \A i \in 1 .. n : received[i] = c + (i - 1) * MSS_BYTES + 1
    /\ n < Len(received) => received[n + 1] # c + n * MSS_BYTES + 1

(* How many segments of the list begin before s.                           *)
Before(s) ==
  CHOOSE n \in 0 .. Len(received) :
    /\ \A i \in 1 .. n : received[i] < s
    /\ n < Len(received) => received[n + 1] >= s

(* Mutant of Inserted: a segment that is in the list is inserted again.    *)
InsertedAgain(s) == InsertAt(received, Before(s) + 1, s)

(* Segment s in the list, which is kept in order and without duplicates.   *)
Inserted(s) ==
  LET n == Before(s)
  IN  IF n < Len(received) /\ received[n + 1] = s THEN received
      ELSE InsertAt(received, n + 1, s)

processDataPacket(s) ==
  LET c == cumulative_ack + MSS_BYTES
      n == InSequence(c)
  IN  \/ /\ s = cumulative_ack + 1
         /\ cumulative_ack' = c + n * MSS_BYTES
         /\ received' = SubSeq(received, n + 1, Len(received))
      \/ /\ s <= cumulative_ack
         /\ UNCHANGED sinkVars
      \/ /\ s > cumulative_ack + 1
         /\ received' = Inserted(s)
         /\ UNCHANGED cumulative_ack

-----------------------------------------------------------------------------
(* The sink's list is strictly ordered, starts beyond a real gap, and      *)
(* every segment in it begins at a segment boundary, so that the equality  *)
(* test that extends cumulative_ack never steps over a segment.            *)
SinkList ==
  /\ cumulative_ack % MSS_BYTES = 0
  /\ \A i \in 1 .. Len(received) :
       /\ received[i] > cumulative_ack + 1
       /\ (received[i] - 1) % MSS_BYTES = 0
       /\ i > 1 => received[i - 1] < received[i]
=============================================================================
