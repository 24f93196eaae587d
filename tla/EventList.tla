----------------------------- MODULE EventList -----------------------------
(***************************************************************************)
(* The event list of eventlist.cpp: a multimap of time to event source, as *)
(* the sequence of its entries.  Entries of one time are in the order in   *)
(* which they were added.  The handler of an event adds entries to what is *)
(* left of the list, so the operators take and return lists.               *)
(***************************************************************************)
EXTENDS Integers, Sequences, FiniteSets, SequencesExt

CONSTANT END_TIME  \* _endtime; 0 is no end

ASSUME EventListAssumption == END_TIME \in Nat

VARIABLES
  pendingsources,  \* entries [when, src]
  now              \* _lasteventtime

(* Mutant of sourceIsPending: entries are in the order of their adding.    *)
sourceIsPendingLast(events, src, when) ==
  IF END_TIME = 0 \/ when <= END_TIME
  THEN Append(events, [when |-> when, src |-> src])
  ELSE events

(* The list with an event of src added, unless it is past the end.         *)
sourceIsPending(events, src, when) ==
  IF END_TIME = 0 \/ when <= END_TIME
  THEN InsertAt(events,
                Cardinality({i \in 1 .. Len(events) : events[i].when <= when}) + 1,
                [when |-> when, src |-> src])
  ELSE events

(* doNextEvent up to the call of the source: the first entry is that of    *)
(* src, and its time is the time now.                                      *)
NextEventOf(src) ==
  /\ pendingsources # <<>>
  /\ Head(pendingsources).src = src
  /\ now' = Head(pendingsources).when

(* The places of the list that hold events of src.                         *)
EventsOf(src) == {k \in 1 .. Len(pendingsources) : pendingsources[k].src = src}
=============================================================================
