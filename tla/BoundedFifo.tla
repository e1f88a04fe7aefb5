---------------------------- MODULE BoundedFifo ----------------------------
(***************************************************************************)
(* What a packet ring promises its two threads, with none of its indices:  *)
(* a queue of at most Capacity items.  The producer offers one item at a   *)
(* time, which is accepted at the back of the queue or refused; the        *)
(* consumer fetches a copy of the front item and then releases its place.  *)
(* A refusal may be spurious: the producer may learn late that there is    *)
(* room.  A refused item leaves no trace.                                  *)
(***************************************************************************)
EXTENDS Naturals, Sequences

CONSTANTS
  Capacity,  \* places in the queue
  Items,     \* what can be queued
  NoItem     \* absence of an item

VARIABLES
  queue,     \* accepted items not yet released, oldest first
  offered,   \* the item the producer is trying to queue, or NoItem
  fetched    \* the copy the consumer holds of the front item, or NoItem

vars == <<queue, offered, fetched>>

Init ==
  /\ queue = << >>
  /\ offered = NoItem
  /\ fetched = NoItem

Offer(v) ==
  /\ offered = NoItem
  /\ offered' = v
  /\ UNCHANGED <<queue, fetched>>

Accept ==
  /\ offered # NoItem
  /\ Len(queue) < Capacity
  /\ queue' = Append(queue, offered)
  /\ offered' = NoItem
  /\ UNCHANGED fetched

Refuse ==
  /\ offered # NoItem
  /\ offered' = NoItem
  /\ UNCHANGED <<queue, fetched>>

Fetch ==
  /\ fetched = NoItem
  /\ queue # << >>
  /\ fetched' = Head(queue)
  /\ UNCHANGED <<queue, offered>>

Release ==
  /\ fetched # NoItem
  /\ queue' = Tail(queue)
  /\ fetched' = NoItem
  /\ UNCHANGED offered

Next ==
  \/ \E v \in Items : Offer(v)
  \/ Accept
  \/ Refuse
  \/ Fetch
  \/ Release

Spec == Init /\ [][Next]_vars
=============================================================================
