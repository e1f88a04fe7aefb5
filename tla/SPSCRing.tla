------------------------------ MODULE SPSCRing ------------------------------
(***************************************************************************)
(* The single-producer single-consumer ring every packet hand-off goes     *)
(* through (include/core/ring_buffer.hpp).  push and pop are split at      *)
(* their atomic accesses, so the two threads interleave between any two    *)
(* of them.                                                                *)
(*                                                                         *)
(* The indices are size_t values that wrap at Modulus (2^64 in the code).  *)
(* An acquire load of the other thread's index may return an old value:    *)
(* any value the index has held since the last one this thread saw         *)
(* (coherence order).  The release stores are what makes slot accesses     *)
(* precede the index update, so stores happen in program order.            *)
(***************************************************************************)
EXTENDS Integers, Sequences

CONSTANTS
  Capacity,  \* slots in buffer_
  Modulus,   \* number of values of size_t
  Items,     \* values of type T
  NoItem     \* content of a slot never written

\* Capacity is a power of two (static_assert) and so divides 2^64; a ring as
\* large as the index type could not tell full from empty.
ASSUME RingAssumption ==
  /\ Capacity \in Nat \ {0}
  /\ Modulus \in Nat
  /\ \E k \in 2 .. Modulus : Modulus = k * Capacity
  /\ NoItem \notin Items

VARIABLES
  head_, tail_, buffer_,
  pPc, pItem, pTail, pHead,  \* producer: push's item, current_tail, current_head
  cPc, cItem, cHead, cTail   \* consumer: pop's item, current_head, current_tail

ringVars == <<head_, tail_, buffer_>>
producerVars == <<pPc, pItem, pTail, pHead>>
consumerVars == <<cPc, cItem, cHead, cTail>>
vars == <<ringVars, producerVars, consumerVars>>

Index == 0 .. Modulus - 1

\* current_tail - current_head in size_t arithmetic.
Distance(t, h) == (t - h) % Modulus

\* i & (Capacity - 1), Capacity being a power of two.
Slot(i) == i % Capacity

\* Mutant of Advance: an index of more than its width.
AdvanceUnwrapped(i) == i + 1

\* Successor of an index.
Advance(i) == (i + 1) % Modulus

\* What a load of an index may return to a thread that last saw `seen`.
Observable(seen, current) ==
  {(seen + k) % Modulus : k \in 0 .. Distance(current, seen)}

\* Mutants of LooksFull: one item too few, and one too many.
LooksFullEarly(t, h) == Distance(t, h) >= Capacity - 1
LooksFullLate(t, h) == Distance(t, h) > Capacity

LooksFull(t, h) == Distance(t, h) >= Capacity

\* Mutant of Front: the slot after the front one.
FrontNext(h) == buffer_[Slot(h + 1)]

Front(h) == buffer_[Slot(h)]

\* Mutant of TailSeen: the tail index cached and never loaded again.
TailSeenOnce == {cTail}

\* What the consumer's load of tail_ may return.
TailSeen == Observable(cTail, tail_)

\* Mutant of Size: the indices taken for positions that do not wrap.
SizeUnsigned(t, h) == IF t >= h THEN t - h ELSE h - t

\* What size() computes from the two indices it loaded.
Size(t, h) == IF t >= h THEN t - h ELSE 0

-----------------------------------------------------------------------------
Init ==
  /\ head_ = 0
  /\ tail_ = 0
  /\ buffer_ = [s \in 0 .. Capacity - 1 |-> NoItem]
  /\ pPc = "idle" /\ pItem = NoItem /\ pTail = 0 /\ pHead = 0
  /\ cPc = "idle" /\ cItem = NoItem /\ cHead = 0 /\ cTail = 0

\* push(item): the relaxed load of the producer's own index.
PushBegin(v) ==
  /\ pPc = "idle"
  /\ pPc' = "loadHead"
  /\ pItem' = v
  /\ pTail' = tail_
  /\ UNCHANGED <<pHead, ringVars, consumerVars>>

\* The acquire load of head_, and the return of false when the ring looks full.
PushLoadHead ==
  /\ pPc = "loadHead"
  /\ \E h \in Observable(pHead, head_) :
       /\ pHead' = h
       /\ pPc' = IF LooksFull(pTail, h) THEN "idle" ELSE "write"
  /\ UNCHANGED <<pItem, pTail, ringVars, consumerVars>>

PushWrite ==
  /\ pPc = "write"
  /\ pPc' = "publish"
  /\ buffer_' = [buffer_ EXCEPT ![Slot(pTail)] = pItem]
  /\ UNCHANGED <<head_, tail_, pItem, pTail, pHead, consumerVars>>

\* The release store of tail_; push returns true.
PushPublish ==
  /\ pPc = "publish"
  /\ pPc' = "idle"
  /\ tail_' = Advance(pTail)
  /\ UNCHANGED <<head_, buffer_, pItem, pTail, pHead, consumerVars>>

\* pop(item): the relaxed load of the consumer's own index.
PopBegin ==
  /\ cPc = "idle"
  /\ cPc' = "loadTail"
  /\ cHead' = head_
  /\ UNCHANGED <<cItem, cTail, ringVars, producerVars>>

\* The acquire load of tail_, and the return of false when the ring looks empty.
PopLoadTail ==
  /\ cPc = "loadTail"
  /\ \E t \in TailSeen :
       /\ cTail' = t
       /\ cPc' = IF cHead = t THEN "idle" ELSE "read"
  /\ UNCHANGED <<cItem, cHead, ringVars, producerVars>>

PopRead ==
  /\ cPc = "read"
  /\ cPc' = "publish"
  /\ cItem' = Front(cHead)
  /\ UNCHANGED <<cHead, cTail, ringVars, producerVars>>

\* The release store of head_; pop returns true.
PopPublish ==
  /\ cPc = "publish"
  /\ cPc' = "idle"
  /\ head_' = Advance(cHead)
  /\ UNCHANGED <<tail_, buffer_, cItem, cHead, cTail, producerVars>>

Producer ==
  \/ \E v \in Items : PushBegin(v)
  \/ PushLoadHead
  \/ PushWrite
  \/ PushPublish

Consumer ==
  \/ PopBegin
  \/ PopLoadTail
  \/ PopRead
  \/ PopPublish

Next == Producer \/ Consumer

Spec == Init /\ [][Next]_vars

\* The consumer polls for ever and a store to tail_ becomes visible to a
\* consumer that keeps loading it.  Nothing is assumed of the producer.
Fairness ==
  /\ WF_vars(Consumer)
  /\ SF_vars(PopLoadTail /\ cTail' = tail_)

-----------------------------------------------------------------------------
\* Types of the shared indices, the slots and both threads' locals, part of RingInv.
TypeOK ==
  /\ head_ \in Index /\ tail_ \in Index
  /\ buffer_ \in [0 .. Capacity - 1 -> Items \cup {NoItem}]
  /\ pPc \in {"idle", "loadHead", "write", "publish"}
  /\ cPc \in {"idle", "loadTail", "read", "publish"}
  /\ pItem \in Items \cup {NoItem} /\ cItem \in Items \cup {NoItem}
  /\ pTail \in Index /\ pHead \in Index
  /\ cHead \in Index /\ cTail \in Index

\* The copy into a slot (push) and the copy out of a slot (pop) are not
\* atomic; they never touch the same slot at the same time, however old the
\* index values the two threads decided on.
NoSlotRace ==
  pPc = "write" /\ cPc = "read" => Slot(pTail) # Slot(cHead)

\* Each thread's view of the other's index lags it but stays within the window of
\* Capacity positions, and a thread past its check still has the room (or the item)
\* the check found.
ConservativeViews ==
  /\ Distance(tail_, pHead) <= Capacity
  /\ Distance(tail_, head_) <= Distance(tail_, pHead)
  /\ Distance(cTail, head_) <= Distance(tail_, head_)
  /\ pPc # "idle" => pTail = tail_
  /\ pPc \in {"write", "publish"} => Distance(tail_, pHead) < Capacity
  /\ cPc # "idle" => cHead = head_
  /\ cPc \in {"read", "publish"} => cTail # head_

\* Inductive strengthening of NoSlotRace.
RingInv == TypeOK /\ ConservativeViews

\* size() called by a thread that owns an end of the ring: the consumer never
\* reads more than it can pop, the producer never reads more than Capacity,
\* also when an index has wrapped.
DepthReadings ==
  /\ \A t \in TailSeen : Size(t, head_) <= Distance(tail_, head_)
  /\ \A h \in Observable(pHead, head_) : Size(tail_, h) <= Capacity

\* The items between head_ and tail_, oldest first.
Queued ==
  [i \in 1 .. Distance(tail_, head_) |-> buffer_[Slot((head_ + i - 1) % Modulus)]]

Fifo == INSTANCE BoundedFifo WITH
  queue <- Queued,
  offered <- IF pPc = "idle" THEN NoItem ELSE pItem,
  fetched <- IF cPc = "publish" THEN cItem ELSE NoItem

\* The ring is a bounded FIFO queue: what push accepts, pop delivers once, in
\* order and unchanged, and the ring never holds more than Capacity items.
ImplementsFifo == Fifo!Spec

\* Every item accepted at the front position is eventually popped, however
\* long the consumer's view of tail_ lags.
Delivery == \A p \in Index : head_ = p /\ tail_ # p ~> head_ # p
=============================================================================
