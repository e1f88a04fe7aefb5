---------------------------- MODULE XskUmemProofs ----------------------------
(***************************************************************************)
(* Proof that no frame of the AF_XDP pool is lost or handed out twice, for *)
(* every number of frames, every frame size and every width of the ring's  *)
(* indices.  What is known of the ring comes from SPSCRingProofs.          *)
(***************************************************************************)
EXTENDS XskUmem, FiniteSetTheorems, TLAPS

\* The device's counters play no part here.
Ring == INSTANCE SPSCRingProofs WITH
  Capacity <- NumFrames, Items <- Frames, NoItem <- NoFrame,
  packets_ <- 0, drops_ <- 0, pushed <- "none"

-----------------------------------------------------------------------------
(* What the ring's lemmas say of the free ring. *)

\* The free ring meets the assumption of the ring's proofs.
LEMMA RingAssumed == Ring!RingAssumption
BY FreeRingAssumption DEF Free!RingAssumption, Ring!RingAssumption

\* The two instances name the same operators.
LEMMA SameOperators ==
  /\ Ring!Index = Free!Index
  /\ \A t, h : Ring!Distance(t, h) = Free!Distance(t, h)
  /\ \A t, h : Ring!Observable(t, h) = Free!Observable(t, h)
  /\ \A i : Ring!Slot(i) = Free!Slot(i)
  /\ \A i : Ring!Advance(i) = Free!Advance(i)
BY DEF Ring!Index, Free!Index, Ring!Distance, Free!Distance, Ring!Slot, Free!Slot,
       Ring!Advance, Free!Advance, Ring!Observable, Free!Observable

\* ModulusBig, DistanceCases and SlotInBuffer.
LEMMA FreeIndex ==
  /\ Modulus \in Nat /\ NumFrames \in Nat /\ NumFrames > 0 /\ Modulus > NumFrames
  /\ \A t, h \in Free!Index :
       /\ t \in Int /\ 0 <= t /\ t < Modulus
       /\ Free!Distance(t, h) \in Nat /\ Free!Distance(t, h) < Modulus
       /\ Free!Distance(t, h) = IF t >= h THEN t - h ELSE t - h + Modulus
  /\ \A i \in Free!Index : Free!Slot(i) \in 0 .. NumFrames - 1
<1>1. /\ Modulus \in Nat /\ NumFrames \in Nat /\ NumFrames > 0 /\ Modulus > NumFrames
  BY RingAssumed, Ring!ModulusBig
<1>2. ASSUME NEW t \in Free!Index, NEW h \in Free!Index
      PROVE  /\ t \in Int /\ 0 <= t /\ t < Modulus
             /\ Free!Distance(t, h) \in Nat /\ Free!Distance(t, h) < Modulus
             /\ Free!Distance(t, h) = IF t >= h THEN t - h ELSE t - h + Modulus
  <2>1. t \in Ring!Index /\ h \in Ring!Index
        /\ Ring!Distance(t, h) = Free!Distance(t, h)
    BY SameOperators
  <2>2. /\ t \in Int /\ 0 <= t /\ t < Modulus
        /\ h \in Int /\ 0 <= h /\ h < Modulus
        /\ Ring!Distance(t, h) \in Int /\ 0 <= Ring!Distance(t, h)
        /\ Ring!Distance(t, h) < Modulus
        /\ t >= h => Ring!Distance(t, h) = t - h
        /\ t < h => Ring!Distance(t, h) = t - h + Modulus
    BY <2>1, RingAssumed, Ring!DistanceCases
  <2> QED BY <2>1, <2>2
<1>3. ASSUME NEW i \in Free!Index PROVE Free!Slot(i) \in 0 .. NumFrames - 1
  BY RingAssumed, Ring!SlotInBuffer, SameOperators
<1> QED BY <1>1, <1>2, <1>3

\* Window and SlotsDiffer.
LEMMA FreeWindow ==
  ASSUME NEW t \in Free!Index, NEW h \in Free!Index,
         NEW k \in 0 .. Free!Distance(t, h)
  PROVE  /\ (h + k) % Modulus \in Free!Index
         /\ Free!Distance(t, (h + k) % Modulus) = Free!Distance(t, h) - k
         /\ k = Free!Distance(t, h) => (h + k) % Modulus = t
         /\ k = 0 => (h + k) % Modulus = h
<1> DEFINE p == (h + k) % Modulus
<1>1. /\ t \in Ring!Index /\ h \in Ring!Index /\ k \in 0 .. Ring!Distance(t, h)
      /\ Ring!Distance(t, h) = Free!Distance(t, h)
      /\ Ring!Distance(t, p) = Free!Distance(t, p)
  BY SameOperators
<1>2. /\ p \in Ring!Index /\ Ring!Distance(t, p) = Ring!Distance(t, h) - k
      /\ k = Ring!Distance(t, h) => p = t
      /\ k = 0 => p = h
  BY <1>1, RingAssumed, Ring!Window
<1> QED BY <1>1, <1>2, SameOperators

\* WindowSuffix.
LEMMA FreeWindowSuffix ==
  ASSUME NEW t \in Free!Index, NEW h0 \in Free!Index, NEW h \in Free!Index,
         Free!Distance(t, h) <= Free!Distance(t, h0)
  PROVE  /\ Free!Distance(h, h0) = Free!Distance(t, h0) - Free!Distance(t, h)
         /\ \A k \in 0 .. Free!Distance(t, h) :
              (h + k) % Modulus = (h0 + (Free!Distance(h, h0) + k)) % Modulus
<1>1. /\ t \in Ring!Index /\ h \in Ring!Index /\ h0 \in Ring!Index
      /\ Ring!Distance(t, h) = Free!Distance(t, h)
      /\ Ring!Distance(t, h0) = Free!Distance(t, h0)
      /\ Ring!Distance(h, h0) = Free!Distance(h, h0)
  BY SameOperators
<1>2. /\ Ring!Distance(h, h0) = Ring!Distance(t, h0) - Ring!Distance(t, h)
      /\ \A k \in 0 .. Ring!Distance(t, h) :
           (h + k) % Modulus = (h0 + (Ring!Distance(h, h0) + k)) % Modulus
  BY <1>1, RingAssumed, Ring!WindowSuffix
<1> QED BY <1>1, <1>2

\* SlotsDiffer, AdvanceTail, AdvanceHead.
LEMMA FreeSlotsDiffer ==
  ASSUME NEW i \in Free!Index, NEW j \in Free!Index,
         Free!Distance(i, j) > 0, Free!Distance(i, j) < NumFrames
  PROVE  Free!Slot(i) # Free!Slot(j)
<1>1. /\ i \in Ring!Index /\ j \in Ring!Index
      /\ Ring!Distance(i, j) > 0 /\ Ring!Distance(i, j) < NumFrames
  BY SameOperators
<1>2. Ring!Slot(i) # Ring!Slot(j)
  BY <1>1, RingAssumed, Ring!SlotsDiffer
<1> QED BY <1>2, SameOperators

\* What the ring's proofs say of a single advance holds of the free ring.
LEMMA FreeAdvance ==
  ASSUME NEW t \in Free!Index, NEW h \in Free!Index
  PROVE  /\ Free!Advance(t) \in Free!Index
         /\ Free!Distance(t, h) < NumFrames
              => Free!Distance(Free!Advance(t), h) = Free!Distance(t, h) + 1
         /\ t # h => Free!Distance(t, Free!Advance(h)) = Free!Distance(t, h) - 1
<1>1. /\ t \in Ring!Index /\ h \in Ring!Index
      /\ Ring!Distance(t, h) = Free!Distance(t, h)
      /\ Ring!Advance(t) = Free!Advance(t) /\ Ring!Advance(h) = Free!Advance(h)
      /\ Ring!Distance(Ring!Advance(t), h) = Free!Distance(Free!Advance(t), h)
      /\ Ring!Distance(t, Ring!Advance(h)) = Free!Distance(t, Free!Advance(h))
  BY SameOperators
<1>2. Ring!Advance(t) \in Ring!Index
  BY <1>1, RingAssumed, Ring!AdvanceVal
<1>3. ASSUME Ring!Distance(t, h) < NumFrames
      PROVE  Ring!Distance(Ring!Advance(t), h) = Ring!Distance(t, h) + 1
  BY <1>1, <1>3, RingAssumed, Ring!AdvanceTail
<1>4. ASSUME t # h PROVE Ring!Distance(t, Ring!Advance(h)) = Ring!Distance(t, h) - 1
  BY <1>1, <1>4, RingAssumed, Ring!AdvanceHead
<1> QED BY <1>1, <1>2, <1>3, <1>4, SameOperators

\* StaleHead.
LEMMA FreeStaleHead ==
  ASSUME NEW t \in Free!Index, NEW h0 \in Free!Index, NEW h \in Free!Index,
         Free!Distance(t, h) <= Free!Distance(t, h0),
         NEW v \in Free!Observable(h0, h)
  PROVE  /\ v \in Free!Index
         /\ Free!Distance(t, h) <= Free!Distance(t, v)
         /\ Free!Distance(t, v) <= Free!Distance(t, h0)
<1>1. /\ t \in Ring!Index /\ h \in Ring!Index /\ h0 \in Ring!Index
      /\ Ring!Distance(t, h) = Free!Distance(t, h)
      /\ Ring!Distance(t, h0) = Free!Distance(t, h0)
      /\ Ring!Distance(t, v) = Free!Distance(t, v)
      /\ v \in Ring!Observable(h0, h)
  BY SameOperators
<1>2. /\ v \in Ring!Index
      /\ Ring!Distance(t, h) <= Ring!Distance(t, v)
      /\ Ring!Distance(t, v) <= Ring!Distance(t, h0)
  BY <1>1, RingAssumed, Ring!StaleHead
<1> QED BY <1>1, <1>2, SameOperators

\* The free ring's own invariant.
FreeInv == Free!TypeOK /\ Free!ConservativeViews

\* The invariant proved of the ring is the one stated here of the free ring.
LEMMA SameInv == Ring!RingInv <=> FreeInv
BY DEF Ring!RingInv, FreeInv, Ring!TypeOK, Free!TypeOK, Ring!ConservativeViews,
       Free!ConservativeViews, Ring!Index, Free!Index, Ring!Distance, Free!Distance

\* Every step the ring takes on its own keeps it.
LEMMA FreeRingStep ==
  ASSUME FreeInv,
         \/ \E f \in Frames : Free!PushBegin(f)
         \/ Free!PushLoadHead \/ Free!PushWrite \/ Free!PushPublish
         \/ Free!PopBegin \/ Free!PopLoadTail \/ Free!PopRead \/ Free!PopPublish
         \/ UNCHANGED freeVars
  PROVE  FreeInv'
<1>1. [Ring!Next]_(Ring!vars)
  <2>1. Ring!Next \/ UNCHANGED freeVars
    BY DEF Ring!Next, Ring!Producer, Ring!Consumer,
      Ring!PushBegin, Free!PushBegin, Ring!PushLoadHead, Free!PushLoadHead,
      Ring!PushWrite, Free!PushWrite, Ring!PushPublish, Free!PushPublish,
      Ring!PopBegin, Free!PopBegin, Ring!PopLoadTail, Free!PopLoadTail,
      Ring!PopRead, Free!PopRead, Ring!PopPublish, Free!PopPublish,
      Ring!LooksFull, Free!LooksFull, Ring!Observable, Free!Observable,
      Ring!Distance, Free!Distance, Ring!Slot, Free!Slot, Ring!Advance, Free!Advance,
      Ring!TailSeen, Free!TailSeen, Ring!Front, Free!Front,
      Ring!ringVars, Free!ringVars, Ring!producerVars, Free!producerVars,
      Ring!consumerVars, Free!consumerVars
  <2>2. UNCHANGED freeVars => UNCHANGED Ring!vars
    BY DEF freeVars, Ring!vars, Ring!ringVars, Ring!producerVars, Ring!consumerVars
  <2> QED BY <2>1, <2>2
<1>2. Ring!TypeOK /\ Ring!ConservativeViews
  BY SameInv DEF Ring!RingInv
<1>3. Ring!TypeOK'
  BY <1>1, <1>2, RingAssumed, Ring!TypeStep
<1>4. Ring!ConservativeViews'
  BY <1>1, <1>2, RingAssumed, Ring!ViewsStep
<1> QED
  BY <1>3, <1>4
  DEF FreeInv, Ring!TypeOK, Free!TypeOK, Ring!ConservativeViews, Free!ConservativeViews,
      Ring!Index, Free!Index, Ring!Distance, Free!Distance

-----------------------------------------------------------------------------
(* The inductive invariant. *)

\* The positions of the free ring that the transmit thread believes occupied.
View == Free!Distance(tail_, pHead)
\* How many of them, the oldest, the receive thread has already emptied.
Gone == Free!Distance(head_, pHead)
\* The frame in one of them, counted from the oldest.
Entry(i) == buffer_[Free!Slot((pHead + i) % Modulus)]

\* The places where a frame can be.
InRing(f) == \E i \in Gone .. View - 1 : Entry(i) = f
\* A frame handed on by the receive thread, with the stores to head_ since.
Passed(f) == \E p \in passed : p[1] = f
\* A frame between the first and the last access of free_frame's push.
Freeing(f) == pPc # "idle" /\ pItem = f

\* A condition as a number, to be counted.
One(b) == IF b THEN 1 ELSE 0

\* Every frame has exactly one place.
OnePlace ==
  \A f \in Frames :
    One(InRing(f)) + One(f \in received) + One(Passed(f)) + One(f \in transmitting)
      + One(Freeing(f)) + One(f \in fill_ring_) + One(f \in tx_ring_) = 1

\* The transmit thread's view of the ring is of different frames, none of which it
\* has itself: it sees a slot as occupied until it is told, with the frame or by a
\* load of head_, that the slot was emptied.
DistinctInView ==
  \A i \in 0 .. View - 1 :
    /\ Entry(i) \in Frames
    /\ \A j \in 0 .. View - 1 : Entry(i) = Entry(j) => i = j

\* What it sees in the ring it has not got, nor has it queued it for sending.
NotBeingFreed ==
  \A i \in 0 .. View - 1 :
    Entry(i) \notin transmitting /\ Entry(i) \notin tx_ring_ /\ ~Freeing(Entry(i))

\* A frame passed on left the ring before the stores to head_ that are newer.
PassedBehind ==
  \A p \in passed : \A i \in 0 .. View - 1 : Entry(i) = p[1] => i + p[2] < Gone

\* No frame is passed on twice.
PassedOnce == \A p, q \in passed : p[1] = q[1] => p = q

\* What the two threads have copied to and from the slots.
Copies ==
  /\ pPc # "idle" => pItem \in Frames
  /\ pPc = "publish" => buffer_[Free!Slot(tail_)] = pItem
  /\ cPc = "publish" => cItem = buffer_[Free!Slot(head_)]

\* Where the frames are, ...
PlacesInv ==
  OnePlace /\ DistinctInView /\ NotBeingFreed /\ PassedBehind /\ PassedOnce /\ Copies

\* ... with the invariant of the ring: the inductive invariant.
UmemInv == TypeOK /\ FreeInv /\ PlacesInv

-----------------------------------------------------------------------------
(* How the window of the transmit thread moves. *)

\* The indices as positions of that window.
LEMMA ViewFacts ==
  ASSUME FreeInv
  PROVE  /\ head_ \in Free!Index /\ tail_ \in Free!Index /\ pHead \in Free!Index
         /\ View \in Nat /\ Gone \in Nat /\ Gone <= View /\ View <= NumFrames
         /\ Free!Distance(tail_, head_) = View - Gone
         /\ \A k \in 0 .. View - Gone : (head_ + k) % Modulus = (pHead + (Gone + k)) % Modulus
         /\ (pHead + View) % Modulus = tail_
         /\ (pHead + Gone) % Modulus = head_
         /\ pPc # "idle" => pTail = tail_
         /\ pPc \in {"write", "publish"} => View < NumFrames
         /\ cPc # "idle" => cHead = head_
         /\ cPc \in {"read", "publish"} => Gone < View
<1>1. /\ head_ \in Free!Index /\ tail_ \in Free!Index /\ pHead \in Free!Index
      /\ cTail \in Free!Index
  BY DEF FreeInv, Free!TypeOK
<1>2. /\ View \in Nat /\ Gone \in Nat /\ Free!Distance(tail_, head_) \in Nat
      /\ NumFrames \in Nat
  BY <1>1, FreeIndex DEF View, Gone
<1>3. Free!Distance(tail_, head_) <= View /\ View <= NumFrames
  BY DEF FreeInv, Free!ConservativeViews, View
<1>4. /\ Gone = View - Free!Distance(tail_, head_)
      /\ \A k \in 0 .. Free!Distance(tail_, head_) :
           (head_ + k) % Modulus = (pHead + (Gone + k)) % Modulus
  BY <1>1, <1>3, FreeWindowSuffix DEF View, Gone
<1>5. Free!Distance(tail_, head_) = View - Gone /\ Gone <= View
  BY <1>2, <1>3, <1>4
<1>6. View \in 0 .. Free!Distance(tail_, pHead) /\ Gone \in 0 .. Free!Distance(head_, pHead)
  BY <1>2 DEF View, Gone
<1>7. (pHead + View) % Modulus = tail_ /\ (pHead + Gone) % Modulus = head_
  <2>1. (pHead + View) % Modulus = tail_
    BY <1>1, <1>6, FreeWindow DEF View
  <2>2. (pHead + Gone) % Modulus = head_
    BY <1>1, <1>6, FreeWindow DEF Gone
  <2> QED BY <2>1, <2>2
<1>8. cPc \in {"read", "publish"} => Gone < View
  <2> SUFFICES ASSUME cPc \in {"read", "publish"} PROVE Gone < View
    OBVIOUS
  <2>1. cTail # head_ /\ Free!Distance(cTail, head_) <= Free!Distance(tail_, head_)
    BY DEF FreeInv, Free!ConservativeViews
  <2>2. Free!Distance(cTail, head_) \in Nat /\ Free!Distance(cTail, head_) > 0
    BY <1>1, <2>1, FreeIndex
  <2> QED BY <1>2, <1>5, <2>1, <2>2
<1>9. /\ pPc # "idle" => pTail = tail_
      /\ pPc \in {"write", "publish"} => View < NumFrames
      /\ cPc # "idle" => cHead = head_
  BY DEF FreeInv, Free!ConservativeViews, View
<1> QED BY <1>1, <1>2, <1>3, <1>4, <1>5, <1>7, <1>8, <1>9

\* Positions of the window are indices, in slots other than the tail's.
LEMMA ViewSlots ==
  ASSUME FreeInv, NEW i \in 0 .. View - 1
  PROVE  /\ Free!Slot((pHead + i) % Modulus) \in DOMAIN buffer_
         /\ View < NumFrames => Free!Slot((pHead + i) % Modulus) # Free!Slot(tail_)
<1> DEFINE p == (pHead + i) % Modulus
<1>1. /\ tail_ \in Free!Index /\ pHead \in Free!Index /\ View \in Nat
      /\ DOMAIN buffer_ = 0 .. NumFrames - 1
  BY ViewFacts DEF FreeInv, Free!TypeOK
<1>2. i \in 0 .. Free!Distance(tail_, pHead) /\ i \in Int /\ 0 <= i /\ i < View
  BY <1>1 DEF View
<1>3. p \in Free!Index /\ Free!Distance(tail_, p) = View - i
  BY <1>1, <1>2, FreeWindow DEF View
<1> HIDE DEF p
<1>4. Free!Slot(p) \in 0 .. NumFrames - 1
  BY <1>3, FreeIndex
<1>5. ASSUME View < NumFrames PROVE Free!Slot(p) # Free!Slot(tail_)
  <2>1. Free!Distance(tail_, p) > 0 /\ Free!Distance(tail_, p) < NumFrames
    BY <1>1, <1>2, <1>3, <1>5, FreeIndex
  <2> QED BY <1>1, <1>3, <2>1, FreeSlotsDiffer
<1> QED BY <1>1, <1>4, <1>5 DEF p

\* The transmit thread writes outside its view.
LEMMA WriteOutsideView ==
  ASSUME FreeInv, Free!PushWrite
  PROVE  /\ View' = View /\ Gone' = Gone
         /\ \A i \in 0 .. View - 1 : Entry(i)' = Entry(i)
         /\ buffer_'[Free!Slot(tail_)] = pItem
<1>1. /\ buffer_' = [buffer_ EXCEPT ![Free!Slot(tail_)] = pItem]
      /\ tail_' = tail_ /\ head_' = head_ /\ pHead' = pHead /\ View < NumFrames
  BY ViewFacts DEF Free!PushWrite
<1>2. Free!Slot(tail_) \in DOMAIN buffer_
  BY ViewFacts, FreeIndex DEF FreeInv, Free!TypeOK
<1>3. View' = View /\ Gone' = Gone
  BY <1>1 DEF View, Gone
<1>4. ASSUME NEW i \in 0 .. View - 1 PROVE Entry(i)' = Entry(i)
  <2>1. /\ Free!Slot((pHead + i) % Modulus) \in DOMAIN buffer_
        /\ Free!Slot((pHead + i) % Modulus) # Free!Slot(tail_)
    BY <1>1, ViewSlots
  <2>2. Entry(i)' = buffer_'[Free!Slot((pHead + i) % Modulus)]
    BY <1>1 DEF Entry, Free!Slot
  <2> QED BY <1>1, <2>1, <2>2 DEF Entry
<1> QED BY <1>1, <1>2, <1>3, <1>4

\* Publishing adds the frame at the end of the view.
LEMMA PublishExtendsView ==
  ASSUME FreeInv, Copies, Free!PushPublish
  PROVE  /\ View' = View + 1 /\ Gone' = Gone
         /\ \A i : Entry(i)' = Entry(i)
         /\ Entry(View) = pItem
<1>1. /\ tail_' = Free!Advance(tail_) /\ head_' = head_ /\ pHead' = pHead
      /\ buffer_' = buffer_ /\ View < NumFrames /\ buffer_[Free!Slot(tail_)] = pItem
      /\ (pHead + View) % Modulus = tail_
      /\ tail_ \in Free!Index /\ pHead \in Free!Index
  BY ViewFacts DEF Free!PushPublish, Copies
<1>2. View' = View + 1
  BY <1>1, FreeAdvance DEF View
<1>3. Gone' = Gone
  BY <1>1 DEF Gone
<1>4. \A i : Entry(i)' = Entry(i)
  BY <1>1 DEF Entry, Free!Slot
<1>5. Entry(View) = pItem
  BY <1>1 DEF Entry
<1> QED BY <1>2, <1>3, <1>4, <1>5

\* The receive thread empties the first occupied position.
LEMMA ReleaseMovesGone ==
  ASSUME FreeInv, Free!PopPublish
  PROVE  /\ View' = View /\ Gone' = Gone + 1 /\ Gone < View
         /\ \A i : Entry(i)' = Entry(i)
<1>1. /\ head_' = Free!Advance(head_) /\ tail_' = tail_ /\ pHead' = pHead
      /\ buffer_' = buffer_ /\ Gone < View
  BY ViewFacts DEF Free!PopPublish, Free!producerVars
<1>2. head_ \in Free!Index /\ pHead \in Free!Index /\ View <= NumFrames
      /\ View \in Nat /\ Gone \in Nat /\ NumFrames \in Nat
  BY ViewFacts, FreeIndex
<1>3. Gone' = Gone + 1
  BY <1>1, <1>2, FreeAdvance DEF Gone
<1>4. View' = View /\ \A i : Entry(i)' = Entry(i)
  BY <1>1 DEF View, Entry, Free!Slot
<1> QED BY <1>1, <1>3, <1>4

\* A newer view of head_ drops the oldest positions.
LEMMA NewerView ==
  ASSUME FreeInv, NEW v \in Free!Index,
         Free!Distance(v, pHead) <= Gone,
         pHead' = v, head_' = head_, tail_' = tail_, buffer_' = buffer_
  PROVE  /\ Free!Distance(v, pHead) \in Nat
         /\ View' = View - Free!Distance(v, pHead)
         /\ Gone' = Gone - Free!Distance(v, pHead)
         /\ \A i \in 0 .. View' - 1 : Entry(i)' = Entry(Free!Distance(v, pHead) + i)
<1> DEFINE d == Free!Distance(v, pHead)
<1>1. /\ head_ \in Free!Index /\ tail_ \in Free!Index /\ pHead \in Free!Index
      /\ View \in Nat /\ Gone \in Nat /\ Gone <= View
  BY ViewFacts
<1>2. d \in Nat
  BY <1>1, FreeIndex
<1>3. Free!Distance(tail_, v) = View - d /\ Free!Distance(head_, v) = Gone - d
  <2>1. /\ d = IF v >= pHead THEN v - pHead ELSE v - pHead + Modulus
        /\ View = IF tail_ >= pHead THEN tail_ - pHead ELSE tail_ - pHead + Modulus
        /\ Gone = IF head_ >= pHead THEN head_ - pHead ELSE head_ - pHead + Modulus
        /\ Free!Distance(tail_, v) = IF tail_ >= v THEN tail_ - v ELSE tail_ - v + Modulus
        /\ Free!Distance(head_, v) = IF head_ >= v THEN head_ - v ELSE head_ - v + Modulus
    BY <1>1, FreeIndex DEF View, Gone
  <2>2. /\ v \in Int /\ 0 <= v /\ v < Modulus /\ pHead \in Int /\ 0 <= pHead /\ pHead < Modulus
        /\ tail_ \in Int /\ 0 <= tail_ /\ tail_ < Modulus
        /\ head_ \in Int /\ 0 <= head_ /\ head_ < Modulus /\ Modulus \in Int
    BY <1>1, FreeIndex
  <2> HIDE DEF d
  <2>3. d <= Gone
    BY DEF d
  <2> QED BY <1>1, <1>2, <2>1, <2>2, <2>3
<1>4. View' = View - d /\ Gone' = Gone - d
  BY <1>3 DEF View, Gone, Free!Distance
<1>5. Free!Distance(tail_, v) <= Free!Distance(tail_, pHead)
  BY <1>1, <1>2, <1>3 DEF View
<1>6. \A k \in 0 .. Free!Distance(tail_, v) : (v + k) % Modulus = (pHead + (d + k)) % Modulus
  BY <1>1, <1>5, FreeWindowSuffix
<1>7. ASSUME NEW i \in 0 .. View' - 1 PROVE Entry(i)' = Entry(d + i)
  <2>1. i \in 0 .. Free!Distance(tail_, v)
    BY <1>1, <1>2, <1>3, <1>4
  <2>2. (v + i) % Modulus = (pHead + (d + i)) % Modulus
    BY <1>6, <2>1
  <2> QED BY <2>2 DEF Entry, Free!Slot
<1> QED BY <1>2, <1>4, <1>7

-----------------------------------------------------------------------------
(* The invariant is kept. *)

\* There are NumFrames frames.
LEMMA FramesFinite == IsFiniteSet(Frames) /\ Cardinality(Frames) <= NumFrames
<1> DEFINE number == [i \in 0 .. NumFrames - 1 |-> i * FrameSize]
<1>1. number \in Surjection(0 .. NumFrames - 1, Frames)
  BY DEF Frames, Surjection
<1>2. NumFrames \in Nat /\ NumFrames > 0
  BY FreeIndex
<1>3. IsFiniteSet(0 .. NumFrames - 1) /\ Cardinality(0 .. NumFrames - 1) = NumFrames
  BY <1>2, FS_Interval
<1> HIDE DEF number
<1>4. IsFiniteSet(Frames) /\ Cardinality(Frames) <= Cardinality(0 .. NumFrames - 1)
  BY <1>1, <1>3, FS_Surjection
<1> QED BY <1>3, <1>4

\* A frame that is being freed always finds room, also in an old view of the ring:
\* that view is of different frames, none of them this one.  So free_frame may
\* ignore what push returns.
LEMMA FreeHasRoom ==
  ASSUME UmemInv, pPc # "idle"
  PROVE  View < NumFrames
<1> DEFINE seen == [i \in 0 .. View - 1 |-> Entry(i)]
<1> DEFINE Others == Frames \ {pItem}
<1>1. View \in Nat /\ NumFrames \in Nat /\ pItem \in Frames
  BY ViewFacts, FreeIndex DEF UmemInv, PlacesInv, Copies
<1>2. IsFiniteSet(Frames) /\ Cardinality(Frames) <= NumFrames /\ Cardinality(Frames) \in Nat
  BY FramesFinite, FS_CardinalityType
<1>3. IsFiniteSet(Others) /\ Cardinality(Others) = Cardinality(Frames) - 1
  BY <1>1, <1>2, FS_RemoveElement
<1>4. \A i \in 0 .. View - 1 : Entry(i) \in Others
  BY DEF UmemInv, PlacesInv, DistinctInView, NotBeingFreed, Freeing
<1>5. seen \in Injection(0 .. View - 1, Others)
  BY <1>4 DEF Injection, IsInjective, UmemInv, PlacesInv, DistinctInView
<1>6. IsFiniteSet(0 .. View - 1) /\ Cardinality(0 .. View - 1) = View
  BY <1>1, FS_Interval
<1> HIDE DEF seen, Others
<1>7. Cardinality(0 .. View - 1) <= Cardinality(Others)
  BY <1>3, <1>5, FS_Injection
<1> QED BY <1>1, <1>2, <1>3, <1>6, <1>7

\* The window, and what it holds, as they were.
SameWindow ==
  /\ View' = View /\ Gone' = Gone
  /\ \A i \in 0 .. View - 1 : Entry(i)' = Entry(i)

\* A step that leaves ring and view alone leaves the frames in the ring.
LEMMA RingPlacesSame ==
  ASSUME FreeInv, SameWindow
  PROVE  \A f : InRing(f)' <=> InRing(f)
<1>1. View \in Nat /\ Gone \in Nat
  BY ViewFacts
<1>2. \A i \in Gone .. View - 1 : i \in 0 .. View - 1
  BY <1>1
<1> QED BY <1>2 DEF SameWindow, InRing

\* The steps that move no frame.
LEMMA NothingMoves ==
  ASSUME FreeInv, PlacesInv, SameWindow,
         UNCHANGED <<heldVars, kernelVars, pItem>>,
         pPc' # "idle" <=> pPc # "idle", Copies'
  PROVE  PlacesInv'
<1>1. \A f : InRing(f)' <=> InRing(f)
  BY RingPlacesSame
<1>2. \A f : Freeing(f)' <=> Freeing(f)
  BY DEF Freeing
<1>3. OnePlace'
  BY <1>1, <1>2 DEF PlacesInv, OnePlace, One, Passed, heldVars, kernelVars
<1>4. DistinctInView'
  BY DEF PlacesInv, DistinctInView, SameWindow
<1>5. NotBeingFreed'
  BY <1>2 DEF PlacesInv, NotBeingFreed, SameWindow, heldVars, kernelVars, Freeing
<1>6. PassedBehind' /\ PassedOnce'
  BY DEF PlacesInv, PassedBehind, PassedOnce, SameWindow, heldVars
<1> QED BY <1>3, <1>4, <1>5, <1>6 DEF PlacesInv

\* A step that leaves the ring and the view of it alone.
LEMMA WindowUntouched ==
  ASSUME UNCHANGED <<head_, tail_, buffer_, pHead>>
  PROVE  SameWindow /\ \A i : Entry(i)' = Entry(i)
BY DEF SameWindow, View, Gone, Entry, Free!Distance, Free!Slot

\* alloc_frame before its store: the receive thread only looks and copies.
LEMMA AllocateKeeps ==
  ASSUME UmemInv, Allocate
  PROVE  PlacesInv'
<1>1. FreeInv /\ PlacesInv /\ Copies
  BY DEF UmemInv, PlacesInv
<1>2. /\ UNCHANGED <<head_, tail_, buffer_, pHead, pPc, pItem>>
      /\ UNCHANGED <<heldVars, kernelVars>>
      /\ \/ cPc' # "publish"
         \/ cPc = "read" /\ cItem' = Free!Front(cHead)
  BY DEF Allocate, Free!PopBegin, Free!PopLoadTail, Free!PopRead, Free!ringVars,
         Free!producerVars
<1>3. SameWindow /\ \A i : Entry(i)' = Entry(i)
  BY <1>2, WindowUntouched
<1>4. cPc = "read" => Free!Front(cHead) = buffer_[Free!Slot(head_)]
  BY <1>1, ViewFacts DEF Free!Front
<1>5. Copies'
  BY <1>1, <1>2, <1>4 DEF Copies, Free!Slot
<1> QED BY <1>1, <1>2, <1>3, <1>5, NothingMoves

\* The store to head_ moves the frame from the ring to the receive thread.
LEMMA AllocatedKeeps ==
  ASSUME UmemInv, Allocated
  PROVE  PlacesInv'
<1>1. FreeInv /\ PlacesInv /\ Copies /\ View \in Nat /\ Gone \in Nat
  BY ViewFacts DEF UmemInv, PlacesInv
<1>2. /\ cPc = "publish" /\ cPc' = "idle" /\ UNCHANGED <<tail_, buffer_, pPc, pItem>>
      /\ UNCHANGED <<transmitting, fill_ring_, tx_ring_>>
      /\ received' = received \cup {cItem}
      /\ passed' = {<<p[1], IF p[2] < NumFrames THEN p[2] + 1 ELSE p[2]>> : p \in passed}
  BY DEF Allocated, Free!PopPublish, Free!producerVars, kernelVars
<1>3. /\ View' = View /\ Gone' = Gone + 1 /\ Gone < View
      /\ \A i : Entry(i)' = Entry(i)
  BY <1>1, ReleaseMovesGone DEF Allocated
<1>4. /\ cItem = Entry(Gone) /\ cItem \in Frames /\ Gone \in 0 .. View - 1
      /\ InRing(cItem)
  <2>1. cItem = Entry(Gone)
    BY <1>1, <1>2, ViewFacts DEF Copies, Entry
  <2> QED BY <1>1, <1>3, <2>1 DEF PlacesInv, DistinctInView, InRing
<1>5. ASSUME NEW f PROVE InRing(f)' <=> InRing(f) /\ f # cItem
  <2>1. InRing(f)' <=> \E i \in Gone + 1 .. View - 1 : Entry(i) = f
    BY <1>3 DEF InRing
  <2>2. \A i \in Gone .. View - 1 : i \in 0 .. View - 1 /\ (i = Gone \/ i \in Gone + 1 .. View - 1)
    BY <1>1
  <2>3. \A i \in Gone + 1 .. View - 1 : i \in Gone .. View - 1 /\ i # Gone
    BY <1>1
  <2>4. \A i \in Gone + 1 .. View - 1 : Entry(i) # cItem
    BY <1>1, <1>4, <2>2, <2>3 DEF PlacesInv, DistinctInView
  <2> QED BY <1>4, <2>1, <2>2, <2>3, <2>4 DEF InRing
<1>6. ASSUME NEW f PROVE Passed(f)' <=> Passed(f)
  <2> DEFINE Aged(p) == <<p[1], IF p[2] < NumFrames THEN p[2] + 1 ELSE p[2]>>
  <2>1. \A p : Aged(p)[1] = p[1]
    OBVIOUS
  <2>2. passed' = {Aged(p) : p \in passed}
    BY <1>2
  <2> HIDE DEF Aged
  <2>3. ASSUME NEW p \in passed, p[1] = f PROVE Passed(f)'
    BY <2>1, <2>2, <2>3 DEF Passed
  <2>4. ASSUME NEW q \in passed', q[1] = f PROVE Passed(f)
    BY <2>1, <2>2, <2>4 DEF Passed
  <2> QED BY <2>3, <2>4 DEF Passed
<1>7. ASSUME NEW f PROVE Freeing(f)' <=> Freeing(f)
  BY <1>2 DEF Freeing
<1>8. OnePlace'
  <2> SUFFICES ASSUME NEW f \in Frames
               PROVE  One(InRing(f)') + One(f \in received') + One(Passed(f)')
                        + One(f \in transmitting') + One(Freeing(f)')
                        + One(f \in fill_ring_') + One(f \in tx_ring_') = 1
    BY DEF OnePlace, One
  <2>1. One(InRing(f)) + One(f \in received) + One(Passed(f)) + One(f \in transmitting)
          + One(Freeing(f)) + One(f \in fill_ring_) + One(f \in tx_ring_) = 1
    BY <1>1 DEF PlacesInv, OnePlace
  <2>2. /\ InRing(f)' <=> InRing(f) /\ f # cItem
        /\ Passed(f)' <=> Passed(f)
        /\ Freeing(f)' <=> Freeing(f)
    BY <1>5, <1>6, <1>7
  <2> QED BY <1>2, <1>4, <2>1, <2>2 DEF One
<1>9. DistinctInView' /\ NotBeingFreed'
  BY <1>1, <1>2, <1>3, <1>7 DEF PlacesInv, DistinctInView, NotBeingFreed, Freeing
<1>10. PassedBehind'
  <2> SUFFICES ASSUME NEW p \in passed, NEW i \in 0 .. View - 1, Entry(i) = p[1]
               PROVE  i + (IF p[2] < NumFrames THEN p[2] + 1 ELSE p[2]) < Gone + 1
    BY <1>2, <1>3 DEF PassedBehind
  <2>1. i + p[2] < Gone
    BY <1>1 DEF PlacesInv, PassedBehind
  <2>2. p[2] \in Nat /\ i \in Nat
    BY <1>1, FreeIndex DEF UmemInv, TypeOK
  <2> QED BY <1>1, <2>1, <2>2, FreeIndex
<1>11. PassedOnce'
  BY <1>1, <1>2 DEF PlacesInv, PassedOnce
<1>12. Copies'
  BY <1>1, <1>2 DEF Copies, Free!Slot
<1> QED BY <1>8, <1>9, <1>10, <1>11, <1>12 DEF PlacesInv

\* Passing a frame on, and queueing one to the emulated kernel, leave the ring alone.
LEMMA PassKeeps ==
  ASSUME UmemInv, NEW f \in Frames, Pass(f)
  PROVE  PlacesInv'
<1>1. FreeInv /\ PlacesInv /\ Copies /\ View \in Nat /\ Gone \in Nat
  BY ViewFacts DEF UmemInv, PlacesInv
<1>2. /\ f \in received /\ received' = received \ {f}
      /\ passed' = passed \cup {<<f, 0>>}
      /\ UNCHANGED <<freeVars, transmitting, fill_ring_, tx_ring_>>
  BY DEF Pass, kernelVars
<1>3. SameWindow /\ UNCHANGED <<pPc, pItem, cPc, cItem, buffer_, tail_>>
  BY <1>2, WindowUntouched DEF freeVars
<1>4. \A g : (InRing(g)' <=> InRing(g)) /\ (Freeing(g)' <=> Freeing(g))
  BY <1>1, <1>3, RingPlacesSame DEF Freeing
<1>5. \A g : Passed(g)' <=> Passed(g) \/ g = f
  <2>1. \A q : q \in passed' <=> q \in passed \/ q = <<f, 0>>
    BY <1>2
  <2>2. <<f, 0>>[1] = f
    OBVIOUS
  <2> QED BY <2>1, <2>2 DEF Passed
<1>6. ~InRing(f) /\ ~Passed(f)
  <2>1. One(InRing(f)) + One(f \in received) + One(Passed(f)) + One(f \in transmitting)
          + One(Freeing(f)) + One(f \in fill_ring_) + One(f \in tx_ring_) = 1
    BY <1>1 DEF PlacesInv, OnePlace
  <2> QED BY <1>2, <2>1 DEF One
<1>7. OnePlace'
  <2> SUFFICES ASSUME NEW g \in Frames
               PROVE  One(InRing(g)') + One(g \in received') + One(Passed(g)')
                        + One(g \in transmitting') + One(Freeing(g)')
                        + One(g \in fill_ring_') + One(g \in tx_ring_') = 1
    BY DEF OnePlace, One
  <2>1. One(InRing(g)) + One(g \in received) + One(Passed(g)) + One(g \in transmitting)
          + One(Freeing(g)) + One(g \in fill_ring_) + One(g \in tx_ring_) = 1
    BY <1>1 DEF PlacesInv, OnePlace
  <2> QED BY <1>2, <1>4, <1>5, <1>6, <2>1 DEF One
<1>8. DistinctInView'
  BY <1>1, <1>3 DEF PlacesInv, DistinctInView, SameWindow
<1>9. NotBeingFreed'
  BY <1>1, <1>2, <1>3 DEF PlacesInv, NotBeingFreed, SameWindow, Freeing
<1>10. PassedBehind'
  <2>1. \A i \in 0 .. View - 1 : Entry(i) = f => i + 0 < Gone
    BY <1>1, <1>6 DEF InRing
  <2> QED BY <1>1, <1>2, <1>3, <2>1 DEF PlacesInv, PassedBehind, SameWindow
<1>11. PassedOnce'
  BY <1>1, <1>2, <1>6 DEF PlacesInv, PassedOnce, Passed
<1>12. Copies'
  BY <1>1, <1>2, <1>3 DEF Copies, Free!Slot, freeVars
<1> QED BY <1>7, <1>8, <1>9, <1>10, <1>11, <1>12 DEF PlacesInv

\* A frame lent to the kernel to be filled moves from the receive thread to the fill ring.
LEMMA EnqueueFillKeeps ==
  ASSUME UmemInv, NEW f \in Frames, EnqueueFillRing(f)
  PROVE  PlacesInv'
<1>1. FreeInv /\ PlacesInv /\ Copies
  BY DEF UmemInv, PlacesInv
<1>2. /\ f \in received /\ received' = received \ {f}
      /\ fill_ring_' = fill_ring_ \cup {f}
      /\ UNCHANGED <<freeVars, passed, transmitting, tx_ring_>>
  BY DEF EnqueueFillRing
<1>3. SameWindow /\ UNCHANGED <<pPc, pItem, cPc, cItem, buffer_, tail_>>
  BY <1>2, WindowUntouched DEF freeVars
<1>4. \A g : (InRing(g)' <=> InRing(g)) /\ (Freeing(g)' <=> Freeing(g))
  BY <1>1, <1>3, RingPlacesSame DEF Freeing
<1>5. \A g : Passed(g)' <=> Passed(g)
  BY <1>2 DEF Passed
<1>6. OnePlace'
  <2> SUFFICES ASSUME NEW g \in Frames
               PROVE  One(InRing(g)') + One(g \in received') + One(Passed(g)')
                        + One(g \in transmitting') + One(Freeing(g)')
                        + One(g \in fill_ring_') + One(g \in tx_ring_') = 1
    BY DEF OnePlace, One
  <2>1. One(InRing(g)) + One(g \in received) + One(Passed(g)) + One(g \in transmitting)
          + One(Freeing(g)) + One(g \in fill_ring_) + One(g \in tx_ring_) = 1
    BY <1>1 DEF PlacesInv, OnePlace
  <2> QED BY <1>2, <1>4, <1>5, <2>1 DEF One
<1>7. DistinctInView' /\ NotBeingFreed' /\ PassedBehind' /\ PassedOnce'
  BY <1>1, <1>2, <1>3
  DEF PlacesInv, DistinctInView, NotBeingFreed, PassedBehind, PassedOnce, SameWindow, Freeing
<1>8. Copies'
  BY <1>1, <1>2, <1>3 DEF Copies, Free!Slot, freeVars
<1> QED BY <1>6, <1>7, <1>8 DEF PlacesInv

\* A frame queued for sending moves from the transmit thread to the transmit ring.
LEMMA EnqueueTxKeeps ==
  ASSUME UmemInv, NEW f \in Frames, EnqueueTxRing(f)
  PROVE  PlacesInv'
<1>1. FreeInv /\ PlacesInv /\ Copies
  BY DEF UmemInv, PlacesInv
<1>2. /\ f \in transmitting /\ transmitting' = transmitting \ {f}
      /\ tx_ring_' = tx_ring_ \cup {f}
      /\ UNCHANGED <<freeVars, received, passed, fill_ring_>>
  BY DEF EnqueueTxRing, GivenAway
<1>3. SameWindow /\ UNCHANGED <<pPc, pItem, cPc, cItem, buffer_, tail_>>
  BY <1>2, WindowUntouched DEF freeVars
<1>4. \A g : (InRing(g)' <=> InRing(g)) /\ (Freeing(g)' <=> Freeing(g))
  BY <1>1, <1>3, RingPlacesSame DEF Freeing
<1>5. \A g : Passed(g)' <=> Passed(g)
  BY <1>2 DEF Passed
<1>6. OnePlace'
  <2> SUFFICES ASSUME NEW g \in Frames
               PROVE  One(InRing(g)') + One(g \in received') + One(Passed(g)')
                        + One(g \in transmitting') + One(Freeing(g)')
                        + One(g \in fill_ring_') + One(g \in tx_ring_') = 1
    BY DEF OnePlace, One
  <2>1. One(InRing(g)) + One(g \in received) + One(Passed(g)) + One(g \in transmitting)
          + One(Freeing(g)) + One(g \in fill_ring_) + One(g \in tx_ring_) = 1
    BY <1>1 DEF PlacesInv, OnePlace
  <2> QED BY <1>2, <1>4, <1>5, <2>1 DEF One
<1>7. DistinctInView' /\ NotBeingFreed' /\ PassedBehind' /\ PassedOnce'
  BY <1>1, <1>2, <1>3
  DEF PlacesInv, DistinctInView, NotBeingFreed, PassedBehind, PassedOnce, SameWindow, Freeing
<1>8. Copies'
  BY <1>1, <1>2, <1>3 DEF Copies, Free!Slot, freeVars
<1> QED BY <1>6, <1>7, <1>8 DEF PlacesInv

\* free_frame takes the frame out of the transmit thread's hands.
LEMMA FreeFrameKeeps ==
  ASSUME UmemInv, NEW f \in Frames, FreeFrame(f)
  PROVE  PlacesInv'
<1>1. FreeInv /\ PlacesInv /\ Copies
  BY DEF UmemInv, PlacesInv
<1>2. /\ f \in transmitting /\ transmitting' = transmitting \ {f}
      /\ pPc = "idle" /\ pPc' = "loadHead" /\ pItem' = f
      /\ UNCHANGED <<head_, tail_, buffer_, pHead, cPc, cItem>>
      /\ UNCHANGED <<received, passed, fill_ring_, tx_ring_>>
  BY DEF FreeFrame, GivenAway, Free!PushBegin, Free!ringVars, Free!consumerVars, kernelVars
<1>3. SameWindow
  BY <1>2, WindowUntouched
<1>4. \A g : (InRing(g)' <=> InRing(g)) /\ ~Freeing(g) /\ (Freeing(g)' <=> g = f)
  BY <1>1, <1>2, <1>3, RingPlacesSame DEF Freeing
<1>5. \A g : Passed(g)' <=> Passed(g)
  BY <1>2 DEF Passed
<1>6. OnePlace'
  <2> SUFFICES ASSUME NEW g \in Frames
               PROVE  One(InRing(g)') + One(g \in received') + One(Passed(g)')
                        + One(g \in transmitting') + One(Freeing(g)')
                        + One(g \in fill_ring_') + One(g \in tx_ring_') = 1
    BY DEF OnePlace, One
  <2>1. One(InRing(g)) + One(g \in received) + One(Passed(g)) + One(g \in transmitting)
          + One(Freeing(g)) + One(g \in fill_ring_) + One(g \in tx_ring_) = 1
    BY <1>1 DEF PlacesInv, OnePlace
  <2> QED BY <1>2, <1>4, <1>5, <2>1 DEF One
<1>7. DistinctInView' /\ PassedBehind' /\ PassedOnce'
  BY <1>1, <1>2, <1>3
  DEF PlacesInv, DistinctInView, PassedBehind, PassedOnce, SameWindow
<1>8. NotBeingFreed'
  BY <1>1, <1>2, <1>3 DEF PlacesInv, NotBeingFreed, SameWindow, Freeing
<1>9. Copies'
  BY <1>1, <1>2 DEF Copies, Free!Slot
<1> QED BY <1>6, <1>7, <1>8, <1>9 DEF PlacesInv

\* A newer view of head_ leaves what is in the ring where it is.
LEMMA NewerViewKeeps ==
  ASSUME UmemInv, NEW v \in Free!Index, Free!Distance(v, pHead) <= Gone,
         pHead' = v, head_' = head_, tail_' = tail_, buffer_' = buffer_
  PROVE  /\ Free!Distance(v, pHead) \in Nat
         /\ Gone' = Gone - Free!Distance(v, pHead)
         /\ \A i \in 0 .. View' - 1 :
              /\ Free!Distance(v, pHead) + i \in 0 .. View - 1
              /\ Entry(i)' = Entry(Free!Distance(v, pHead) + i)
         /\ \A f : InRing(f)' <=> InRing(f)
         /\ DistinctInView'
<1> DEFINE d == Free!Distance(v, pHead)
<1>1. FreeInv /\ DistinctInView /\ View \in Nat /\ Gone \in Nat /\ Gone <= View
  BY ViewFacts DEF UmemInv, PlacesInv
<1>2. /\ d \in Nat /\ View' = View - d /\ Gone' = Gone - d
      /\ \A i \in 0 .. View' - 1 : Entry(i)' = Entry(d + i)
  BY <1>1, NewerView
<1>3. d <= Gone
  OBVIOUS
<1> HIDE DEF d
<1>4. \A i \in 0 .. View' - 1 : d + i \in 0 .. View - 1
  BY <1>1, <1>2, <1>3
<1>5. ASSUME NEW f PROVE InRing(f)' <=> InRing(f)
  <2>1. ASSUME NEW i \in Gone' .. View' - 1, Entry(i)' = f PROVE InRing(f)
    <3>1. i \in 0 .. View' - 1 /\ d + i \in Gone .. View - 1
      BY <1>1, <1>2, <1>3
    <3> QED BY <1>2, <2>1, <3>1 DEF InRing
  <2>2. ASSUME NEW i \in Gone .. View - 1, Entry(i) = f PROVE InRing(f)'
    <3>1. PICK j \in Gone' .. View' - 1 : j \in 0 .. View' - 1 /\ d + j = i
      <4>1. /\ i - d \in Gone' .. View' - 1 /\ i - d \in 0 .. View' - 1
            /\ d + (i - d) = i
        BY <1>1, <1>2, <1>3
      <4> QED BY <4>1
    <3>2. Entry(j)' = f
      BY <1>2, <2>2, <3>1
    <3> QED BY <3>1, <3>2 DEF InRing
  <2> QED BY <2>1, <2>2 DEF InRing
<1>6. DistinctInView'
  <2> SUFFICES ASSUME NEW i \in 0 .. View' - 1
               PROVE  /\ Entry(i)' \in Frames
                      /\ \A j \in 0 .. View' - 1 : Entry(i)' = Entry(j)' => i = j
    BY DEF DistinctInView, Frames
  <2>1. Entry(i)' = Entry(d + i) /\ d + i \in 0 .. View - 1
    BY <1>2, <1>4
  <2>2. Entry(i)' \in Frames
    BY <1>1, <2>1 DEF DistinctInView
  <2>3. ASSUME NEW j \in 0 .. View' - 1, Entry(i)' = Entry(j)' PROVE i = j
    <3>1. Entry(j)' = Entry(d + j) /\ d + j \in 0 .. View - 1
      BY <1>2, <1>4
    <3>2. d + i = d + j
      BY <1>1, <2>1, <2>3, <3>1 DEF DistinctInView
    <3> QED BY <1>1, <1>2, <3>2
  <2> QED BY <2>2, <2>3
<1> QED BY <1>2, <1>4, <1>5, <1>6 DEF d

\* What the transmit thread believes of head_ when it has taken a frame.
LEMMA TakenView ==
  ASSUME FreeInv, NEW f \in Frames, NEW newer \in 0 .. NumFrames, Take(f, newer)
  PROVE  /\ pHead' \in Free!Index
         /\ Free!Distance(pHead', pHead) = IF newer < Gone THEN Gone - newer ELSE 0
<1>1. View \in Nat /\ Gone \in Nat /\ head_ \in Free!Index /\ pHead \in Free!Index
  BY ViewFacts
<1>2. pHead' = IF newer < Gone THEN (head_ - newer) % Modulus ELSE pHead
  BY DEF Take, Gone
<1>3. newer \in Free!Index /\ newer \in Int /\ 0 <= newer
  BY FreeIndex DEF Free!Index
<1>4. CASE newer < Gone
  <2>1. pHead' = Free!Distance(head_, newer)
    BY <1>2, <1>4 DEF Free!Distance
  <2>2. /\ pHead' = IF head_ >= newer THEN head_ - newer ELSE head_ - newer + Modulus
        /\ pHead' \in Nat /\ pHead' < Modulus
    BY <1>1, <1>3, <2>1, FreeIndex
  <2>3. pHead' \in Free!Index
    BY <2>2, FreeIndex DEF Free!Index
  <2>4. /\ Free!Distance(pHead', pHead)
             = IF pHead' >= pHead THEN pHead' - pHead ELSE pHead' - pHead + Modulus
        /\ Gone = IF head_ >= pHead THEN head_ - pHead ELSE head_ - pHead + Modulus
        /\ head_ \in Int /\ 0 <= head_ /\ head_ < Modulus
        /\ pHead \in Int /\ 0 <= pHead /\ pHead < Modulus /\ Modulus \in Int
    BY <1>1, <2>3, FreeIndex DEF Gone
  <2> QED BY <1>3, <1>4, <2>2, <2>3, <2>4
<1>5. CASE ~(newer < Gone)
  BY <1>1, <1>2, <1>5, FreeIndex
<1> QED BY <1>4, <1>5

\* The transmit thread takes a frame passed on to it, and with it a view of head_ in
\* which the frame is no longer in the ring.
LEMMA TakeKeeps ==
  ASSUME UmemInv, NEW f \in Frames, NEW newer \in 0 .. NumFrames, Take(f, newer)
  PROVE  PlacesInv'
<1>1. FreeInv /\ PlacesInv /\ Copies /\ View \in Nat /\ Gone \in Nat
      /\ head_ \in Free!Index /\ pHead \in Free!Index
  BY ViewFacts DEF UmemInv, PlacesInv
<1>2. /\ pPc = "idle" /\ <<f, newer>> \in passed
      /\ passed' = passed \ {<<f, newer>>} /\ transmitting' = transmitting \cup {f}
      /\ pHead' = IF newer < Gone THEN (head_ - newer) % Modulus ELSE pHead
      /\ UNCHANGED <<head_, tail_, buffer_, pPc, pItem, cPc, cItem, received>>
      /\ UNCHANGED <<fill_ring_, tx_ring_>>
  BY DEF Take, Gone, kernelVars
<1>3. /\ pHead' \in Free!Index
      /\ Free!Distance(pHead', pHead) = IF newer < Gone THEN Gone - newer ELSE 0
  BY <1>1, TakenView
<1> DEFINE d == Free!Distance(pHead', pHead)
<1>4. d \in Nat /\ d <= Gone /\ d + newer >= Gone
  BY <1>1, <1>3
<1>5. /\ Gone' = Gone - d
      /\ \A i \in 0 .. View' - 1 : d + i \in 0 .. View - 1 /\ Entry(i)' = Entry(d + i)
      /\ \A g : InRing(g)' <=> InRing(g)
      /\ DistinctInView'
  BY <1>2, <1>3, <1>4, NewerViewKeeps
<1> HIDE DEF d
<1>6. \A g : Freeing(g)' <=> Freeing(g)
  BY <1>2 DEF Freeing
<1>7. \A g : Passed(g)' <=> Passed(g) /\ g # f
  <2>1. \A q : q \in passed' <=> q \in passed /\ q # <<f, newer>>
    BY <1>2
  <2>2. <<f, newer>>[1] = f
    OBVIOUS
  <2>3. \A q \in passed : q[1] = f => q = <<f, newer>>
    BY <1>1, <1>2, <2>2 DEF PlacesInv, PassedOnce
  <2> QED BY <2>1, <2>2, <2>3 DEF Passed
<1>8. Passed(f)
  <2>1. <<f, newer>>[1] = f
    OBVIOUS
  <2> QED BY <1>2, <2>1 DEF Passed
<1>9. OnePlace'
  <2> SUFFICES ASSUME NEW g \in Frames
               PROVE  One(InRing(g)') + One(g \in received') + One(Passed(g)')
                        + One(g \in transmitting') + One(Freeing(g)')
                        + One(g \in fill_ring_') + One(g \in tx_ring_') = 1
    BY DEF OnePlace, One
  <2>1. One(InRing(g)) + One(g \in received) + One(Passed(g)) + One(g \in transmitting)
          + One(Freeing(g)) + One(g \in fill_ring_) + One(g \in tx_ring_) = 1
    BY <1>1 DEF PlacesInv, OnePlace
  <2> QED BY <1>2, <1>5, <1>6, <1>7, <1>8, <2>1 DEF One
<1>10. NotBeingFreed'
  <2> SUFFICES ASSUME NEW i \in 0 .. View' - 1
               PROVE  /\ Entry(i)' \notin transmitting' /\ Entry(i)' \notin tx_ring_'
                      /\ ~Freeing(Entry(i))'
    BY DEF NotBeingFreed
  <2>1. d + i \in 0 .. View - 1 /\ Entry(i)' = Entry(d + i)
    BY <1>5
  <2>2. Entry(d + i) # f
    <3>1. ASSUME Entry(d + i) = f PROVE d + i + newer < Gone
      <4>1. <<f, newer>>[1] = f /\ <<f, newer>>[2] = newer
        OBVIOUS
      <4> QED BY <1>1, <1>2, <2>1, <3>1, <4>1 DEF PlacesInv, PassedBehind
    <3>2. i \in Nat
      BY <2>1
    <3> QED BY <1>1, <1>4, <3>1, <3>2
  <2>3. /\ Entry(d + i) \notin transmitting /\ Entry(d + i) \notin tx_ring_
        /\ ~Freeing(Entry(d + i))
    BY <1>1, <2>1 DEF PlacesInv, NotBeingFreed
  <2> QED BY <1>2, <2>1, <2>2, <2>3 DEF Freeing
<1>11. PassedBehind'
  <2> SUFFICES ASSUME NEW p \in passed, NEW i \in 0 .. View' - 1, Entry(i)' = p[1]
               PROVE  i + p[2] < Gone'
    BY <1>2 DEF PassedBehind
  <2>1. d + i \in 0 .. View - 1 /\ Entry(d + i) = p[1]
    BY <1>5
  <2>2. d + i + p[2] < Gone
    BY <1>1, <2>1 DEF PlacesInv, PassedBehind
  <2>3. p[2] \in Nat /\ i \in Nat
    BY <2>1, FreeIndex DEF UmemInv, TypeOK
  <2> QED BY <1>1, <1>4, <1>5, <2>2, <2>3
<1>12. PassedOnce'
  BY <1>1, <1>2 DEF PlacesInv, PassedOnce
<1>13. Copies'
  BY <1>1, <1>2 DEF Copies, Free!Slot
<1> QED BY <1>5, <1>9, <1>10, <1>11, <1>12, <1>13 DEF PlacesInv

\* free_frame looks at head_ and finds room.
LEMMA LoadHeadKeeps ==
  ASSUME UmemInv, Free!PushLoadHead, UNCHANGED <<heldVars, kernelVars>>
  PROVE  PlacesInv'
<1>1. FreeInv /\ PlacesInv /\ Copies /\ View \in Nat /\ Gone \in Nat /\ Gone <= View
      /\ head_ \in Free!Index /\ pHead \in Free!Index /\ tail_ \in Free!Index
  BY ViewFacts DEF UmemInv, PlacesInv
<1>2. PICK v \in Free!Observable(pHead, head_) :
        /\ pHead' = v
        /\ pPc' = IF Free!LooksFull(pTail, v) THEN "idle" ELSE "write"
  BY DEF Free!PushLoadHead
<1>3. /\ pPc = "loadHead" /\ UNCHANGED <<head_, tail_, buffer_, pItem, cPc, cItem>>
      /\ UNCHANGED <<heldVars, kernelVars>>
  BY DEF Free!PushLoadHead, Free!ringVars, Free!consumerVars
<1>4. /\ v \in Free!Index
      /\ Free!Distance(tail_, head_) <= Free!Distance(tail_, v)
      /\ Free!Distance(tail_, v) <= View
  BY <1>1, ViewFacts, FreeStaleHead DEF View
<1>5. pPc' = "write"
  <2>1. View < NumFrames
    BY <1>3, FreeHasRoom
  <2>2. Free!Distance(tail_, v) < NumFrames /\ pTail = tail_
    BY <1>1, <1>3, <1>4, <2>1, FreeIndex, ViewFacts
  <2>3. ~Free!LooksFull(pTail, v)
    BY <1>1, <1>4, <2>2, FreeIndex DEF Free!LooksFull
  <2> QED BY <1>2, <2>3
<1> DEFINE d == Free!Distance(v, pHead)
<1>6. d \in Nat /\ d <= Gone
  <2>1. d = Free!Distance(tail_, pHead) - Free!Distance(tail_, v)
    BY <1>1, <1>4, FreeWindowSuffix DEF View
  <2>2. /\ Free!Distance(tail_, v) \in Nat /\ Free!Distance(tail_, head_) = View - Gone
        /\ d \in Nat
    BY <1>1, <1>4, FreeIndex, ViewFacts
  <2> QED BY <1>1, <1>4, <2>1, <2>2 DEF View
<1>7. /\ Gone' = Gone - d
      /\ \A i \in 0 .. View' - 1 : d + i \in 0 .. View - 1 /\ Entry(i)' = Entry(d + i)
      /\ \A g : InRing(g)' <=> InRing(g)
      /\ DistinctInView'
  BY <1>2, <1>3, <1>4, <1>6, NewerViewKeeps
<1> HIDE DEF d
<1>8. \A g : (Freeing(g)' <=> Freeing(g)) /\ (Passed(g)' <=> Passed(g))
  BY <1>3, <1>5 DEF Freeing, Passed, heldVars
<1>9. OnePlace'
  BY <1>1, <1>3, <1>7, <1>8 DEF PlacesInv, OnePlace, One, heldVars, kernelVars
<1>10. NotBeingFreed'
  <2> SUFFICES ASSUME NEW i \in 0 .. View' - 1
               PROVE  /\ Entry(i)' \notin transmitting /\ Entry(i)' \notin tx_ring_
                      /\ ~(pItem = Entry(i)')
    BY <1>3 DEF NotBeingFreed, Freeing, heldVars, kernelVars
  <2> QED BY <1>1, <1>3, <1>7 DEF PlacesInv, NotBeingFreed, Freeing
<1>11. PassedBehind'
  <2> SUFFICES ASSUME NEW p \in passed, NEW i \in 0 .. View' - 1, Entry(i)' = p[1]
               PROVE  i + p[2] < Gone'
    BY <1>3 DEF PassedBehind, heldVars
  <2>1. d + i \in 0 .. View - 1 /\ Entry(d + i) = p[1]
    BY <1>7
  <2>2. d + i + p[2] < Gone
    BY <1>1, <2>1 DEF PlacesInv, PassedBehind
  <2>3. p[2] \in Nat /\ i \in Nat
    BY <2>1, FreeIndex DEF UmemInv, TypeOK
  <2> QED BY <1>1, <1>6, <1>7, <2>2, <2>3
<1>12. PassedOnce'
  BY <1>1, <1>3 DEF PlacesInv, PassedOnce, heldVars
<1>13. Copies'
  BY <1>1, <1>3, <1>5 DEF Copies, Free!Slot
<1> QED BY <1>7, <1>9, <1>10, <1>11, <1>12, <1>13 DEF PlacesInv

\* Copying a frame into its slot changes no position in view.
LEMMA WriteKeeps ==
  ASSUME UmemInv, Free!PushWrite, UNCHANGED <<heldVars, kernelVars>>
  PROVE  PlacesInv'
<1>1. FreeInv /\ PlacesInv /\ Copies /\ View \in Nat /\ Gone \in Nat
  BY ViewFacts DEF UmemInv, PlacesInv
<1>2. /\ pPc = "write" /\ pPc' = "publish"
      /\ UNCHANGED <<head_, tail_, pHead, pItem, cPc, cItem>>
  BY DEF Free!PushWrite, Free!consumerVars
<1>3. SameWindow /\ buffer_'[Free!Slot(tail_)] = pItem
  BY <1>1, WriteOutsideView DEF SameWindow
<1>4. cPc = "publish" => buffer_'[Free!Slot(head_)] = buffer_[Free!Slot(head_)]
  <2> SUFFICES ASSUME cPc = "publish"
               PROVE  buffer_'[Free!Slot(head_)] = buffer_[Free!Slot(head_)]
    OBVIOUS
  <2>1. Gone \in 0 .. View - 1 /\ (pHead + Gone) % Modulus = head_
    BY <1>1, ViewFacts
  <2>2. Entry(Gone)' = buffer_'[Free!Slot(head_)] /\ Entry(Gone) = buffer_[Free!Slot(head_)]
    BY <1>2, <1>3, <2>1 DEF Entry, Free!Slot, SameWindow
  <2>3. \A i \in 0 .. View - 1 : Entry(i)' = Entry(i)
    BY <1>3 DEF SameWindow
  <2> QED BY <1>2, <1>3, <2>1, <2>3 DEF Entry, Free!Slot
<1>5. Copies'
  BY <1>1, <1>2, <1>3, <1>4 DEF Copies, Free!Slot
<1> QED BY <1>1, <1>2, <1>3, <1>5, NothingMoves

\* The store to tail_ moves the frame from the transmit thread to the ring.
LEMMA PublishKeeps ==
  ASSUME UmemInv, Free!PushPublish, UNCHANGED <<heldVars, kernelVars>>
  PROVE  PlacesInv'
<1>1. FreeInv /\ PlacesInv /\ Copies /\ View \in Nat /\ Gone \in Nat /\ Gone <= View
  BY ViewFacts DEF UmemInv, PlacesInv
<1>2. /\ pPc = "publish" /\ pPc' = "idle"
      /\ UNCHANGED <<head_, buffer_, pItem, cPc, cItem>>
      /\ UNCHANGED <<heldVars, kernelVars>>
  BY DEF Free!PushPublish, Free!consumerVars
<1>3. /\ View' = View + 1 /\ Gone' = Gone /\ Entry(View) = pItem
      /\ \A i : Entry(i)' = Entry(i)
  BY <1>1, PublishExtendsView
<1>4. pItem \in Frames /\ \A g : (Freeing(g) <=> g = pItem) /\ ~Freeing(g)'
  BY <1>1, <1>2 DEF Freeing, Copies
<1>5. ~InRing(pItem) /\ ~Passed(pItem) /\ pItem \notin transmitting /\ pItem \notin tx_ring_
  <2>1. One(InRing(pItem)) + One(pItem \in received) + One(Passed(pItem))
          + One(pItem \in transmitting) + One(Freeing(pItem))
          + One(pItem \in fill_ring_) + One(pItem \in tx_ring_) = 1
    BY <1>1, <1>4 DEF PlacesInv, OnePlace
  <2> QED BY <1>4, <2>1 DEF One
<1>6. \A i \in 0 .. View' - 1 : i \in 0 .. View - 1 \/ i = View
  BY <1>1, <1>3
<1>7. \A i \in 0 .. View - 1 : i # View /\ i \in 0 .. View' - 1
  BY <1>1, <1>3
<1>8. ASSUME NEW g PROVE InRing(g)' <=> InRing(g) \/ g = pItem
  <2>1. View \in Gone' .. View' - 1
    BY <1>1, <1>3
  <2>2. \A i \in Gone' .. View' - 1 : i \in Gone .. View - 1 \/ i = View
    BY <1>1, <1>3
  <2>3. \A i \in Gone .. View - 1 : i \in Gone' .. View' - 1
    BY <1>1, <1>3
  <2> QED BY <1>3, <2>1, <2>2, <2>3 DEF InRing
<1>9. OnePlace'
  <2> SUFFICES ASSUME NEW g \in Frames
               PROVE  One(InRing(g)') + One(g \in received) + One(Passed(g))
                        + One(g \in transmitting) + One(Freeing(g)')
                        + One(g \in fill_ring_) + One(g \in tx_ring_) = 1
    BY <1>2 DEF OnePlace, One, Passed, heldVars, kernelVars
  <2>1. One(InRing(g)) + One(g \in received) + One(Passed(g)) + One(g \in transmitting)
          + One(Freeing(g)) + One(g \in fill_ring_) + One(g \in tx_ring_) = 1
    BY <1>1 DEF PlacesInv, OnePlace
  <2> QED BY <1>4, <1>5, <1>8, <2>1 DEF One
<1>10. \A i \in 0 .. View - 1 : Entry(i) # pItem
  BY <1>1, <1>4 DEF PlacesInv, NotBeingFreed
<1>11. DistinctInView'
  BY <1>1, <1>3, <1>4, <1>6, <1>10 DEF PlacesInv, DistinctInView
<1>12. NotBeingFreed'
  <2> SUFFICES ASSUME NEW i \in 0 .. View' - 1
               PROVE  Entry(i) \notin transmitting /\ Entry(i) \notin tx_ring_
    BY <1>2, <1>3, <1>4 DEF NotBeingFreed, heldVars, kernelVars, Freeing
  <2> QED BY <1>1, <1>3, <1>5, <1>6 DEF PlacesInv, NotBeingFreed
<1>13. PassedBehind'
  <2> SUFFICES ASSUME NEW p \in passed, NEW i \in 0 .. View' - 1, Entry(i) = p[1]
               PROVE  i + p[2] < Gone
    BY <1>2, <1>3 DEF PassedBehind, heldVars
  <2>1. i # View
    BY <1>3, <1>5 DEF Passed
  <2> QED BY <1>1, <1>6, <2>1 DEF PlacesInv, PassedBehind
<1>14. PassedOnce'
  BY <1>1, <1>2 DEF PlacesInv, PassedOnce, heldVars
<1>15. Copies'
  BY <1>1, <1>2 DEF Copies, Free!Slot
<1> QED BY <1>9, <1>11, <1>12, <1>13, <1>14, <1>15 DEF PlacesInv

\* Each step keeps what the ring keeps by itself.
LEMMA FreeStep ==
  ASSUME UmemInv, [Next]_vars
  PROVE  FreeInv'
<1>1. FreeInv
  BY DEF UmemInv
<1>2. ASSUME NEW f \in Frames, NEW newer \in 0 .. NumFrames, Take(f, newer)
      PROVE  FreeInv'
  <2>1. /\ pPc = "idle" /\ pPc' = "idle"
        /\ UNCHANGED <<head_, tail_, buffer_, pItem, pTail, cPc, cItem, cHead, cTail>>
    BY <1>2 DEF Take
  <2>2. pHead' \in Free!Index /\ Free!Distance(pHead', pHead) <= Gone
    <3>1. Gone \in Nat /\ newer \in Nat
      BY <1>1, ViewFacts, FreeIndex
    <3> QED BY <1>1, <1>2, <3>1, TakenView
  <2>3. /\ Free!Distance(pHead', pHead) \in Nat
        /\ View' = View - Free!Distance(pHead', pHead)
    BY <1>1, <2>1, <2>2, NewerView
  <2>4. /\ View \in Nat /\ Gone \in Nat /\ View <= NumFrames /\ NumFrames \in Nat
        /\ Free!Distance(tail_, head_) = View - Gone
    BY <1>1, ViewFacts, FreeIndex
  <2>5. View' <= NumFrames /\ Free!Distance(tail_, head_) <= View'
    BY <2>2, <2>3, <2>4
  <2>6. Free!TypeOK'
    BY <1>1, <2>1, <2>2 DEF FreeInv, Free!TypeOK
  <2>7. Free!ConservativeViews'
    BY <1>1, <2>1, <2>5 DEF FreeInv, Free!ConservativeViews, View, Free!Distance
  <2> QED BY <2>6, <2>7 DEF FreeInv
<1>3. ASSUME [Next]_vars, \A f \in Frames, newer \in 0 .. NumFrames : ~Take(f, newer)
      PROVE  \/ \E f \in Frames : Free!PushBegin(f)
             \/ Free!PushLoadHead \/ Free!PushWrite \/ Free!PushPublish
             \/ Free!PopBegin \/ Free!PopLoadTail \/ Free!PopRead \/ Free!PopPublish
             \/ UNCHANGED freeVars
  BY <1>3 DEF Next, Receive, Allocate, Allocated, Return, FreeFrame, FreePush,
              Pass, EnqueueFillRing, EnqueueTxRing, vars
<1> QED BY <1>1, <1>2, <1>3, FreeRingStep

\* Each step keeps every frame in one place.
LEMMA PlacesStep ==
  ASSUME UmemInv, [Next]_vars
  PROVE  PlacesInv'
<1>1. CASE Allocate
  BY <1>1, AllocateKeeps
<1>2. CASE Allocated
  BY <1>2, AllocatedKeeps
<1>3. ASSUME NEW f \in Frames, NEW newer \in 0 .. NumFrames, Take(f, newer)
      PROVE  PlacesInv'
  BY <1>3, TakeKeeps
<1>4. ASSUME NEW f \in Frames, FreeFrame(f) PROVE PlacesInv'
  BY <1>4, FreeFrameKeeps
<1>5. CASE FreePush
  BY <1>5, LoadHeadKeeps, WriteKeeps, PublishKeeps DEF FreePush
<1>6. ASSUME NEW f \in Frames, Pass(f) PROVE PlacesInv'
  BY <1>6, PassKeeps
<1>7. ASSUME NEW f \in Frames, EnqueueFillRing(f) PROVE PlacesInv'
  BY <1>7, EnqueueFillKeeps
<1>8. ASSUME NEW f \in Frames, EnqueueTxRing(f) PROVE PlacesInv'
  BY <1>8, EnqueueTxKeeps
<1>9. CASE UNCHANGED vars
  <2>1. FreeInv /\ PlacesInv /\ Copies
    BY DEF UmemInv, PlacesInv
  <2>2. SameWindow
    BY <1>9, WindowUntouched DEF vars, freeVars
  <2>3. Copies'
    BY <1>9, <2>1 DEF Copies, Free!Slot, vars, freeVars
  <2> QED BY <1>9, <2>1, <2>2, <2>3, NothingMoves DEF vars, freeVars
<1> QED BY <1>1, <1>2, <1>3, <1>4, <1>5, <1>6, <1>7, <1>8, <1>9 DEF Next, Receive, Return

\* Each step keeps the types of what the threads hold.
LEMMA HeldTypes ==
  ASSUME UmemInv, [Next]_vars, FreeInv'
  PROVE  TypeOK'
<1>1. TypeOK /\ FreeInv /\ PlacesInv /\ NumFrames \in Nat
  BY FreeIndex DEF UmemInv
<1>2. Free!TypeOK'
  BY DEF FreeInv
<1>3. CASE Allocated
  <2>1. /\ received' = received \cup {cItem}
        /\ passed' = {<<p[1], IF p[2] < NumFrames THEN p[2] + 1 ELSE p[2]>> : p \in passed}
        /\ UNCHANGED <<transmitting, fill_ring_, tx_ring_>>
    BY <1>3 DEF Allocated, kernelVars
  <2>2. cItem \in Frames
    <3>1. cPc = "publish" /\ Gone < View /\ Gone \in 0 .. View - 1 /\ cItem = Entry(Gone)
      BY <1>1, <1>3, ViewFacts DEF Allocated, Free!PopPublish, PlacesInv, Copies, Entry
    <3> QED BY <1>1, <3>1 DEF PlacesInv, DistinctInView
  <2>3. passed' \subseteq Frames \X (0 .. NumFrames)
    <3>1. \A p \in passed :
            p[1] \in Frames /\ (IF p[2] < NumFrames THEN p[2] + 1 ELSE p[2]) \in 0 .. NumFrames
      BY <1>1 DEF TypeOK
    <3> QED BY <2>1, <3>1
  <2> QED BY <1>1, <1>2, <2>1, <2>2, <2>3 DEF TypeOK
<1>4. ASSUME NEW f \in Frames, NEW newer \in 0 .. NumFrames, Take(f, newer)
      PROVE  TypeOK'
  BY <1>1, <1>2, <1>4 DEF Take, TypeOK, kernelVars
<1>5. ASSUME NEW f \in Frames, FreeFrame(f) PROVE TypeOK'
  BY <1>1, <1>2, <1>5 DEF FreeFrame, GivenAway, TypeOK, kernelVars
<1>6. ASSUME NEW f \in Frames, Pass(f) PROVE TypeOK'
  <2>1. <<f, 0>> \in Frames \X (0 .. NumFrames)
    BY <1>1
  <2> QED BY <1>1, <1>2, <1>6, <2>1 DEF Pass, TypeOK, kernelVars
<1>7. ASSUME NEW f \in Frames, EnqueueFillRing(f) PROVE TypeOK'
  BY <1>1, <1>2, <1>7 DEF EnqueueFillRing, TypeOK
<1>8. ASSUME NEW f \in Frames, EnqueueTxRing(f) PROVE TypeOK'
  BY <1>1, <1>2, <1>8 DEF EnqueueTxRing, GivenAway, TypeOK
<1>9. CASE Allocate \/ FreePush \/ UNCHANGED vars
  BY <1>1, <1>2, <1>9 DEF Allocate, FreePush, vars, heldVars, kernelVars, TypeOK
<1> QED BY <1>3, <1>4, <1>5, <1>6, <1>7, <1>8, <1>9 DEF Next, Receive, Return

\* Frames do not overlap, and each lies within the area.
LEMMA Offsets ==
  ASSUME NEW i \in 0 .. NumFrames - 1
  PROVE  /\ i * FrameSize \in Nat
         /\ \A j \in 0 .. NumFrames - 1 : i * FrameSize = j * FrameSize => i = j
         /\ i * FrameSize + FrameSize <= NumFrames * FrameSize
<1>1. /\ NumFrames \in Nat /\ FrameSize \in Nat /\ FrameSize > 0
      /\ i \in Nat /\ i + 1 <= NumFrames
  BY UmemAssumption
<1>2. i * FrameSize \in Nat
  BY <1>1
<1>3. ASSUME NEW j \in 0 .. NumFrames - 1, i * FrameSize = j * FrameSize PROVE i = j
  <2>1. j \in Nat
    OBVIOUS
  <2> QED BY <1>1, <1>3, <2>1
<1>4. (i + 1) * FrameSize <= NumFrames * FrameSize
  <2> DEFINE k == i + 1
  <2>1. k \in Nat /\ k <= NumFrames
    BY <1>1
  <2> HIDE DEF k
  <2>2. k * FrameSize <= NumFrames * FrameSize
    BY <1>1, <2>1
  <2> QED BY <2>2 DEF k
<1>5. (i + 1) * FrameSize = i * FrameSize + FrameSize
  BY <1>1
<1> QED BY <1>2, <1>3, <1>4, <1>5

\* The pool starts with every frame in the free ring.
LEMMA UmemInit == Init => UmemInv
<1> SUFFICES ASSUME Init PROVE UmemInv
  OBVIOUS
<1>1. /\ NumFrames \in Nat /\ NumFrames > 0 /\ Modulus \in Nat /\ Modulus > NumFrames
  BY FreeIndex
<1>2. 0 \in Free!Index /\ NumFrames \in Free!Index
  BY <1>1 DEF Free!Index
<1>3. /\ Free!Distance(NumFrames, 0) = NumFrames /\ Free!Distance(0, 0) = 0
  BY <1>1, <1>2, FreeIndex
<1>4. View = NumFrames /\ Gone = 0
  BY <1>3 DEF Init, View, Gone
<1>5. ASSUME NEW i \in 0 .. NumFrames - 1 PROVE Entry(i) = i * FrameSize
  <2>1. i \in 0 .. Modulus - 1 /\ i \in Nat
    BY <1>1
  <2>2. i % Modulus = i /\ i % NumFrames = i /\ pHead + i = i
    BY <1>1, <2>1 DEF Init
  <2> QED BY <2>2 DEF Init, InitialBuffer, Entry, Free!Slot
<1>6. buffer_ \in [0 .. NumFrames - 1 -> Frames \cup {NoFrame}]
  BY DEF Init, InitialBuffer, Frames
<1>7. TypeOK
  BY <1>2, <1>6 DEF Init, TypeOK, Free!TypeOK
<1>8. FreeInv
  BY <1>1, <1>3, <1>7 DEF Init, FreeInv, TypeOK, Free!ConservativeViews
<1>9. DistinctInView
  <2>1. \A i \in 0 .. NumFrames - 1 : Entry(i) \in Frames
    BY <1>5 DEF Frames
  <2>2. ASSUME NEW i \in 0 .. NumFrames - 1, NEW j \in 0 .. NumFrames - 1,
               Entry(i) = Entry(j)
        PROVE  i = j
    <3>1. i * FrameSize = j * FrameSize
      BY <1>5, <2>2
    <3> QED BY <3>1, Offsets
  <2> QED BY <1>4, <2>1, <2>2 DEF DistinctInView
<1>10. \A f \in Frames : InRing(f)
  <2> SUFFICES ASSUME NEW f \in Frames PROVE InRing(f)
    OBVIOUS
  <2>1. PICK i \in 0 .. NumFrames - 1 : f = i * FrameSize
    BY DEF Frames
  <2>2. i \in Gone .. View - 1 /\ Entry(i) = f
    BY <1>4, <1>5, <2>1
  <2> QED BY <2>2 DEF InRing
<1>11. OnePlace
  BY <1>10 DEF Init, OnePlace, One, Passed, Freeing
<1>12. NotBeingFreed /\ PassedBehind /\ PassedOnce /\ Copies
  BY DEF Init, NotBeingFreed, PassedBehind, PassedOnce, Copies, Freeing
<1> QED BY <1>7, <1>8, <1>9, <1>11, <1>12 DEF UmemInv, PlacesInv

\* One place in the sense of FrameConservation.
LEMMA PlacesCounted ==
  ASSUME UmemInv, NEW f \in Frames
  PROVE  FreeEntries(f) + PassedEntries(f) + Cardinality(Holders(f)) = 1
<1> DEFINE entries == {i \in 0 .. Free!Distance(tail_, head_) - 1 :
                         buffer_[Free!Slot((head_ + i) % Modulus)] = f}
<1>e. FreeEntries(f) = Cardinality(entries)
  BY DEF FreeEntries
<1>1. /\ FreeInv /\ PlacesInv /\ View \in Nat /\ Gone \in Nat /\ Gone <= View
      /\ Free!Distance(tail_, head_) = View - Gone
      /\ \A k \in 0 .. View - Gone : (head_ + k) % Modulus = (pHead + (Gone + k)) % Modulus
  BY ViewFacts DEF UmemInv
<1>2. ASSUME NEW k \in 0 .. View - Gone - 1
      PROVE  /\ buffer_[Free!Slot((head_ + k) % Modulus)] = Entry(Gone + k)
             /\ Gone + k \in Gone .. View - 1 /\ Gone + k \in 0 .. View - 1
  <2>1. k \in 0 .. View - Gone /\ Gone + k \in Gone .. View - 1 /\ Gone + k \in 0 .. View - 1
    BY <1>1
  <2> QED BY <1>1, <2>1 DEF Entry
<1>3. One(InRing(f)) + One(f \in received) + One(Passed(f)) + One(f \in transmitting)
        + One(Freeing(f)) + One(f \in fill_ring_) + One(f \in tx_ring_) = 1
  BY <1>1 DEF PlacesInv, OnePlace
<1>4. Cardinality({}) = 0 /\ \A x : Cardinality({x}) = 1
  BY FS_EmptySet, FS_Singleton
<1>5. InRing(f) => Cardinality(entries) = 1
  <2> SUFFICES ASSUME InRing(f) PROVE Cardinality(entries) = 1
    OBVIOUS
  <2>1. PICK j \in Gone .. View - 1 : Entry(j) = f
    BY DEF InRing
  <2>2. /\ j - Gone \in 0 .. View - Gone - 1 /\ Gone + (j - Gone) = j /\ j \in 0 .. View - 1
    BY <1>1
  <2>3. \A k \in 0 .. View - Gone - 1 :
          buffer_[Free!Slot((head_ + k) % Modulus)] = f <=> k = j - Gone
    <3> TAKE k \in 0 .. View - Gone - 1
    <3>1. Entry(Gone + k) = Entry(j) => Gone + k = j
      BY <1>1, <1>2, <2>2 DEF PlacesInv, DistinctInView
    <3>2. Gone + k = j <=> k = j - Gone
      BY <1>1
    <3> QED BY <1>2, <2>1, <3>1, <3>2
  <2>4. entries = {j - Gone}
    BY <1>1, <2>2, <2>3
  <2> HIDE DEF entries
  <2> QED BY <1>4, <2>4
<1>6. ~InRing(f) => Cardinality(entries) = 0
  <2> SUFFICES ASSUME ~InRing(f) PROVE Cardinality(entries) = 0
    OBVIOUS
  <2>1. \A k \in 0 .. View - Gone - 1 : buffer_[Free!Slot((head_ + k) % Modulus)] # f
    BY <1>2 DEF InRing
  <2>2. entries = {}
    BY <1>1, <2>1
  <2> HIDE DEF entries
  <2> QED BY <1>4, <2>2
<1>7. PassedEntries(f) = One(Passed(f))
  <2> DEFINE on == {p \in passed : p[1] = f}
  <2>1. CASE Passed(f)
    <3>1. PICK p \in passed : p[1] = f
      BY <2>1 DEF Passed
    <3>2. on = {p}
      BY <1>1, <3>1 DEF PlacesInv, PassedOnce
    <3> QED BY <1>4, <2>1, <3>2 DEF PassedEntries, One
  <2>2. CASE ~Passed(f)
    <3>1. on = {}
      BY <2>2 DEF Passed
    <3> QED BY <1>4, <2>2, <3>1 DEF PassedEntries, One
  <2> QED BY <2>1, <2>2
<1>8. Cardinality(Holders(f)) = One(~InRing(f) /\ ~Passed(f))
  <2>1. InRing(f) \/ Passed(f) => Holders(f) = {}
    BY <1>3 DEF Holders, Freeing, One
  <2>2. ASSUME ~InRing(f), ~Passed(f) PROVE \E h : Holders(f) = {h}
    <3>1. f \in received => Holders(f) = {"received"}
      BY <1>3 DEF Holders, Freeing, One
    <3>2. f \in transmitting => Holders(f) = {"transmitting"}
      BY <1>3 DEF Holders, Freeing, One
    <3>3. Freeing(f) => Holders(f) = {"freeing"}
      BY <1>3 DEF Holders, Freeing, One
    <3>4. f \in fill_ring_ => Holders(f) = {"fill"}
      BY <1>3 DEF Holders, Freeing, One
    <3>5. f \in tx_ring_ => Holders(f) = {"tx"}
      BY <1>3 DEF Holders, Freeing, One
    <3>6. f \in received \/ f \in transmitting \/ Freeing(f) \/ f \in fill_ring_ \/ f \in tx_ring_
      BY <1>3, <2>2 DEF One
    <3> QED BY <3>1, <3>2, <3>3, <3>4, <3>5, <3>6
  <2> QED BY <1>4, <2>1, <2>2 DEF One
<1>9. ~(InRing(f) /\ Passed(f))
  BY <1>3 DEF One
<1> HIDE DEF entries
<1> QED BY <1>e, <1>5, <1>6, <1>7, <1>8, <1>9 DEF One

-----------------------------------------------------------------------------
\* The transmit thread's view of the free ring never shows it a frame it has
\* itself, and every frame has one place.
THEOREM UmemInvariant == Spec => []UmemInv
<1>1. UmemInv /\ [Next]_vars => UmemInv'
  BY FreeStep, PlacesStep, HeldTypes DEF UmemInv
<1> QED BY <1>1, UmemInit, PTL DEF Spec

\* No frame is lost or handed out twice, although free_frame ignores whether its
\* push succeeds, and every frame held has a pointer.
THEOREM FramesConserved == Spec => []FrameConservation
<1>1. UmemInv => FrameConservation
  <2> SUFFICES ASSUME UmemInv PROVE FrameConservation
    OBVIOUS
  <2>1. TypeOK
    BY DEF UmemInv
  <2>2. \A f \in Frames : FreeEntries(f) + PassedEntries(f) + Cardinality(Holders(f)) = 1
    BY PlacesCounted
  <2>3. ASSUME NEW f \in Frames PROVE HasPointer(f)
    <3>1. PICK i \in 0 .. NumFrames - 1 : f = i * FrameSize
      BY DEF Frames
    <3>2. f \in Nat /\ f + FrameSize <= NumFrames * FrameSize
      BY <3>1, Offsets
    <3> DEFINE a == f + FrameSize
           area == NumFrames * FrameSize
    <3>3. /\ a \in Nat /\ area \in Nat /\ a <= area /\ AddressModulus \in Nat
          /\ area < AddressModulus
      BY <3>2, UmemAssumption
    <3> HIDE DEF a, area
    <3>4. a % AddressModulus = a
      BY <3>3
    <3> QED BY <3>3, <3>4 DEF a, area, HasPointer
  <2> QED BY <2>1, <2>2, <2>3 DEF FrameConservation, TypeOK
<1> QED BY <1>1, UmemInvariant, PTL
=============================================================================
