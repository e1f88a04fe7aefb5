------------------------------ MODULE XskUmem ------------------------------
(***************************************************************************)
(* The AF_XDP frame pool of src/core/xsk_umem.cpp.  The free frames are in *)
(* a ring that starts full: alloc_frame is its pop, free_frame its push,   *)
(* with the result ignored.  A receive thread allocates frames and passes  *)
(* them on to a transmit thread, which frees them; either may give a frame *)
(* to its ring of the emulated kernel, the fill or the transmit ring.      *)
(*                                                                         *)
(* Frames are passed from thread to thread with synchronisation, without   *)
(* which their bytes could not be read: the taker sees every store the     *)
(* giver has made, head_ of the free ring among them.                      *)
(*                                                                         *)
(* Nothing in the class takes frames out of fill_ring_ and tx_ring_ or     *)
(* puts any into rx_ring_ and completion_ring_, so the first two are sets  *)
(* and the dequeue operations of the others, always false, change nothing. *)
(***************************************************************************)
EXTENDS Integers, FiniteSets

CONSTANTS
  NumFrames,      \* XSK_UMEM_NUM_FRAMES, and the capacity of every ring
  FrameSize,      \* XSK_UMEM_FRAME_SIZE
  Modulus,        \* number of values of size_t as a ring index
  AddressModulus, \* number of values of an address
  NoFrame

VARIABLES
  head_, tail_, buffer_, pPc, pItem, pTail, pHead, cPc, cItem, cHead, cTail,
                  \* free_frame_ring_, its producer and its consumer
  received,       \* frames the receive thread holds
  passed,         \* frames passed on, each with how many stores to head_ are newer,
                  \* counted up to NumFrames: no view is that far behind
  transmitting,   \* frames the transmit thread holds
  fill_ring_, tx_ring_

\* Byte offsets of the frames in umem_buffer_.
Frames == {i * FrameSize : i \in 0 .. NumFrames - 1}

ASSUME UmemAssumption ==
  /\ NumFrames \in Nat \ {0} /\ FrameSize \in Nat \ {0}
  /\ AddressModulus \in Nat /\ AddressModulus >= NumFrames * FrameSize + FrameSize

Free == INSTANCE SPSCRing WITH
  Capacity <- NumFrames, Items <- Frames, NoItem <- NoFrame

\* The number of frames is a power of two, as the capacity of a ring must be.
ASSUME FreeRingAssumption == Free!RingAssumption

freeVars == <<head_, tail_, buffer_, pPc, pItem, pTail, pHead, cPc, cItem, cHead, cTail>>
heldVars == <<received, passed, transmitting>>
kernelVars == <<fill_ring_, tx_ring_>>
vars == <<freeVars, heldVars, kernelVars>>

\* Mutant of HasPointer: the end of the area taken for its last byte.
HasPointerShort(addr) == (addr + FrameSize) % AddressModulus < NumFrames * FrameSize

\* get_frame_ptr(addr) is not null.
HasPointer(addr) == (addr + FrameSize) % AddressModulus <= NumFrames * FrameSize

-----------------------------------------------------------------------------
\* Mutant of InitialBuffer: frame numbers instead of addresses.
InitialNumbers == [s \in 0 .. NumFrames - 1 |-> s]

\* The constructor has pushed the address of every frame.
InitialBuffer == [s \in 0 .. NumFrames - 1 |-> s * FrameSize]

Init ==
  /\ head_ = 0 /\ tail_ = NumFrames
  /\ buffer_ = InitialBuffer
  /\ pPc = "idle" /\ pItem = NoFrame /\ pTail = 0 /\ pHead = 0
  /\ cPc = "idle" /\ cItem = NoFrame /\ cHead = 0 /\ cTail = NumFrames
  /\ received = {} /\ passed = {} /\ transmitting = {}
  /\ fill_ring_ = {} /\ tx_ring_ = {}

\* alloc_frame, in the receive thread, up to the store that takes the frame.
Allocate ==
  /\ Free!PopBegin \/ Free!PopLoadTail \/ Free!PopRead
  /\ UNCHANGED <<heldVars, kernelVars>>

Allocated ==
  /\ Free!PopPublish
  /\ received' = received \cup {cItem}
  /\ passed' = {<<p[1], IF p[2] < NumFrames THEN p[2] + 1 ELSE p[2]>> : p \in passed}
  /\ UNCHANGED <<transmitting, kernelVars>>

\* The receive thread passes a frame on between two calls.
Pass(f) ==
  /\ cPc = "idle" /\ f \in received
  /\ received' = received \ {f}
  /\ passed' = passed \cup {<<f, 0>>}
  /\ UNCHANGED <<freeVars, transmitting, kernelVars>>

\* The transmit thread's view of head_ is from now on at least the giver's.
Take(f, newer) ==
  /\ pPc = "idle" /\ <<f, newer>> \in passed
  /\ passed' = passed \ {<<f, newer>>}
  /\ transmitting' = transmitting \cup {f}
  /\ pHead' = IF newer < Free!Distance(head_, pHead)
              THEN (head_ - newer) % Modulus ELSE pHead
  /\ UNCHANGED <<head_, tail_, buffer_, pPc, pItem, pTail, cPc, cItem, cHead, cTail,
                 received, kernelVars>>

\* Mutant of GivenAway: the transmit thread keeps using the frame.
GivenAwayKept(f) == transmitting

\* What the transmit thread holds when it has freed or queued f.
GivenAway(f) == transmitting \ {f}

\* free_frame, in the transmit thread; whether its push succeeds is not looked at.
FreeFrame(f) ==
  /\ f \in transmitting
  /\ Free!PushBegin(f)
  /\ transmitting' = GivenAway(f)
  /\ UNCHANGED <<received, passed, kernelVars>>

FreePush ==
  /\ Free!PushLoadHead \/ Free!PushWrite \/ Free!PushPublish
  /\ UNCHANGED <<heldVars, kernelVars>>

\* A frame given to the fill ring by the receive thread; kept when it is full.
EnqueueFillRing(f) ==
  /\ cPc = "idle" /\ f \in received
  /\ Cardinality(fill_ring_) < NumFrames
  /\ fill_ring_' = fill_ring_ \cup {f}
  /\ received' = received \ {f}
  /\ UNCHANGED <<freeVars, passed, transmitting, tx_ring_>>

\* A frame given to the transmit ring by the transmit thread.
EnqueueTxRing(f) ==
  /\ pPc = "idle" /\ f \in transmitting
  /\ Cardinality(tx_ring_) < NumFrames
  /\ tx_ring_' = tx_ring_ \cup {f}
  /\ transmitting' = GivenAway(f)
  /\ UNCHANGED <<freeVars, received, passed, fill_ring_>>

Receive == Allocate \/ Allocated

Return ==
  \/ \E f \in Frames, newer \in 0 .. NumFrames : Take(f, newer)
  \/ \E f \in Frames : FreeFrame(f)
  \/ FreePush

Next ==
  \/ Receive \/ Return
  \/ \E f \in Frames : Pass(f) \/ EnqueueFillRing(f) \/ EnqueueTxRing(f)

Spec == Init /\ [][Next]_vars

\* The receive thread keeps calling alloc_frame and passes its frames on between
\* calls; what is stored to tail_ becomes visible to it; the transmit thread
\* takes and frees.
Fairness ==
  /\ WF_vars(Receive) /\ WF_vars(Return)
  /\ SF_vars(\E f \in Frames : Pass(f))
  /\ SF_vars(cPc = "loadTail" /\ Allocate /\ cTail' = tail_)

FairSpec == Spec /\ Fairness

-----------------------------------------------------------------------------
\* Types, part of FrameConservation.
TypeOK ==
  /\ Free!TypeOK
  /\ received \subseteq Frames /\ transmitting \subseteq Frames
  /\ passed \subseteq Frames \X (0 .. NumFrames)
  /\ fill_ring_ \subseteq Frames /\ tx_ring_ \subseteq Frames

\* How many times f is in the free ring.
FreeEntries(f) ==
  Cardinality({i \in 0 .. Free!Distance(tail_, head_) - 1 :
                 buffer_[Free!Slot((head_ + i) % Modulus)] = f})

\* How many times f is passed on and not yet taken.
PassedEntries(f) == Cardinality({p \in passed : p[1] = f})

\* The other places where f is.
Holders(f) ==
  {h \in {"received", "transmitting", "freeing", "fill", "tx"} :
     \/ h = "received" /\ f \in received
     \/ h = "transmitting" /\ f \in transmitting
     \/ h = "freeing" /\ pPc # "idle" /\ pItem = f
     \/ h = "fill" /\ f \in fill_ring_
     \/ h = "tx" /\ f \in tx_ring_}

\* Zero copy needs every frame to have one owner: through allocation, passing
\* on, freeing and queueing, interleaved at the ring's atomic accesses, no frame
\* is handed out twice and none is lost, although free_frame ignores whether its
\* push finds room in what the thread has seen of the ring.  Every frame a thread
\* holds, the last of the area included, has a pointer.
FrameConservation ==
  /\ TypeOK
  /\ \A f \in Frames : FreeEntries(f) + PassedEntries(f) + Cardinality(Holders(f)) = 1
  /\ \A f \in received \cup transmitting : HasPointer(f)

\* A pool whose users return what they take never runs dry for good: once no more
\* frames go to the emulated kernel, alloc_frame succeeds again and again, however
\* old the views of the ring, unless the kernel's rings have swallowed every frame.
KeepsAllocating ==
  <>[][UNCHANGED kernelVars]_vars =>
    \/ <>[](fill_ring_ \cup tx_ring_ = Frames)
    \/ []<><<Allocated>>_vars
=============================================================================
