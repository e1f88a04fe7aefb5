--------------------------- MODULE SPSCRingProofs ---------------------------
(***************************************************************************)
(* Proofs about SPSCRing and about the counters VirtualNetDev keeps beside *)
(* it, for every capacity, every width of the index type the capacity      *)
(* divides, and every set of items.                                        *)
(***************************************************************************)
EXTENDS VirtualNetDev, SequenceTheorems, TLAPS

-----------------------------------------------------------------------------
(* Arithmetic of wrapping indices. *)

\* The index type is wider than the ring.
LEMMA ModulusBig ==
  /\ Modulus \in Nat /\ Capacity \in Nat
  /\ Capacity > 0 /\ Modulus > Capacity
<1>1. PICK k \in 2 .. Modulus : Modulus = k * Capacity
  BY RingAssumption
<1>2. Modulus >= 2 * Capacity
  BY <1>1, RingAssumption
<1> QED BY <1>2, RingAssumption

\* One conditional correction replaces the remainder near 0 .. M - 1.
LEMMA ModReduce ==
  ASSUME NEW M \in Nat \ {0}, NEW x \in Int, -M <= x, x < 2 * M
  PROVE  /\ x < 0 => x % M = x + M
         /\ 0 <= x /\ x < M => x % M = x
         /\ M <= x => x % M = x - M
  OBVIOUS

\* Common factors, stated apart from any remainder.
LEMMA Factor ==
  ASSUME NEW c \in Int, NEW a \in Int, NEW b \in Int, NEW n \in Int, NEW r \in Int
  PROVE  /\ (c * a + r) - (c * b + r) = c * (a - b)
         /\ (c * a + r) - (c * b + r) + n * c = c * (a - b + n)
  OBVIOUS

\* Distance without the remainder.
LEMMA DistanceVal ==
  ASSUME NEW t \in Index, NEW h \in Index
  PROVE  Distance(t, h) = IF t >= h THEN t - h ELSE t - h + Modulus
<1> DEFINE x == t - h
<1>1. /\ Modulus \in Nat \ {0} /\ t \in Int /\ h \in Int
      /\ x \in Int /\ -Modulus <= x /\ x < Modulus /\ x < 2 * Modulus
  BY ModulusBig DEF Index
<1>2. x % Modulus = IF x < 0 THEN x + Modulus ELSE x
  <2> HIDE DEF x
  <2>1. /\ x < 0 => x % Modulus = x + Modulus
        /\ 0 <= x /\ x < Modulus => x % Modulus = x
        /\ Modulus <= x => x % Modulus = x - Modulus
    BY <1>1, ModReduce
  <2> QED BY <1>1, <2>1
<1> QED BY <1>1, <1>2 DEF Distance

\* The remainder of an index moved forward by less than a full turn.
LEMMA ForwardVal ==
  ASSUME NEW i \in Index, NEW k \in 0 .. Modulus - 1
  PROVE  /\ (i + k) % Modulus = IF i + k < Modulus THEN i + k ELSE i + k - Modulus
         /\ (i + k) % Modulus \in Index
<1> DEFINE x == i + k
<1>1. /\ Modulus \in Nat \ {0} /\ x \in Int /\ 0 <= x /\ x < 2 * Modulus
      /\ -Modulus <= x
  BY ModulusBig DEF Index
<1>2. x % Modulus = IF x < Modulus THEN x ELSE x - Modulus
  <2> HIDE DEF x
  <2>1. /\ x < 0 => x % Modulus = x + Modulus
        /\ 0 <= x /\ x < Modulus => x % Modulus = x
        /\ Modulus <= x => x % Modulus = x - Modulus
    BY <1>1, ModReduce
  <2> QED BY <1>1, <2>1
<1> QED BY <1>1, <1>2 DEF Index

\* Advance without the remainder.
LEMMA AdvanceVal ==
  ASSUME NEW i \in Index
  PROVE  /\ Advance(i) = IF i + 1 = Modulus THEN 0 ELSE i + 1
         /\ Advance(i) \in Index
<1>1. 1 \in 0 .. Modulus - 1
  BY ModulusBig
<1>2. /\ (i + 1) % Modulus = IF i + 1 < Modulus THEN i + 1 ELSE i + 1 - Modulus
      /\ (i + 1) % Modulus \in Index
  BY <1>1, ForwardVal
<1> QED BY <1>2, ModulusBig DEF Advance, Index

\* A load returns an index at most as far on as the one last stored.
LEMMA ObservableVal ==
  ASSUME NEW seen \in Index, NEW current \in Index,
         NEW v \in Observable(seen, current)
  PROVE  v \in Index /\ Distance(v, seen) <= Distance(current, seen)
<1>1. PICK k \in 0 .. Distance(current, seen) : v = (seen + k) % Modulus
  BY DEF Observable
<1>2. Distance(current, seen) \in 0 .. Modulus - 1
  BY DistanceVal, ModulusBig DEF Index
<1>3. k \in 0 .. Modulus - 1
  BY <1>1, <1>2, ModulusBig
<1>4. /\ v = IF seen + k < Modulus THEN seen + k ELSE seen + k - Modulus
      /\ v \in Index
  BY <1>1, <1>3, ForwardVal
<1>5. Distance(v, seen) = k
  BY <1>3, <1>4, DistanceVal, ModulusBig DEF Index
<1> QED BY <1>1, <1>2, <1>4, <1>5

\* Index arithmetic in terms a linear solver can use.
LEMMA DistanceCases ==
  ASSUME NEW t \in Index, NEW h \in Index
  PROVE  /\ t \in Int /\ 0 <= t /\ t < Modulus
         /\ h \in Int /\ 0 <= h /\ h < Modulus
         /\ Distance(t, h) \in Int /\ 0 <= Distance(t, h) /\ Distance(t, h) < Modulus
         /\ t >= h => Distance(t, h) = t - h
         /\ t < h => Distance(t, h) = t - h + Modulus
<1>1. t \in Int /\ 0 <= t /\ t < Modulus /\ h \in Int /\ 0 <= h /\ h < Modulus
  BY ModulusBig DEF Index
<1>2. Distance(t, h) = IF t >= h THEN t - h ELSE t - h + Modulus
  BY DistanceVal
<1> QED BY <1>1, <1>2, ModulusBig

\* A head index loaded late overstates the depth, by no more than the last one.
LEMMA StaleHead ==
  ASSUME NEW t \in Index, NEW h0 \in Index, NEW h \in Index,
         Distance(t, h) <= Distance(t, h0),
         NEW v \in Observable(h0, h)
  PROVE  /\ v \in Index
         /\ Distance(t, h) <= Distance(t, v)
         /\ Distance(t, v) <= Distance(t, h0)
<1>1. v \in Index /\ Distance(v, h0) <= Distance(h, h0)
  BY ObservableVal
<1> DEFINE a == Distance(t, h)
           b == Distance(t, h0)
           c == Distance(t, v)
           d == Distance(v, h0)
           e == Distance(h, h0)
<1>2. /\ t >= h => a = t - h
      /\ t < h => a = t - h + Modulus
      /\ t \in Int /\ h \in Int /\ a \in Int
  BY DistanceCases
<1>3. /\ t >= h0 => b = t - h0
      /\ t < h0 => b = t - h0 + Modulus
      /\ h0 \in Int /\ b \in Int
  BY DistanceCases
<1>4. /\ t >= v => c = t - v
      /\ t < v => c = t - v + Modulus
      /\ v \in Int /\ c \in Int /\ 0 <= c
  BY <1>1, DistanceCases
<1>5. /\ v >= h0 => d = v - h0
      /\ v < h0 => d = v - h0 + Modulus
      /\ d \in Int /\ 0 <= d
  BY <1>1, DistanceCases
<1>6. /\ h >= h0 => e = h - h0
      /\ h < h0 => e = h - h0 + Modulus
      /\ e \in Int
  BY DistanceCases
<1>7. d <= e /\ a <= b /\ Modulus \in Int
      /\ t < Modulus /\ h < Modulus /\ h0 < Modulus /\ v < Modulus
      /\ 0 <= t /\ 0 <= h /\ 0 <= h0 /\ 0 <= v
  BY <1>1, DistanceCases, ModulusBig
<1> HIDE DEF a, b, c, d, e
<1>8. a <= c /\ c <= b
  BY <1>2, <1>3, <1>4, <1>5, <1>6, <1>7
<1> QED BY <1>1, <1>8 DEF a, b, c

\* A tail index loaded late understates the depth.
LEMMA StaleTail ==
  ASSUME NEW h \in Index, NEW t0 \in Index, NEW t \in Index,
         Distance(t0, h) <= Distance(t, h),
         NEW v \in Observable(t0, t)
  PROVE  v \in Index /\ Distance(v, h) <= Distance(t, h)
<1>1. v \in Index /\ Distance(v, t0) <= Distance(t, t0)
  BY ObservableVal
<1> DEFINE a == Distance(t0, h)
           b == Distance(t, h)
           c == Distance(v, h)
           d == Distance(v, t0)
           e == Distance(t, t0)
<1>2. /\ t0 >= h => a = t0 - h
      /\ t0 < h => a = t0 - h + Modulus
      /\ t0 \in Int /\ h \in Int /\ a \in Int
  BY DistanceCases
<1>3. /\ t >= h => b = t - h
      /\ t < h => b = t - h + Modulus
      /\ t \in Int /\ b \in Int
  BY DistanceCases
<1>4. /\ v >= h => c = v - h
      /\ v < h => c = v - h + Modulus
      /\ v \in Int /\ c \in Int /\ 0 <= c
  BY <1>1, DistanceCases
<1>5. /\ v >= t0 => d = v - t0
      /\ v < t0 => d = v - t0 + Modulus
      /\ d \in Int /\ 0 <= d
  BY <1>1, DistanceCases
<1>6. /\ t >= t0 => e = t - t0
      /\ t < t0 => e = t - t0 + Modulus
      /\ e \in Int
  BY DistanceCases
<1>7. d <= e /\ a <= b /\ Modulus \in Int
      /\ t < Modulus /\ h < Modulus /\ t0 < Modulus /\ v < Modulus
      /\ 0 <= t /\ 0 <= h /\ 0 <= t0 /\ 0 <= v
  BY <1>1, DistanceCases, ModulusBig
<1> HIDE DEF a, b, c, d, e
<1>8. c <= b
  BY <1>2, <1>3, <1>4, <1>5, <1>6, <1>7
<1> QED BY <1>1, <1>8 DEF b, c

\* Publishing an item makes the ring one deeper, as long as it had room.
LEMMA AdvanceTail ==
  ASSUME NEW t \in Index, NEW i \in Index, Distance(t, i) < Capacity
  PROVE  /\ Advance(t) \in Index
         /\ Distance(Advance(t), i) = Distance(t, i) + 1
<1> DEFINE n == Advance(t)
<1>1. n \in Index /\ n = IF t + 1 = Modulus THEN 0 ELSE t + 1
  BY AdvanceVal
<1> HIDE DEF n
<1>2. /\ t \in Int /\ i \in Int /\ n \in Int /\ 0 <= i /\ 0 <= t
      /\ t < Modulus /\ i < Modulus
      /\ t >= i => Distance(t, i) = t - i
      /\ t < i => Distance(t, i) = t - i + Modulus
      /\ n >= i => Distance(n, i) = n - i
      /\ n < i => Distance(n, i) = n - i + Modulus
  BY <1>1, DistanceCases
<1>3. Modulus \in Int /\ Capacity \in Int /\ Modulus > Capacity
  BY ModulusBig
<1>4. Distance(n, i) = Distance(t, i) + 1
  BY <1>1, <1>2, <1>3
<1> QED BY <1>1, <1>4 DEF n

\* Releasing a slot makes the ring one less deep, as long as it held an item.
LEMMA AdvanceHead ==
  ASSUME NEW h \in Index, NEW i \in Index, i # h
  PROVE  /\ Advance(h) \in Index
         /\ Distance(i, Advance(h)) = Distance(i, h) - 1
<1> DEFINE n == Advance(h)
<1>1. n \in Index /\ n = IF h + 1 = Modulus THEN 0 ELSE h + 1
  BY AdvanceVal
<1> HIDE DEF n
<1>2. /\ h \in Int /\ i \in Int /\ n \in Int /\ 0 <= i /\ 0 <= h
      /\ h < Modulus /\ i < Modulus
      /\ i >= h => Distance(i, h) = i - h
      /\ i < h => Distance(i, h) = i - h + Modulus
      /\ i >= n => Distance(i, n) = i - n
      /\ i < n => Distance(i, n) = i - n + Modulus
  BY <1>1, DistanceCases
<1>3. Modulus \in Int
  BY ModulusBig
<1>4. Distance(i, n) = Distance(i, h) - 1
  BY <1>1, <1>2, <1>3
<1> QED BY <1>1, <1>4 DEF n

\* Indices less than Capacity apart occupy different slots, across a wrap too,
\* because Capacity divides Modulus.
LEMMA SlotsDiffer ==
  ASSUME NEW i \in Index, NEW j \in Index,
         Distance(i, j) > 0, Distance(i, j) < Capacity
  PROVE  Slot(i) # Slot(j)
<1> SUFFICES ASSUME Slot(i) = Slot(j) PROVE FALSE
  OBVIOUS
<1>1. PICK n \in 2 .. Modulus : Modulus = n * Capacity
  BY RingAssumption
<1>2. /\ i \in Nat /\ j \in Nat /\ Capacity \in Nat \ {0} /\ n \in Nat
  BY ModulusBig, <1>1 DEF Index
<1> DEFINE qi == i \div Capacity
<1> DEFINE qj == j \div Capacity
<1> DEFINE r == Slot(i)
<1>3. /\ qi \in Int /\ qj \in Int /\ r \in Int
      /\ i = Capacity * qi + r /\ j = Capacity * qj + r
  BY <1>2 DEF Slot
<1> HIDE DEF qi, qj, r
<1>4. /\ i - j = Capacity * (qi - qj)
      /\ i - j + n * Capacity = Capacity * (qi - qj + n)
  BY <1>2, <1>3, Factor
<1>5. \E m \in Int : Distance(i, j) = Capacity * m
  <2>1. CASE i >= j
    <3>1. Distance(i, j) = i - j
      BY <2>1, DistanceVal
    <3> QED BY <3>1, <1>3, <1>4
  <2>2. CASE ~(i >= j)
    <3>1. Distance(i, j) = i - j + n * Capacity
      BY <2>2, DistanceVal, <1>1
    <3>2. qi - qj + n \in Int
      BY <1>2, <1>3
    <3> QED BY <3>1, <3>2, <1>4
  <2> QED BY <2>1, <2>2
<1>6. PICK m \in Int : Distance(i, j) = Capacity * m
  BY <1>5
<1>7. (m > 0 => Capacity * m >= Capacity) /\ (m <= 0 => Capacity * m <= 0)
  BY <1>2
<1> QED BY <1>2, <1>6, <1>7

-----------------------------------------------------------------------------
(* The invariants. *)

\* Every step keeps the types.
LEMMA TypeStep ==
  ASSUME TypeOK, [Next]_vars
  PROVE  TypeOK'
<1> USE DEF TypeOK
<1>1. ASSUME NEW v \in Items, PushBegin(v) PROVE TypeOK'
  BY <1>1 DEF PushBegin, ringVars, consumerVars
<1>2. CASE PushLoadHead
  <2>1. \A h \in Observable(pHead, head_) : h \in Index
    BY ObservableVal
  <2> QED BY <1>2, <2>1 DEF PushLoadHead, ringVars, consumerVars
<1>3. CASE PushWrite
  BY <1>3 DEF PushWrite, consumerVars
<1>4. CASE PushPublish
  BY <1>4, AdvanceVal DEF PushPublish, consumerVars
<1>5. CASE PopBegin
  BY <1>5 DEF PopBegin, ringVars, producerVars
<1>6. CASE PopLoadTail
  <2>1. \A t \in TailSeen : t \in Index
    BY ObservableVal DEF TailSeen
  <2> QED BY <1>6, <2>1 DEF PopLoadTail, ringVars, producerVars
<1>7. CASE PopRead
  <2>1. Slot(cHead) \in 0 .. Capacity - 1
    BY ModulusBig DEF Slot, Index
  <2> QED BY <1>7, <2>1 DEF PopRead, Front, ringVars, producerVars
<1>8. CASE PopPublish
  BY <1>8, AdvanceVal DEF PopPublish, producerVars
<1>9. CASE UNCHANGED vars
  BY <1>9 DEF vars, ringVars, producerVars, consumerVars
<1> QED
  BY <1>1, <1>2, <1>3, <1>4, <1>5, <1>6, <1>7, <1>8, <1>9
  DEF Next, Producer, Consumer

\* Shared state and locals keep their types (push and pop).
THEOREM TypeCorrect == Spec => []TypeOK
<1>1. Init => TypeOK
  BY ModulusBig DEF Init, TypeOK, Index
<1>2. TypeOK /\ [Next]_vars => TypeOK'
  BY TypeStep
<1> QED BY <1>1, <1>2, PTL DEF Spec

\* Every step keeps the views conservative.
LEMMA ViewsStep ==
  ASSUME TypeOK, ConservativeViews, [Next]_vars
  PROVE  ConservativeViews'
<1>a. /\ head_ \in Index /\ tail_ \in Index /\ pHead \in Index /\ cTail \in Index
      /\ pTail \in Index /\ cHead \in Index
  BY DEF TypeOK
<1>b. /\ Distance(tail_, pHead) \in Int /\ Distance(tail_, head_) \in Int
      /\ Distance(cTail, head_) \in Int /\ Capacity \in Int
      /\ 0 <= Distance(cTail, head_)
  BY <1>a, DistanceCases, ModulusBig
<1>1. ASSUME NEW v \in Items, PushBegin(v) PROVE ConservativeViews'
  BY <1>1 DEF PushBegin, ConservativeViews, ringVars, consumerVars
<1>2. CASE PushLoadHead
  <2>1. PICK h \in Observable(pHead, head_) :
          /\ pHead' = h
          /\ pPc' = IF Distance(pTail, h) >= Capacity THEN "idle" ELSE "write"
    BY <1>2 DEF PushLoadHead, LooksFull
  <2>2. /\ h \in Index
        /\ Distance(tail_, head_) <= Distance(tail_, h)
        /\ Distance(tail_, h) <= Distance(tail_, pHead)
    BY <1>a, StaleHead DEF ConservativeViews
  <2>3. Distance(tail_, h) \in Int
    BY <1>a, <2>2, DistanceCases
  <2>4. pTail = tail_
    BY <1>2 DEF PushLoadHead, ConservativeViews
  <2> QED BY <1>2, <1>b, <2>1, <2>2, <2>3, <2>4
          DEF PushLoadHead, ConservativeViews, ringVars, consumerVars
<1>3. CASE PushWrite
  BY <1>3 DEF PushWrite, ConservativeViews, consumerVars
<1>4. CASE PushPublish
  <2>1. tail_' = Advance(tail_) /\ Distance(tail_, pHead) < Capacity
    BY <1>4 DEF PushPublish, ConservativeViews
  <2>2. Distance(tail_, head_) < Capacity
    BY <1>b, <2>1 DEF ConservativeViews
  <2>3. /\ Distance(Advance(tail_), pHead) = Distance(tail_, pHead) + 1
        /\ Distance(Advance(tail_), head_) = Distance(tail_, head_) + 1
    BY <1>a, <2>1, <2>2, AdvanceTail
  <2> QED BY <1>4, <1>b, <2>1, <2>3 DEF PushPublish, ConservativeViews, consumerVars
<1>5. CASE PopBegin
  BY <1>5 DEF PopBegin, ConservativeViews, ringVars, producerVars
<1>6. CASE PopLoadTail
  <2>1. PICK t \in TailSeen :
          cTail' = t /\ cPc' = IF cHead = t THEN "idle" ELSE "read"
    BY <1>6 DEF PopLoadTail
  <2>2. t \in Index /\ Distance(t, head_) <= Distance(tail_, head_)
    BY <1>a, StaleTail DEF ConservativeViews, TailSeen
  <2>3. cHead = head_
    BY <1>6 DEF PopLoadTail, ConservativeViews
  <2> QED BY <1>6, <2>1, <2>2, <2>3 DEF PopLoadTail, ConservativeViews, ringVars, producerVars
<1>7. CASE PopRead
  BY <1>7 DEF PopRead, ConservativeViews, ringVars, producerVars
<1>8. CASE PopPublish
  <2>1. head_' = Advance(head_) /\ cTail # head_
    BY <1>8 DEF PopPublish, ConservativeViews
  <2>2. Distance(cTail, head_) > 0
    <3>1. /\ cTail >= head_ => Distance(cTail, head_) = cTail - head_
          /\ cTail < head_ => Distance(cTail, head_) = cTail - head_ + Modulus
          /\ cTail \in Int /\ head_ \in Int
          /\ 0 <= cTail /\ head_ < Modulus
      BY <1>a, DistanceCases
    <3> QED BY <2>1, <3>1, ModulusBig
  <2>3. tail_ # head_
    BY <1>a, <1>b, <2>2, DistanceCases DEF ConservativeViews
  <2>4. /\ Distance(tail_, Advance(head_)) = Distance(tail_, head_) - 1
        /\ Distance(cTail, Advance(head_)) = Distance(cTail, head_) - 1
    BY <1>a, <2>1, <2>3, AdvanceHead
  <2> QED BY <1>8, <1>b, <2>1, <2>4 DEF PopPublish, ConservativeViews, producerVars
<1>9. CASE UNCHANGED vars
  BY <1>9 DEF ConservativeViews, vars, ringVars, producerVars, consumerVars
<1> QED
  BY <1>1, <1>2, <1>3, <1>4, <1>5, <1>6, <1>7, <1>8, <1>9
  DEF Next, Producer, Consumer

\* The views the two threads decide on are conservative.
THEOREM ViewsConservative == Spec => []ConservativeViews
<1>1. Init => ConservativeViews
  <2>1. 0 \in Index
    BY ModulusBig DEF Index
  <2>2. Distance(0, 0) = 0
    BY <2>1, DistanceVal
  <2> QED BY <2>2, ModulusBig DEF Init, ConservativeViews
<1>2. TypeOK /\ ConservativeViews /\ [Next]_vars => ConservativeViews'
  BY ViewsStep
<1> QED BY <1>1, <1>2, TypeCorrect, PTL DEF Spec

\* Types and views together: what NoSlotRace follows from.
THEOREM RingInvariant == Spec => []RingInv
<1>1. TypeOK /\ ConservativeViews => RingInv
  BY DEF RingInv
<1> QED BY <1>1, TypeCorrect, ViewsConservative, PTL

\* push never copies into the slot pop is copying out of.
THEOREM NoRace == Spec => []NoSlotRace
<1>1. RingInv => NoSlotRace
  <2> SUFFICES ASSUME RingInv, pPc = "write", cPc = "read"
               PROVE  Slot(pTail) # Slot(cHead)
    BY DEF NoSlotRace
  <2>1. /\ tail_ \in Index /\ head_ \in Index /\ pHead \in Index /\ cTail \in Index
        /\ pTail = tail_ /\ cHead = head_
    BY DEF TypeOK, RingInv, ConservativeViews
  <2>a. Distance(tail_, head_) \in Nat
    BY <2>1, DistanceVal, ModulusBig DEF Index
  <2>2. Distance(tail_, head_) < Capacity
    <3>1. Distance(tail_, head_) <= Distance(tail_, pHead) /\ Distance(tail_, pHead) < Capacity
      BY DEF RingInv, ConservativeViews
    <3>2. Distance(tail_, pHead) \in Nat
      BY <2>1, DistanceVal, ModulusBig DEF Index
    <3> QED BY <2>a, <3>1, <3>2, ModulusBig
  <2>3. Distance(tail_, head_) > 0
    <3>1. Distance(cTail, head_) <= Distance(tail_, head_) /\ cTail # head_
      BY DEF RingInv, ConservativeViews
    <3>2. Distance(cTail, head_) \in Nat /\ Distance(cTail, head_) # 0
      BY <2>1, <3>1, DistanceVal, ModulusBig DEF Index
    <3> QED BY <2>a, <3>1, <3>2
  <2> QED BY <2>1, <2>2, <2>3, SlotsDiffer
<1> QED BY <1>1, RingInvariant, PTL

-----------------------------------------------------------------------------
(* The ring implements BoundedFifo. *)

\* The window from h to t: its k-th index is that much nearer to t, and the index
\* after the last is t.
LEMMA Window ==
  ASSUME NEW t \in Index, NEW h \in Index, NEW k \in 0 .. Distance(t, h)
  PROVE  /\ (h + k) % Modulus \in Index
         /\ Distance(t, (h + k) % Modulus) = Distance(t, h) - k
         /\ k = Distance(t, h) => (h + k) % Modulus = t
         /\ k = 0 => (h + k) % Modulus = h
<1> DEFINE p == (h + k) % Modulus
<1> DEFINE d == Distance(t, h)
<1>1. /\ t \in Int /\ h \in Int /\ 0 <= t /\ 0 <= h /\ t < Modulus /\ h < Modulus
      /\ d \in Int /\ 0 <= d /\ d < Modulus /\ Modulus \in Int
      /\ t >= h => d = t - h
      /\ t < h => d = t - h + Modulus
  BY DistanceCases, ModulusBig
<1>2. k \in 0 .. Modulus - 1 /\ k \in Int /\ 0 <= k /\ k <= d
  BY <1>1
<1>3. p \in Index /\ p = IF h + k < Modulus THEN h + k ELSE h + k - Modulus
  BY <1>2, ForwardVal
<1> HIDE DEF p
<1>4. /\ p >= 0 /\ p < Modulus /\ p \in Int
      /\ t >= p => Distance(t, p) = t - p
      /\ t < p => Distance(t, p) = t - p + Modulus
  BY <1>3, DistanceCases
<1> HIDE DEF d
<1>5. /\ Distance(t, p) = d - k
      /\ k = d => p = t
      /\ k = 0 => p = h
  BY <1>1, <1>2, <1>3, <1>4
<1> QED BY <1>3, <1>5 DEF p, d

\* A head index further on sees the end of the window an older one sees.
LEMMA WindowSuffix ==
  ASSUME NEW t \in Index, NEW h0 \in Index, NEW h \in Index,
         Distance(t, h) <= Distance(t, h0)
  PROVE  /\ Distance(h, h0) = Distance(t, h0) - Distance(t, h)
         /\ \A k \in 0 .. Distance(t, h) :
              (h + k) % Modulus = (h0 + (Distance(h, h0) + k)) % Modulus
<1> DEFINE a == Distance(t, h)
           b == Distance(t, h0)
           e == Distance(h, h0)
<1>1. /\ t >= h => a = t - h
      /\ t < h => a = t - h + Modulus
      /\ t \in Int /\ h \in Int /\ a \in Int /\ 0 <= a
  BY DistanceCases
<1>2. /\ t >= h0 => b = t - h0
      /\ t < h0 => b = t - h0 + Modulus
      /\ h0 \in Int /\ b \in Int /\ b < Modulus
  BY DistanceCases
<1>3. /\ h >= h0 => e = h - h0
      /\ h < h0 => e = h - h0 + Modulus
      /\ e \in Int /\ 0 <= e
  BY DistanceCases
<1>4. /\ t < Modulus /\ h < Modulus /\ h0 < Modulus /\ Modulus \in Int
      /\ 0 <= t /\ 0 <= h /\ 0 <= h0 /\ a <= b
  BY DistanceCases, ModulusBig
<1>5. ASSUME NEW k \in 0 .. a
      PROVE  /\ e = b - a
             /\ k \in 0 .. Modulus - 1 /\ e + k \in 0 .. Modulus - 1
             /\ (IF h + k < Modulus THEN h + k ELSE h + k - Modulus)
                  = (IF h0 + (e + k) < Modulus THEN h0 + (e + k) ELSE h0 + (e + k) - Modulus)
  <2> HIDE DEF a, b, e
  <2>1. k \in Int /\ 0 <= k /\ k <= a
    BY <1>1
  <2>2. e = b - a
    BY <1>1, <1>2, <1>3, <1>4
  <2> QED BY <2>1, <2>2, <1>1, <1>2, <1>3, <1>4
<1>6. ASSUME NEW k \in 0 .. a
      PROVE  (h + k) % Modulus = (h0 + (e + k)) % Modulus
  <2> DEFINE m == e + k
  <2>1. k \in 0 .. Modulus - 1 /\ m \in 0 .. Modulus - 1
    BY <1>5
  <2>2. (h + k) % Modulus = IF h + k < Modulus THEN h + k ELSE h + k - Modulus
    BY <2>1, ForwardVal
  <2> HIDE DEF m
  <2>3. (h0 + m) % Modulus = IF h0 + m < Modulus THEN h0 + m ELSE h0 + m - Modulus
    BY <2>1, ForwardVal
  <2> QED BY <1>5, <2>2, <2>3 DEF m
<1>7. 0 \in 0 .. a
  BY <1>1
<1>8. e = b - a
  BY <1>5, <1>7
<1> QED BY <1>6, <1>8

\* Releasing the first position shifts the window by one.
LEMMA WindowShift ==
  ASSUME NEW t \in Index, NEW h \in Index, NEW k \in 0 .. Distance(t, h) - 1
  PROVE  (Advance(h) + k) % Modulus = (h + (k + 1)) % Modulus
<1> DEFINE n == Advance(h)
<1>1. /\ h \in Int /\ 0 <= h /\ h < Modulus
      /\ Distance(t, h) \in Int /\ Distance(t, h) < Modulus
  BY DistanceCases
<1>2. k \in 0 .. Modulus - 1 /\ k + 1 \in 0 .. Modulus - 1
  BY <1>1, ModulusBig
<1>3. n \in Index /\ n = IF h + 1 = Modulus THEN 0 ELSE h + 1
  BY AdvanceVal
<1> HIDE DEF n
<1>4. (n + k) % Modulus = IF n + k < Modulus THEN n + k ELSE n + k - Modulus
  BY <1>2, <1>3, ForwardVal
<1>5. (h + (k + 1)) % Modulus
        = IF h + (k + 1) < Modulus THEN h + (k + 1) ELSE h + (k + 1) - Modulus
  BY <1>2, ForwardVal
<1>6. (n + k) % Modulus = (h + (k + 1)) % Modulus
  BY <1>1, <1>2, <1>3, <1>4, <1>5, ModulusBig
<1> QED BY <1>6 DEF n

\* Indices stay in the buffer.
LEMMA SlotInBuffer ==
  ASSUME NEW i \in Index
  PROVE  Slot(i) \in 0 .. Capacity - 1
BY ModulusBig DEF Slot, Index

\* A function on 1 .. n is a sequence of that length.
LEMMA FunctionIsSeq ==
  ASSUME NEW n \in Nat, NEW S, NEW q \in [1 .. n -> S]
  PROVE  q \in Seq(S) /\ Len(q) = n
<1>1. q \in Seq(S)
  BY SeqDef
<1>2. Len(q) \in Nat /\ DOMAIN q = 1 .. Len(q)
  BY <1>1, LenProperties
<1>3. 1 .. n = 1 .. Len(q)
  BY <1>2
<1> QED BY <1>1, <1>2, <1>3

\* What the slots hold: an item in every slot of the queue, and in those the two
\* threads have just copied to and from the items they believe are there.
ContentsInv ==
  /\ Queued \in [1 .. Distance(tail_, head_) -> Items]
  /\ pPc # "idle" => pItem \in Items
  /\ pPc = "publish" => buffer_[Slot(tail_)] = pItem
  /\ cPc = "publish" => cItem = Front(head_)

\* The facts about a state that every step below starts from.
LEMMA RingFacts ==
  ASSUME RingInv
  PROVE  /\ tail_ \in Index /\ head_ \in Index /\ pHead \in Index
         /\ Distance(tail_, head_) \in Nat
         /\ Distance(tail_, head_) <= Capacity
         /\ pPc # "idle" => pTail = tail_
         /\ pPc \in {"write", "publish"} => Distance(tail_, head_) < Capacity
         /\ cPc # "idle" => cHead = head_
         /\ cPc \in {"read", "publish"} => Distance(tail_, head_) > 0
<1>1. /\ tail_ \in Index /\ head_ \in Index /\ cTail \in Index /\ pHead \in Index
  BY DEF RingInv, TypeOK
<1>2. /\ Distance(tail_, head_) \in Nat /\ Distance(tail_, pHead) \in Nat
      /\ Capacity \in Nat
  BY <1>1, DistanceCases, ModulusBig
<1>3. cTail # head_ => Distance(cTail, head_) > 0
  BY <1>1, DistanceVal, ModulusBig DEF Index
<1>4. Distance(cTail, head_) \in Nat
  BY <1>1, DistanceCases
<1> QED BY <1>1, <1>2, <1>3, <1>4 DEF RingInv, ConservativeViews

\* The queue by positions counted from 0, and its front.
LEMMA QueuedAt ==
  ASSUME RingInv, ContentsInv
  PROVE  /\ \A k \in 0 .. Distance(tail_, head_) - 1 :
              /\ Queued[k + 1] = buffer_[Slot((head_ + k) % Modulus)]
              /\ Queued[k + 1] \in Items
         /\ Distance(tail_, head_) > 0 => Front(head_) = Queued[1]
         /\ Queued \in Seq(Items) /\ Len(Queued) = Distance(tail_, head_)
<1>1. Distance(tail_, head_) \in Nat /\ tail_ \in Index /\ head_ \in Index
  BY RingFacts
<1>2. ASSUME NEW k \in 0 .. Distance(tail_, head_) - 1
      PROVE  /\ Queued[k + 1] = buffer_[Slot((head_ + k) % Modulus)]
             /\ Queued[k + 1] \in Items
  <2>1. k + 1 \in 1 .. Distance(tail_, head_) /\ head_ + (k + 1) - 1 = head_ + k
    BY <1>1 DEF Index
  <2>2. Queued[k + 1] = buffer_[Slot((head_ + (k + 1) - 1) % Modulus)]
    BY <2>1 DEF Queued
  <2> QED BY <2>1, <2>2 DEF ContentsInv
<1>3. ASSUME Distance(tail_, head_) > 0 PROVE Front(head_) = Queued[1]
  <2>1. 0 \in 0 .. Distance(tail_, head_) - 1 /\ 0 \in 0 .. Distance(tail_, head_)
    BY <1>1, <1>3
  <2>2. (head_ + 0) % Modulus = head_
    BY <1>1, <2>1, Window
  <2> QED BY <1>2, <2>1, <2>2 DEF Front
<1>4. Queued \in Seq(Items) /\ Len(Queued) = Distance(tail_, head_)
  BY <1>1, FunctionIsSeq DEF ContentsInv
<1> QED BY <1>2, <1>3, <1>4

\* A step that leaves the shared state alone leaves the queue alone.
LEMMA QueueUnchanged ==
  ASSUME UNCHANGED ringVars
  PROVE  /\ Queued' = Queued
         /\ Distance(tail_', head_') = Distance(tail_, head_)
BY DEF ringVars, Queued, Distance, Slot

\* push fills a slot that is outside the queue.
LEMMA WriteOutside ==
  ASSUME RingInv, ContentsInv, PushWrite
  PROVE  /\ Queued' = Queued
         /\ buffer_'[Slot(tail_)] = pItem
         /\ cPc = "publish" => buffer_'[Slot(head_)] = buffer_[Slot(head_)]
<1> DEFINE d == Distance(tail_, head_)
<1>1. /\ tail_ \in Index /\ head_ \in Index /\ d \in Nat /\ d < Capacity
      /\ cPc = "publish" => d > 0
      /\ Capacity \in Nat
  BY RingFacts, ModulusBig DEF PushWrite
<1>2. /\ buffer_' = [buffer_ EXCEPT ![Slot(tail_)] = pItem]
      /\ tail_' = tail_ /\ head_' = head_
      /\ DOMAIN buffer_ = 0 .. Capacity - 1
  BY RingFacts DEF PushWrite, RingInv, TypeOK
<1>3. Slot(tail_) \in 0 .. Capacity - 1
  BY <1>1, SlotInBuffer
<1>4. ASSUME NEW k \in 0 .. d - 1
      PROVE  buffer_'[Slot((head_ + k) % Modulus)] = buffer_[Slot((head_ + k) % Modulus)]
  <2> DEFINE p == (head_ + k) % Modulus
  <2>1. k \in 0 .. d /\ k \in Int
    BY <1>1
  <2>2. p \in Index /\ Distance(tail_, p) = d - k
    BY <1>1, <2>1, Window
  <2>3. Distance(tail_, p) > 0 /\ Distance(tail_, p) < Capacity
    BY <1>1, <2>1, <2>2
  <2> HIDE DEF p
  <2>4. Slot(tail_) # Slot(p) /\ Slot(p) \in 0 .. Capacity - 1
    BY <1>1, <2>2, <2>3, SlotsDiffer, SlotInBuffer
  <2>5. buffer_'[Slot(p)] = buffer_[Slot(p)]
    BY <1>2, <2>4
  <2> QED BY <2>5 DEF p
<1>5. Queued' = Queued
  <2>1. ASSUME NEW i \in 1 .. d
        PROVE  buffer_'[Slot((head_ + i - 1) % Modulus)] = buffer_[Slot((head_ + i - 1) % Modulus)]
    <3>1. i - 1 \in 0 .. d - 1 /\ head_ + (i - 1) = head_ + i - 1
      BY <1>1 DEF Index
    <3>2. buffer_'[Slot((head_ + (i - 1)) % Modulus)] = buffer_[Slot((head_ + (i - 1)) % Modulus)]
      BY <1>4, <3>1
    <3> QED BY <3>1, <3>2
  <2>2. Queued' = [i \in 1 .. d |-> buffer_'[Slot((head_ + i - 1) % Modulus)]]
    BY <1>2 DEF Queued, Slot, Distance
  <2> HIDE DEF d
  <2>3. Queued = [i \in 1 .. d |-> buffer_[Slot((head_ + i - 1) % Modulus)]]
    BY DEF Queued, d
  <2> QED BY <2>1, <2>2, <2>3
<1>6. buffer_'[Slot(tail_)] = pItem
  BY <1>2, <1>3
<1>7. ASSUME cPc = "publish" PROVE buffer_'[Slot(head_)] = buffer_[Slot(head_)]
  <2>1. 0 \in 0 .. d - 1 /\ 0 \in 0 .. d
    BY <1>1, <1>7
  <2>2. (head_ + 0) % Modulus = head_
    BY <1>1, <2>1, Window
  <2> QED BY <1>4, <2>1, <2>2
<1> QED BY <1>5, <1>6, <1>7

\* The store of tail_ puts the item at the end of the queue.
LEMMA PublishAppends ==
  ASSUME RingInv, ContentsInv, PushPublish
  PROVE  /\ Queued' = Append(Queued, pItem)
         /\ Queued' \in [1 .. Distance(tail_', head_') -> Items]
<1> DEFINE d == Distance(tail_, head_)
<1>1. /\ tail_ \in Index /\ head_ \in Index /\ d \in Nat /\ d < Capacity
      /\ tail_' = Advance(tail_) /\ head_' = head_ /\ buffer_' = buffer_
      /\ pItem \in Items /\ buffer_[Slot(tail_)] = pItem
  BY RingFacts DEF PushPublish, ContentsInv
<1>2. Distance(tail_', head_') = d + 1
  BY <1>1, AdvanceTail
<1>3. Queued' = [i \in 1 .. d + 1 |-> buffer_[Slot((head_ + i - 1) % Modulus)]]
  BY <1>1, <1>2 DEF Queued, Slot
<1>4. ASSUME NEW i \in 1 .. d + 1
      PROVE  Queued'[i] = IF i = d + 1 THEN pItem ELSE Queued[i]
  <2>1. CASE i = d + 1
    <3>1. d \in 0 .. d /\ head_ + i - 1 = head_ + d
      BY <1>1, <2>1 DEF Index
    <3>2. (head_ + d) % Modulus = tail_
      BY <1>1, <3>1, Window
    <3> QED BY <1>1, <1>3, <2>1, <3>1, <3>2
  <2>2. CASE i # d + 1
    <3>1. i \in 1 .. d
      BY <1>1, <2>2
    <3>2. Queued[i] = buffer_[Slot((head_ + i - 1) % Modulus)]
      BY <3>1 DEF Queued
    <3> QED BY <1>3, <2>2, <3>2
  <2> QED BY <2>1, <2>2
<1>5. Queued \in [1 .. d -> Items] /\ Queued \in Seq(Items) /\ Len(Queued) = d
  BY QueuedAt DEF ContentsInv
<1> HIDE DEF d
<1>6. Queued' \in [1 .. d + 1 -> Items]
  <2>1. \A i \in 1 .. d + 1 : Queued'[i] \in Items
    <3> TAKE i \in 1 .. d + 1
    <3>1. i # d + 1 => i \in 1 .. d
      BY <1>1
    <3> QED BY <1>1, <1>4, <1>5, <3>1
  <2> QED BY <1>3, <2>1
<1>7. Queued' \in Seq(Items) /\ Len(Queued') = d + 1
  BY <1>1, <1>6, FunctionIsSeq
<1>8. /\ Append(Queued, pItem) \in Seq(Items)
      /\ Len(Append(Queued, pItem)) = d + 1
      /\ \A i \in 1 .. d : Append(Queued, pItem)[i] = Queued[i]
      /\ Append(Queued, pItem)[d + 1] = pItem
  BY <1>1, <1>5, AppendProperties
<1>9. \A i \in 1 .. Len(Queued') : Queued'[i] = Append(Queued, pItem)[i]
  BY <1>1, <1>4, <1>7, <1>8
<1>10. Queued' = Append(Queued, pItem)
  BY <1>7, <1>8, <1>9, SeqEqual
<1> QED BY <1>2, <1>6, <1>10

\* The store of head_ takes the front item off the queue.
LEMMA PublishReleases ==
  ASSUME RingInv, ContentsInv, PopPublish
  PROVE  /\ Queued' = Tail(Queued)
         /\ Queued' \in [1 .. Distance(tail_', head_') -> Items]
<1> DEFINE d == Distance(tail_, head_)
<1>1. /\ tail_ \in Index /\ head_ \in Index /\ d \in Nat /\ d > 0
      /\ head_' = Advance(head_) /\ tail_' = tail_ /\ buffer_' = buffer_
  BY RingFacts DEF PopPublish
<1>2. tail_ # head_
  BY <1>1, DistanceVal, ModulusBig DEF Index
<1>3. Distance(tail_', head_') = d - 1
  BY <1>1, <1>2, AdvanceHead
<1>4. Queued' = [i \in 1 .. d - 1 |-> buffer_[Slot((Advance(head_) + i - 1) % Modulus)]]
  BY <1>1, <1>3 DEF Queued, Slot
<1>5. ASSUME NEW i \in 1 .. d - 1
      PROVE  Queued'[i] = Queued[i + 1]
  <2>1. /\ i - 1 \in 0 .. d - 1 /\ i - 1 \in Int /\ i \in 0 .. d - 1 /\ (i - 1) + 1 = i
        /\ i + 1 \in 1 .. d /\ Advance(head_) \in Int
        /\ Advance(head_) + i - 1 = Advance(head_) + (i - 1)
        /\ head_ + (i + 1) - 1 = head_ + i
    BY <1>1, AdvanceVal DEF Index
  <2>2. (Advance(head_) + (i - 1)) % Modulus = (head_ + ((i - 1) + 1)) % Modulus
    BY <1>1, <2>1, WindowShift
  <2>3. Queued[i + 1] = buffer_[Slot((head_ + (i + 1) - 1) % Modulus)]
    BY <2>1 DEF Queued
  <2> QED BY <1>4, <2>1, <2>2, <2>3
<1>6. Queued \in [1 .. d -> Items] /\ Queued \in Seq(Items) /\ Len(Queued) = d
  BY QueuedAt DEF ContentsInv
<1> HIDE DEF d
<1>7. Queued' \in [1 .. d - 1 -> Items]
  <2>1. \A i \in 1 .. d - 1 : Queued'[i] \in Items
    <3> TAKE i \in 1 .. d - 1
    <3>1. i + 1 \in 1 .. d
      BY <1>1
    <3> QED BY <1>5, <1>6, <3>1
  <2> QED BY <1>4, <2>1
<1>8. Queued' \in Seq(Items) /\ Len(Queued') = d - 1
  BY <1>1, <1>7, FunctionIsSeq
<1>9. Queued # << >>
  BY <1>1, <1>6, EmptySeq
<1>10. /\ Tail(Queued) \in Seq(Items)
       /\ Len(Tail(Queued)) = d - 1
       /\ \A i \in 1 .. d - 1 : Tail(Queued)[i] = Queued[i + 1]
  BY <1>6, <1>9, HeadTailProperties
<1>11. \A i \in 1 .. Len(Queued') : Queued'[i] = Tail(Queued)[i]
  BY <1>5, <1>8, <1>10
<1>12. Queued' = Tail(Queued)
  BY <1>8, <1>10, <1>11, SeqEqual
<1> QED BY <1>3, <1>7, <1>12

\* The contents of the slots are preserved, and every step of the ring is one of
\* the queue or leaves it as it is.
LEMMA FifoStep ==
  ASSUME RingInv, ContentsInv, [Next]_vars
  PROVE  ContentsInv' /\ [Fifo!Next]_(Fifo!vars)
<1> DEFINE offered == IF pPc = "idle" THEN NoItem ELSE pItem
           fetched == IF cPc = "publish" THEN cItem ELSE NoItem
<1>a. /\ tail_ \in Index /\ head_ \in Index
      /\ Distance(tail_, head_) \in Nat /\ Distance(tail_, head_) <= Capacity
      /\ Queued \in [1 .. Distance(tail_, head_) -> Items]
      /\ Queued \in Seq(Items) /\ Len(Queued) = Distance(tail_, head_)
      /\ NoItem \notin Items
  BY RingFacts, QueuedAt, RingAssumption DEF ContentsInv
<1>1. ASSUME NEW v \in Items, PushBegin(v) PROVE ContentsInv' /\ Fifo!Offer(v)
  <2>1. Queued' = Queued /\ Distance(tail_', head_') = Distance(tail_, head_)
    BY <1>1, QueueUnchanged DEF PushBegin
  <2>2. offered = NoItem /\ offered' = v /\ fetched' = fetched
    BY <1>1 DEF PushBegin, consumerVars
  <2>3. ContentsInv'
    BY <1>1, <1>a, <2>1 DEF PushBegin, ContentsInv, consumerVars, ringVars, Front
  <2> QED BY <2>1, <2>2, <2>3 DEF Fifo!Offer
<1>2. ASSUME PushLoadHead PROVE ContentsInv' /\ (Fifo!Refuse \/ UNCHANGED Fifo!vars)
  <2>1. Queued' = Queued /\ Distance(tail_', head_') = Distance(tail_, head_)
    BY <1>2, QueueUnchanged DEF PushLoadHead
  <2>2. /\ pPc = "loadHead" /\ pItem \in Items /\ pItem' = pItem
        /\ pPc' \in {"idle", "write"} /\ fetched' = fetched
    BY <1>2 DEF PushLoadHead, ContentsInv, consumerVars
  <2>3. ContentsInv'
    BY <1>2, <1>a, <2>1, <2>2 DEF PushLoadHead, ContentsInv, consumerVars, ringVars, Front
  <2>4. CASE pPc' = "idle"
    <3>1. offered # NoItem /\ offered' = NoItem
      BY <1>a, <2>2, <2>4
    <3> QED BY <2>1, <2>2, <2>3, <3>1 DEF Fifo!Refuse
  <2>5. CASE pPc' = "write"
    <3>1. offered' = offered
      BY <2>2, <2>5
    <3> QED BY <2>1, <2>2, <2>3, <3>1 DEF Fifo!vars
  <2> QED BY <2>2, <2>4, <2>5
<1>3. ASSUME PushWrite PROVE ContentsInv' /\ UNCHANGED Fifo!vars
  <2>1. /\ Queued' = Queued /\ buffer_'[Slot(tail_)] = pItem
        /\ cPc = "publish" => buffer_'[Slot(head_)] = buffer_[Slot(head_)]
    BY <1>3, WriteOutside
  <2>2. /\ tail_' = tail_ /\ head_' = head_ /\ pItem' = pItem /\ pPc = "write"
        /\ pPc' = "publish" /\ cPc' = cPc /\ cItem' = cItem
    BY <1>3 DEF PushWrite, consumerVars
  <2>3. Slot(tail_)' = Slot(tail_) /\ Front(head_)' = buffer_'[Slot(head_)]
        /\ Distance(tail_', head_') = Distance(tail_, head_)
    BY <2>2 DEF Slot, Front
  <2>4. ContentsInv'
    BY <1>a, <2>1, <2>2, <2>3 DEF ContentsInv, Front
  <2>5. offered' = offered /\ fetched' = fetched
    BY <2>2
  <2> QED BY <2>1, <2>4, <2>5 DEF Fifo!vars
<1>4. ASSUME PushPublish PROVE ContentsInv' /\ Fifo!Accept
  <2>1. /\ Queued' = Append(Queued, pItem)
        /\ Queued' \in [1 .. Distance(tail_', head_') -> Items]
    BY <1>4, PublishAppends
  <2>2. /\ pPc = "publish" /\ pPc' = "idle" /\ cPc' = cPc /\ cItem' = cItem
        /\ head_' = head_ /\ buffer_' = buffer_ /\ pItem \in Items
        /\ Distance(tail_, head_) < Capacity
    BY <1>4, RingFacts DEF PushPublish, consumerVars, ContentsInv
  <2>3. ContentsInv'
    BY <2>1, <2>2 DEF ContentsInv, Front, Slot
  <2>4. offered = pItem /\ offered # NoItem /\ offered' = NoItem /\ fetched' = fetched
    BY <1>a, <2>2
  <2> QED BY <1>a, <2>1, <2>2, <2>3, <2>4 DEF Fifo!Accept
<1>5. ASSUME PopBegin PROVE ContentsInv' /\ UNCHANGED Fifo!vars
  <2>1. Queued' = Queued /\ Distance(tail_', head_') = Distance(tail_, head_)
    BY <1>5, QueueUnchanged DEF PopBegin
  <2>2. offered' = offered /\ fetched' = fetched
    BY <1>5 DEF PopBegin, producerVars
  <2>3. ContentsInv'
    BY <1>5, <1>a, <2>1 DEF PopBegin, ContentsInv, producerVars, ringVars
  <2> QED BY <2>1, <2>2, <2>3 DEF Fifo!vars
<1>6. ASSUME PopLoadTail PROVE ContentsInv' /\ UNCHANGED Fifo!vars
  <2>1. Queued' = Queued /\ Distance(tail_', head_') = Distance(tail_, head_)
    BY <1>6, QueueUnchanged DEF PopLoadTail
  <2>2. cPc = "loadTail" /\ cPc' \in {"idle", "read"}
    BY <1>6 DEF PopLoadTail
  <2>3. offered' = offered /\ fetched' = fetched
    BY <1>6, <2>2 DEF PopLoadTail, producerVars
  <2>4. ContentsInv'
    BY <1>6, <1>a, <2>1, <2>2 DEF PopLoadTail, ContentsInv, producerVars, ringVars
  <2> QED BY <2>1, <2>3, <2>4 DEF Fifo!vars
<1>7. ASSUME PopRead PROVE ContentsInv' /\ Fifo!Fetch
  <2>1. Queued' = Queued /\ Distance(tail_', head_') = Distance(tail_, head_)
    BY <1>7, QueueUnchanged DEF PopRead
  <2>2. /\ cPc = "read" /\ cPc' = "publish" /\ cItem' = Front(head_)
        /\ Distance(tail_, head_) > 0 /\ offered' = offered
        /\ head_' = head_ /\ buffer_' = buffer_
    BY <1>7, RingFacts DEF PopRead, producerVars, ringVars
  <2>3. Front(head_) = Queued[1] /\ Queued # << >>
    BY <1>a, <2>2, QueuedAt, EmptySeq
  <2>4. Head(Queued) = Queued[1]
    OBVIOUS
  <2>5. fetched = NoItem /\ fetched' = Head(Queued)
    BY <2>2, <2>3, <2>4
  <2>6. ContentsInv'
    BY <1>7, <1>a, <2>1, <2>2 DEF PopRead, ContentsInv, producerVars, ringVars, Front
  <2> QED BY <2>1, <2>2, <2>3, <2>5, <2>6 DEF Fifo!Fetch
<1>8. ASSUME PopPublish PROVE ContentsInv' /\ Fifo!Release
  <2>1. /\ Queued' = Tail(Queued)
        /\ Queued' \in [1 .. Distance(tail_', head_') -> Items]
    BY <1>8, PublishReleases
  <2>2. /\ cPc = "publish" /\ cPc' = "idle" /\ offered' = offered
        /\ cItem = Front(head_) /\ Distance(tail_, head_) > 0
        /\ tail_' = tail_ /\ buffer_' = buffer_ /\ pItem' = pItem /\ pPc' = pPc
    BY <1>8, RingFacts DEF PopPublish, producerVars, ContentsInv
  <2>3. ContentsInv'
    BY <2>1, <2>2 DEF ContentsInv, Slot
  <2>4. cItem \in Items
    <3>1. 1 \in 1 .. Distance(tail_, head_) /\ Front(head_) = Queued[1]
      BY <1>a, <2>2, QueuedAt
    <3> QED BY <1>a, <2>2, <3>1
  <2>5. fetched # NoItem /\ fetched' = NoItem
    BY <1>a, <2>2, <2>4
  <2> QED BY <2>1, <2>2, <2>3, <2>5 DEF Fifo!Release
<1>9. ASSUME UNCHANGED vars PROVE ContentsInv' /\ UNCHANGED Fifo!vars
  <2>1. Queued' = Queued /\ Distance(tail_', head_') = Distance(tail_, head_)
    BY <1>9, QueueUnchanged DEF vars
  <2>2. offered' = offered /\ fetched' = fetched
    BY <1>9 DEF vars, producerVars, consumerVars
  <2>3. ContentsInv'
    BY <1>9, <1>a, <2>1 DEF ContentsInv, vars, ringVars, producerVars, consumerVars, Front
  <2> QED BY <2>1, <2>2, <2>3 DEF Fifo!vars
<1> QED
  BY <1>1, <1>2, <1>3, <1>4, <1>5, <1>6, <1>7, <1>8, <1>9
  DEF Next, Producer, Consumer, Fifo!Next

\* The ring starts as an empty queue.
LEMMA FifoInit == Init => ContentsInv /\ Fifo!Init
<1> SUFFICES ASSUME Init PROVE ContentsInv /\ Fifo!Init
  OBVIOUS
<1>1. 0 \in Index
  BY ModulusBig DEF Index
<1>2. Distance(tail_, head_) = 0
  BY <1>1, DistanceVal DEF Init
<1>3. Queued \in [1 .. 0 -> Items]
  BY <1>2 DEF Queued
<1>4. Queued \in Seq(Items) /\ Len(Queued) = 0
  BY <1>3, FunctionIsSeq
<1>5. Queued = << >>
  BY <1>4, EmptySeq
<1> QED BY <1>2, <1>3, <1>5 DEF Init, ContentsInv, Fifo!Init

\* What push accepts, pop delivers once, in order and unchanged, whatever old
\* values of the indices the two threads see: the ring implements BoundedFifo.
THEOREM RingIsFifo == Spec => ImplementsFifo
<1>1. ContentsInv /\ RingInv /\ [Next]_vars => ContentsInv' /\ [Fifo!Next]_(Fifo!vars)
  BY FifoStep
<1> QED BY <1>1, FifoInit, RingInvariant, PTL DEF Spec, ImplementsFifo, Fifo!Spec

\* size(), called at either end, never promises more than the end can rely on.
THEOREM DepthIsConservative == Spec => []DepthReadings
<1>1. RingInv => DepthReadings
  <2> SUFFICES ASSUME RingInv PROVE DepthReadings
    OBVIOUS
  <2>1. /\ tail_ \in Index /\ head_ \in Index /\ cTail \in Index /\ pHead \in Index
        /\ Capacity \in Nat
    BY ModulusBig DEF RingInv, TypeOK
  <2>2. ASSUME NEW t \in TailSeen PROVE Size(t, head_) <= Distance(tail_, head_)
    <3>1. t \in Index /\ Distance(t, head_) <= Distance(tail_, head_)
      BY <2>1, StaleTail DEF RingInv, ConservativeViews, TailSeen
    <3> QED BY <2>1, <3>1, DistanceVal, ModulusBig DEF Size, Index
  <2>3. ASSUME NEW h \in Observable(pHead, head_) PROVE Size(tail_, h) <= Capacity
    <3>1. h \in Index /\ Distance(tail_, h) <= Distance(tail_, pHead)
      BY <2>1, StaleHead DEF RingInv, ConservativeViews
    <3>2. Distance(tail_, pHead) <= Capacity /\ Distance(tail_, pHead) \in Int
      BY <2>1, DistanceCases DEF RingInv, ConservativeViews
    <3> QED BY <2>1, <3>1, <3>2, DistanceVal, ModulusBig DEF Size, Index
  <2> QED BY <2>2, <2>3 DEF DepthReadings
<1> QED BY <1>1, RingInvariant, PTL

-----------------------------------------------------------------------------
(* The counters of the virtual network device. *)

\* The device uses its ring as the ring may be used.
THEOREM DeviceUsesRing == DeviceSpec => Spec
<1>1. DeviceInit => Init
  BY DEF DeviceInit
<1>2. [DeviceNext]_deviceVars => [Next]_vars
  BY DEF DeviceNext, EnqueueRx, Count, DequeueRx, deviceVars, Next
<1> QED BY <1>1, <1>2, PTL DEF DeviceSpec, Spec

\* enqueue_rx counts between two calls of push, and what it has counted is what
\* has entered the ring, but for the packet it is about to count.
CountInv ==
  /\ packets_ \in Index /\ drops_ \in Index
  /\ pushed \in {"none", "yes", "no"}
  /\ pushed # "none" => pPc = "idle"
  /\ packets_ = IF pushed = "yes" THEN (tail_ - 1) % Modulus ELSE tail_

\* Counting one more.
LEMMA OneMore ==
  ASSUME NEW i \in Index
  PROVE  /\ Advance(i) \in Index /\ Advance(i) # i
         /\ (Advance(i) - 1) % Modulus = i
         /\ Distance(Advance(i), i) = 1
         /\ Distance(i, i) = 0
<1> DEFINE n == Advance(i)
<1>1. n \in Index /\ n = IF i + 1 = Modulus THEN 0 ELSE i + 1
  BY AdvanceVal
<1>2. Modulus \in Nat /\ Modulus > 1 /\ i \in Int /\ 0 <= i /\ i < Modulus /\ 1 \in Index
  BY ModulusBig, RingAssumption DEF Index
<1> HIDE DEF n
<1>3. Distance(n, 1) = i
  BY <1>1, <1>2, DistanceVal
<1>4. Distance(n, i) = 1 /\ Distance(i, i) = 0
  BY <1>1, <1>2, DistanceVal
<1>5. (n - 1) % Modulus = i
  BY <1>3 DEF Distance
<1> QED BY <1>1, <1>2, <1>4, <1>5 DEF n

\* One step of the device, for both parts of DeviceCounts.
LEMMA CountStep ==
  ASSUME RingInv, CountInv, [DeviceNext]_deviceVars
  PROVE  /\ CountInv'
         /\ Distance(packets_', packets_) + Distance(drops_', drops_)
              = IF Calling /\ ~Calling' THEN 1 ELSE 0
<1>a. tail_ \in Index /\ packets_ \in Index /\ drops_ \in Index
  BY DEF RingInv, TypeOK, CountInv
<1>b. /\ Distance(packets_, packets_) = 0 /\ Distance(drops_, drops_) = 0
      /\ Distance(Advance(packets_), packets_) = 1
      /\ Distance(Advance(drops_), drops_) = 1
      /\ Advance(packets_) \in Index /\ Advance(drops_) \in Index
  BY <1>a, OneMore
<1>1. CASE EnqueueRx
  <2>1. /\ pushed = "none" /\ packets_' = packets_ /\ drops_' = drops_ /\ packets_ = tail_
        /\ pushed' = CASE pPc' # "idle" -> "none"
                       [] pPc' = "idle" /\ tail_' = tail_ -> "no"
                       [] OTHER -> "yes"
    BY <1>1 DEF EnqueueRx, countVars, CountInv
  <2>2. Calling'
    <3>1. pPc' # "idle" \/ pushed' # "none"
      BY <2>1
    <3> QED BY <3>1 DEF Calling
  <2>3. CASE tail_' = tail_
    <3>1. pushed' \in {"none", "no"} /\ (pushed' # "none" => pPc' = "idle")
      BY <2>1, <2>3
    <3>2. CountInv'
      BY <1>a, <2>1, <2>3, <3>1 DEF CountInv, Index
    <3> QED BY <1>b, <2>1, <2>2, <3>2
  <2>4. CASE tail_' # tail_
    <3>1. tail_' = Advance(tail_) /\ pPc' = "idle"
      BY <1>1, <2>4, RingFacts
      DEF EnqueueRx, Producer, PushBegin, PushLoadHead, PushWrite, PushPublish, ringVars
    <3>2. pushed' = "yes"
      BY <2>1, <2>4, <3>1
    <3>3. (tail_' - 1) % Modulus = tail_
      BY <1>a, <3>1, OneMore
    <3>4. CountInv'
      BY <1>a, <2>1, <3>1, <3>2, <3>3 DEF CountInv, Index
    <3> QED BY <1>b, <2>1, <2>2, <3>4
  <2> QED BY <2>3, <2>4
<1>2. CASE Count
  <2>1. /\ pushed' = "none" /\ UNCHANGED <<tail_, pPc>> /\ pushed # "none" /\ pPc = "idle"
    BY <1>2 DEF Count, CountPacket, CountDrop, vars, ringVars, producerVars, CountInv
  <2>2. Calling /\ ~Calling'
    BY <2>1 DEF Calling
  <2>3. CASE CountPacket
    <3>1. pushed = "yes" /\ packets_' = Advance(packets_) /\ drops_' = drops_
      BY <2>3 DEF CountPacket
    <3>2. Advance(packets_) = tail_
      <4>1. packets_ = Distance(tail_, 1)
        BY <3>1 DEF CountInv, Distance
      <4>2. 1 \in Index /\ Modulus \in Int /\ tail_ \in Int /\ 0 <= tail_ /\ tail_ < Modulus
        BY <1>a, ModulusBig, RingAssumption DEF Index
      <4>3. packets_ = IF tail_ >= 1 THEN tail_ - 1 ELSE tail_ - 1 + Modulus
        BY <1>a, <4>1, <4>2, DistanceVal
      <4>4. Advance(packets_) = IF packets_ + 1 = Modulus THEN 0 ELSE packets_ + 1
        BY <1>a, AdvanceVal
      <4> QED BY <4>2, <4>3, <4>4
    <3>3. CountInv'
      BY <1>a, <1>b, <2>1, <3>1, <3>2 DEF CountInv, Index
    <3> QED BY <1>b, <2>2, <3>1, <3>3
  <2>4. CASE CountDrop
    <3>1. pushed = "no" /\ drops_' = Advance(drops_) /\ packets_' = packets_
      BY <2>4 DEF CountDrop
    <3>2. CountInv'
      BY <1>a, <1>b, <2>1, <3>1 DEF CountInv, Index
    <3> QED BY <1>b, <2>2, <3>1, <3>2
  <2> QED BY <1>2, <2>3, <2>4 DEF Count
<1>3. CASE DequeueRx \/ UNCHANGED deviceVars
  <2>1. UNCHANGED <<packets_, drops_, pushed, pPc, tail_>>
    BY <1>3 DEF DequeueRx, Consumer, PopBegin, PopLoadTail, PopRead, PopPublish,
                producerVars, ringVars, countVars, deviceVars, vars
  <2>2. CountInv' /\ (Calling' <=> Calling)
    BY <2>1 DEF CountInv, Calling, Index
  <2> QED BY <1>b, <2>1, <2>2
<1> QED BY <1>1, <1>2, <1>3 DEF DeviceNext

\* The device's counters agree with the ring, whatever the consumer does between
\* a push and the count that follows it.
THEOREM DeviceCountsRight == DeviceSpec => DeviceCounts
<1>1. DeviceInit => CountInv
  BY ModulusBig DEF DeviceInit, Init, CountInv, Index
<1>2. RingInv /\ CountInv /\ [DeviceNext]_deviceVars
        => /\ CountInv'
           /\ Distance(packets_', packets_) + Distance(drops_', drops_)
                = IF Calling /\ ~Calling' THEN 1 ELSE 0
  BY CountStep
<1>3. CountInv => packets_ = IF pushed = "yes" THEN (tail_ - 1) % Modulus ELSE tail_
  BY DEF CountInv
<1>4. DeviceSpec => []RingInv
  BY DeviceUsesRing, RingInvariant, PTL
<1>5. DeviceSpec => DeviceInit /\ [][DeviceNext]_deviceVars
  BY DEF DeviceSpec
<1> QED BY <1>1, <1>2, <1>3, <1>4, <1>5, PTL DEF DeviceCounts
=============================================================================
