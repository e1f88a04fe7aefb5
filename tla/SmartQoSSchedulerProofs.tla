---------------------- MODULE SmartQoSSchedulerProofs ----------------------
(***************************************************************************)
(* Proofs about SmartQoSScheduler for any number of classes, any depth,    *)
(* any packet sizes, weights and link rates, and any counter width.        *)
(***************************************************************************)
EXTENDS SmartQoSScheduler, CountingLemmas, TLAPS

\* A counter stays in its range.
LEMMA BumpInRange ==
  ASSUME NEW c \in 0 .. CounterModulus - 1
  PROVE  Bump(c) \in 0 .. CounterModulus - 1
BY QoSAssumption DEF Bump

\* Conversion to int32_t yields a value of that type.
LEMMA ToDeficitInRange ==
  ASSUME NEW x \in Int
  PROVE  ToDeficit(x) \in -DeficitHalf .. DeficitHalf - 1
<1> DEFINE n == 2 * DeficitHalf
<1>1. n \in Nat \ {0} /\ x + DeficitHalf \in Int /\ DeficitHalf \in Nat \ {0}
  BY QoSAssumption
<1>2. (x + DeficitHalf) % n \in 0 .. n - 1
  <2> HIDE DEF n
  <2> QED BY <1>1
<1> QED BY <1>1, <1>2 DEF ToDeficit

\* Adding a weight to a deficit and converting back.
LEMMA DeficitPlusWeight ==
  ASSUME TypeOK, NEW j \in Queues
  PROVE  /\ deficits[j] + Weight[j] \in Int
         /\ ToDeficit(deficits[j] + Weight[j]) \in -DeficitHalf .. DeficitHalf - 1
         /\ 0 \in -DeficitHalf .. DeficitHalf - 1
<1>1. deficits[j] \in Int /\ Weight[j] \in Int /\ DeficitHalf \in Nat \ {0}
  BY QoSAssumption DEF TypeOK
<1>2. deficits[j] + Weight[j] \in Int
  BY <1>1
<1> QED BY <1>1, <1>2, ToDeficitInRange

\* Any class value selects a queue.
LEMMA QueueIndexInRange ==
  ASSUME NEW class \in Classes
  PROVE  QueueIndex(class) \in Queues
BY QoSAssumption DEF QueueIndex, Queues

\* Adding a packet, or taking one, keeps the sequences typed and bounded.
LEMMA PutTake ==
  ASSUME NEW q \in Seq(Sizes)
  PROVE  /\ \A s \in Sizes : Append(q, s) \in Seq(Sizes) /\ Len(Append(q, s)) = Len(q) + 1
         /\ q # << >> => /\ Tail(q) \in Seq(Sizes) /\ Len(Tail(q)) = Len(q) - 1
                         /\ Head(q) \in Sizes
         /\ Len(q) \in Nat
OBVIOUS

\* A packet has a positive size.
LEMMA SizesPositive == \A s \in Sizes : s \in Nat /\ s > 0
BY QoSAssumption

\* Serving a class keeps the types, whatever happens to the deficits.
LEMMA ServeTypes ==
  ASSUME TypeOK, NEW i \in Queues, queues[i] # << >>, Serve(i),
         deficits' \in [Queues -> -DeficitHalf .. DeficitHalf - 1]
  PROVE  TypeOK'
<1>1. /\ Tail(queues[i]) \in Seq(Sizes)
      /\ Len(Tail(queues[i])) = Len(queues[i]) - 1
      /\ Len(queues[i]) - 1 \in Nat
  BY PutTake DEF TypeOK
<1>2. Bump(dequeued[i]) \in 0 .. CounterModulus - 1
  BY BumpInRange DEF TypeOK
<1>3. \A j \in Queues : Len(queues'[j]) <= Depth
  BY <1>1, PutTake, QoSAssumption DEF TypeOK, Serve
<1>4. Len(queues[i]) - 1 \in 0 .. Depth
  BY <1>1, QoSAssumption DEF TypeOK
<1>5. /\ queues' \in [Queues -> Seq(Sizes)]
      /\ dequeued' \in [Queues -> 0 .. CounterModulus - 1]
      /\ occupancy' \in [Queues -> 0 .. Depth]
      /\ served' \in Queues
  BY <1>1, <1>2, <1>4 DEF TypeOK, Serve
<1> QED BY <1>3, <1>5 DEF TypeOK, Serve, congestionVars

\* The types are kept by every method of the scheduler.
LEMMA TypeStep == TypeOK /\ [Next]_vars => TypeOK'
<1> SUFFICES ASSUME TypeOK, [Next]_vars PROVE TypeOK'
  OBVIOUS
<1>1. ASSUME NEW class \in Classes, NEW size \in Sizes, Enqueue(class, size)
      PROVE  TypeOK'
  <2> DEFINE i == QueueIndex(class)
  <2>1. i \in Queues
    BY QueueIndexInRange
  <2> HIDE DEF i
  <2>2. CASE TailDrop(i)
    <3>1. Bump(dropped[i]) \in 0 .. CounterModulus - 1
      BY <2>1, BumpInRange DEF TypeOK
    <3> QED BY <2>1, <2>2, <3>1 DEF TailDrop, TypeOK, congestionVars
  <2>3. CASE Accept(i, size)
    <3>1. /\ Append(queues[i], size) \in Seq(Sizes)
          /\ Len(Append(queues[i], size)) = Len(queues[i]) + 1
          /\ Len(queues[i]) \in Nat
      BY <2>1, PutTake DEF TypeOK
    <3>2. Bump(enqueued[i]) \in 0 .. CounterModulus - 1
      BY <2>1, BumpInRange DEF TypeOK
    <3>3. /\ queues' = [queues EXCEPT ![i] = Append(queues[i], size)]
          /\ Len(queues[i]) < Depth
      BY <2>3 DEF Accept, HasRoom
    <3>4. queues' \in [Queues -> Seq(Sizes)]
      BY <2>1, <3>1, <3>3 DEF TypeOK
    <3>5. \A j \in Queues : Len(queues'[j]) <= Depth
      BY <2>1, <3>1, <3>3, QoSAssumption DEF TypeOK
    <3>a. Len(queues[i]) + 1 \in 0 .. Depth
      BY <3>1, <3>3, QoSAssumption
    <3>6. /\ occupancy' \in [Queues -> 0 .. Depth]
          /\ enqueued' \in [Queues -> 0 .. CounterModulus - 1]
      BY <2>3, <3>a, <3>2 DEF Accept, TypeOK
    <3>7. bufferbloat_detected' \in BOOLEAN
      BY <2>3 DEF Accept, UpdateCongestionState
    <3> QED BY <2>3, <3>4, <3>5, <3>6, <3>7 DEF Accept, TypeOK
  <2> QED BY <1>1, <2>2, <2>3 DEF Enqueue, i
<1>2. CASE DequeueStrict
  <2>1. 0 \in Queues
    BY QoSAssumption DEF Queues
  <2> QED BY <1>2, <2>1, ServeTypes DEF DequeueStrict, TypeOK
<1>3. ASSUME NEW i \in RoundRobin, DequeueRoundRobin(i) PROVE TypeOK'
  <2>1. i \in Queues /\ RoundRobin \subseteq Queues
    BY QoSAssumption DEF Queues, RoundRobin
  <2>2. queues[i] # << >>
    BY <1>3 DEF DequeueRoundRobin, Affordable
  <2>3. \A j \in Queues : Passed(j) \in -DeficitHalf .. DeficitHalf - 1
    BY DeficitPlusWeight DEF Passed
  <2>4. Charged(i) \in -DeficitHalf .. DeficitHalf - 1
    <3>1. Head(queues[i]) \in Sizes
      BY <2>1, <2>2, PutTake DEF TypeOK
    <3>2. Head(queues[i]) \in Int
      BY <3>1, SizesPositive
    <3>3. ToDeficit(deficits[i] + Weight[i]) \in Int
      BY <2>1, DeficitPlusWeight
    <3> QED BY <3>2, <3>3, ToDeficitInRange DEF Charged
  <2>5. deficits' \in [Queues -> -DeficitHalf .. DeficitHalf - 1]
    BY <1>3, <2>1, <2>3, <2>4 DEF DequeueRoundRobin, TypeOK
  <2> QED BY <1>3, <2>1, <2>2, <2>5, ServeTypes DEF DequeueRoundRobin
<1>4. CASE DequeueNothing
  <2>1. \A j \in Queues : Passed(j) \in -DeficitHalf .. DeficitHalf - 1
    BY DeficitPlusWeight DEF Passed
  <2>2. deficits' \in [Queues -> -DeficitHalf .. DeficitHalf - 1]
    BY <1>4, <2>1 DEF DequeueNothing, TypeOK
  <2> QED BY <1>4, <2>2 DEF DequeueNothing, TypeOK, statVars, congestionVars
<1>5. ASSUME NEW mbps \in Rates, SetLinkRate(mbps) PROVE TypeOK'
  BY <1>5 DEF SetLinkRate, TypeOK, statVars, congestionVars
<1>6. CASE Refresh
  BY <1>6 DEF Refresh, UpdateCongestionState, TypeOK, statVars
<1>7. CASE UNCHANGED vars
  BY <1>7 DEF vars, TypeOK, statVars, congestionVars
<1> QED BY <1>1, <1>2, <1>3, <1>4, <1>5, <1>6, <1>7 DEF Next, Dequeue

\* The scheduler starts empty.
LEMMA InitTyped == Init => TypeOK
<1>1. /\ 0 \in -DeficitHalf .. DeficitHalf - 1 /\ 0 \in 0 .. CounterModulus - 1
      /\ 0 \in 0 .. Depth /\ << >> \in Seq(Sizes) /\ Len(<< >>) <= Depth
  BY QoSAssumption
<1> QED BY <1>1 DEF Init, TypeOK

\* The types are right in every state.
THEOREM TypeCorrect == Spec => []TypeOK
BY InitTyped, TypeStep, PTL DEF Spec

-----------------------------------------------------------------------------
(* Statistics. *)

\* Counting one more packet in.
LEMMA BumpShift ==
  ASSUME NEW c \in Nat, NEW d \in Nat, NEW k \in Nat, c = (d + k) % CounterModulus
  PROVE  Bump(c) = (d + (k + 1)) % CounterModulus
<1>1. CounterModulus \in Nat \ {0} /\ d + k \in Nat /\ 1 \in Nat
  BY QoSAssumption
<1>2. (c + 1) % CounterModulus = ((d + k) + 1) % CounterModulus
  BY <1>1, ModAdd
<1>3. (d + k) + 1 = d + (k + 1)
  OBVIOUS
<1> QED BY <1>2, <1>3 DEF Bump

\* Both sides of the account move together in every method.
LEMMA AccountStep == TypeOK /\ PacketsAccounted /\ [Next]_vars => PacketsAccounted'
<1> SUFFICES ASSUME TypeOK, PacketsAccounted, [Next]_vars PROVE PacketsAccounted'
  OBVIOUS
<1>0. CounterModulus \in Nat \ {0}
  BY QoSAssumption
<1>a. ASSUME NEW i \in Queues
      PROVE  /\ Len(queues[i]) \in Nat /\ dequeued[i] \in Nat /\ enqueued[i] \in Nat
             /\ queues[i] \in Seq(Sizes) /\ occupancy[i] = Len(queues[i])
             /\ enqueued[i] = (dequeued[i] + Len(queues[i])) % CounterModulus
  BY PutTake DEF TypeOK, PacketsAccounted
<1>1. ASSUME NEW class \in Classes, NEW size \in Sizes, Enqueue(class, size)
      PROVE  PacketsAccounted'
  <2> DEFINE i == QueueIndex(class)
  <2>1. i \in Queues
    BY QueueIndexInRange
  <2> HIDE DEF i
  <2>2. CASE TailDrop(i)
    BY <2>2 DEF TailDrop, PacketsAccounted
  <2>3. CASE Accept(i, size)
    <3>1. Len(Append(queues[i], size)) = Len(queues[i]) + 1
      BY <2>1, PutTake DEF TypeOK
    <3>2. Bump(enqueued[i]) = (dequeued[i] + (Len(queues[i]) + 1)) % CounterModulus
      BY <1>a, <2>1, BumpShift
    <3>3. \A j \in Queues :
            /\ queues'[j] = IF j = i THEN Append(queues[i], size) ELSE queues[j]
            /\ enqueued'[j] = IF j = i THEN Bump(enqueued[i]) ELSE enqueued[j]
            /\ occupancy'[j] = IF j = i THEN Len(queues[i]) + 1 ELSE occupancy[j]
            /\ dequeued'[j] = dequeued[j]
      BY <2>1, <2>3 DEF Accept, TypeOK
    <3> QED BY <3>1, <3>2, <3>3 DEF PacketsAccounted
  <2> QED BY <1>1, <2>2, <2>3 DEF Enqueue, i
<1>2. ASSUME NEW i \in Queues, queues[i] # << >>, Serve(i) PROVE PacketsAccounted'
  <2>1. Len(Tail(queues[i])) = Len(queues[i]) - 1 /\ Len(queues[i]) - 1 \in Nat
    BY <1>2, PutTake DEF TypeOK
  <2>2. (Bump(dequeued[i]) + (Len(queues[i]) - 1)) % CounterModulus = enqueued[i]
    <3>1. dequeued[i] + 1 \in Nat
      BY <1>a
    <3>2. (Bump(dequeued[i]) + (Len(queues[i]) - 1)) % CounterModulus
            = ((dequeued[i] + 1) + (Len(queues[i]) - 1)) % CounterModulus
      BY <1>0, <2>1, <3>1, ModAdd DEF Bump
    <3>3. (dequeued[i] + 1) + (Len(queues[i]) - 1) = dequeued[i] + Len(queues[i])
      <4> DEFINE a == dequeued[i]
                 b == Len(queues[i])
      <4>1. a \in Int /\ b \in Int
        BY <1>a
      <4> HIDE DEF a, b
      <4>2. (a + 1) + (b - 1) = a + b
        BY <4>1
      <4> QED BY <4>2 DEF a, b
    <3> QED BY <1>a, <3>2, <3>3
  <2>3. \A j \in Queues :
          /\ queues'[j] = IF j = i THEN Tail(queues[i]) ELSE queues[j]
          /\ dequeued'[j] = IF j = i THEN Bump(dequeued[i]) ELSE dequeued[j]
          /\ occupancy'[j] = IF j = i THEN Len(queues[i]) - 1 ELSE occupancy[j]
          /\ enqueued'[j] = enqueued[j]
    BY <1>2 DEF Serve, TypeOK
  <2> QED BY <2>1, <2>2, <2>3 DEF PacketsAccounted
<1>3. CASE DequeueStrict
  <2>1. 0 \in Queues
    BY QoSAssumption DEF Queues
  <2> QED BY <1>2, <1>3, <2>1 DEF DequeueStrict
<1>4. ASSUME NEW i \in RoundRobin, DequeueRoundRobin(i) PROVE PacketsAccounted'
  <2>1. i \in Queues
    BY QoSAssumption DEF Queues, RoundRobin
  <2> QED BY <1>2, <1>4, <2>1 DEF DequeueRoundRobin, Affordable
<1>5. CASE DequeueNothing
  BY <1>5 DEF DequeueNothing, PacketsAccounted, statVars
<1>6. ASSUME NEW mbps \in Rates, SetLinkRate(mbps) PROVE PacketsAccounted'
  BY <1>6 DEF SetLinkRate, PacketsAccounted, statVars
<1>7. CASE Refresh
  BY <1>7 DEF Refresh, PacketsAccounted, statVars
<1>8. CASE UNCHANGED vars
  BY <1>8 DEF vars, PacketsAccounted, statVars
<1> QED BY <1>1, <1>3, <1>4, <1>5, <1>6, <1>7, <1>8 DEF Next, Dequeue

\* There is nothing to account for at first.
LEMMA InitAccount == Init => PacketsAccounted
BY QoSAssumption DEF Init, PacketsAccounted

\* A packet is enqueued, queued or dequeued.
THEOREM StatisticsAccount == Spec => []PacketsAccounted
BY InitAccount, AccountStep, TypeCorrect, PTL DEF Spec

-----------------------------------------------------------------------------
(* Deficits. *)

\* In range, the conversion to int32_t changes nothing.
LEMMA ToDeficitId ==
  ASSUME NEW x \in Int, -DeficitHalf <= x, x < DeficitHalf
  PROVE  ToDeficit(x) = x
<1> DEFINE n == 2 * DeficitHalf
<1>1. /\ n \in Nat \ {0} /\ DeficitHalf \in Nat \ {0}
      /\ x + DeficitHalf \in 0 .. n - 1
  BY QoSAssumption
<1>2. (x + DeficitHalf) % n = x + DeficitHalf
  <2> HIDE DEF n
  <2> QED BY <1>1
<1> QED BY <1>1, <1>2 DEF ToDeficit

\* What DeficitBounded asks of a class.
Covered(i) == FramesCover(i) /\ CreditFits(i)

\* Scans and services keep every class's credit below the largest packet: a
\* scan that adds credit to a backlogged class stops short of its first packet,
\* and, if the frames cover the weight of the class, a service costs at least the
\* weight it was given; what the other classes carry does not matter.
THEOREM CreditBounded == Spec => []DeficitBounded
<1>0. ASSUME NEW j \in RoundRobin PROVE j \in Queues
  BY QoSAssumption DEF RoundRobin, Queues
<1>1. Init => DeficitBounded
  <2>1. 0 < 1
    OBVIOUS
  <2> QED BY <1>0, <2>1 DEF Init, DeficitBounded
<1>2. TypeOK /\ DeficitBounded /\ [Next]_vars => DeficitBounded'
  <2> SUFFICES ASSUME TypeOK, DeficitBounded, [Next]_vars PROVE DeficitBounded'
    OBVIOUS
  <2>1. ASSUME NEW j \in RoundRobin, Covered(j)
        PROVE  /\ j \in Queues /\ Weight[j] \in Nat /\ deficits[j] \in Int
               /\ 0 <= deficits[j]
               /\ \E s \in Sizes \cup {1} : deficits[j] < s
               /\ deficits[j] + Weight[j] \in Int
               /\ ToDeficit(deficits[j] + Weight[j]) = deficits[j] + Weight[j]
    <3>1. j \in Queues /\ Weight[j] \in Nat /\ deficits[j] \in Int /\ DeficitHalf \in Nat
      BY <1>0, QoSAssumption DEF TypeOK
    <3>2. PICK s \in Sizes \cup {1} : 0 <= deficits[j] /\ deficits[j] < s
      BY <2>1 DEF DeficitBounded, Covered
    <3>3. s \in Nat /\ s + Weight[j] < DeficitHalf
      BY <2>1, SizesPositive DEF Covered, CreditFits
    <3>4. /\ deficits[j] + Weight[j] \in Int
          /\ -DeficitHalf <= deficits[j] + Weight[j]
          /\ deficits[j] + Weight[j] < DeficitHalf
      BY <3>1, <3>2, <3>3
    <3> QED BY <3>1, <3>2, <3>4, ToDeficitId
  <2>2. ASSUME NEW j \in RoundRobin, Covered(j), ~Affordable(j)
        PROVE  0 <= Passed(j) /\ \E s \in Sizes \cup {1} : Passed(j) < s
    <3>1. CASE queues[j] = << >>
      BY <3>1 DEF Passed
    <3>2. CASE queues[j] # << >>
      <4>1. Head(queues[j]) \in Sizes
        BY <2>1, <2>2, <3>2, PutTake DEF TypeOK
      <4>2. Passed(j) = deficits[j] + Weight[j]
        BY <2>1, <2>2, <3>2 DEF Passed
      <4>3. deficits[j] + Weight[j] < Head(queues[j])
        <5>1. Head(queues[j]) \in Int
          BY <4>1, SizesPositive
        <5>2. ~(deficits[j] + Weight[j] >= Head(queues[j]))
          BY <2>1, <2>2, <3>2 DEF Affordable
        <5> QED BY <2>1, <2>2, <5>1, <5>2
      <4> QED BY <2>1, <2>2, <4>1, <4>2, <4>3
    <3> QED BY <3>1, <3>2
  <2>3. ASSUME NEW i \in RoundRobin, Covered(i), Affordable(i)
        PROVE  0 <= Charged(i) /\ \E s \in Sizes \cup {1} : Charged(i) < s
    <3> DEFINE front == Head(queues[i])
    <3>1. front \in Sizes
      BY <2>1, <2>3, PutTake DEF TypeOK, Affordable
    <3>2. front \in Nat /\ Weight[i] <= front
      BY <2>3, <3>1, SizesPositive DEF Covered, FramesCover
    <3>3. deficits[i] + Weight[i] >= front
      BY <2>1, <2>3 DEF Affordable
    <3> HIDE DEF front
    <3>4. PICK s \in Sizes \cup {1} : deficits[i] < s
      BY <2>1, <2>3
    <3>5. s \in Nat /\ s + Weight[i] < DeficitHalf /\ DeficitHalf \in Nat
      BY <2>3, SizesPositive, QoSAssumption DEF Covered, CreditFits
    <3>6. ToDeficit((deficits[i] + Weight[i]) - front) = (deficits[i] + Weight[i]) - front
      <4> DEFINE x == (deficits[i] + Weight[i]) - front
      <4>1. x \in Int /\ -DeficitHalf <= x /\ x < DeficitHalf
        BY <2>1, <2>3, <3>2, <3>3, <3>4, <3>5
      <4> QED BY <4>1, ToDeficitId
    <3>7. Charged(i) = (deficits[i] + Weight[i]) - front
      BY <2>1, <2>3, <3>6 DEF Charged, front
    <3>8. 0 <= Charged(i) /\ Charged(i) < s
      BY <2>1, <2>3, <3>2, <3>3, <3>4, <3>5, <3>7
    <3> QED BY <3>8
  <2>4. ASSUME NEW i \in RoundRobin, DequeueRoundRobin(i) PROVE DeficitBounded'
    <3>1. ASSUME NEW j \in RoundRobin, Covered(j)
          PROVE  0 <= deficits'[j] /\ \E s \in Sizes \cup {1} : deficits'[j] < s
      <4>1. j \in Queues
        BY <3>1, <1>0
      <4>2. CASE j \in 1 .. i - 1
        BY <2>2, <2>4, <3>1, <4>1, <4>2 DEF DequeueRoundRobin
      <4>3. CASE j = i
        <5>1. deficits'[j] = Charged(i)
          BY <2>4, <4>1, <4>3 DEF DequeueRoundRobin, RoundRobin
        <5> QED BY <2>3, <2>4, <3>1, <4>3, <5>1 DEF DequeueRoundRobin
      <4>4. CASE j \notin 1 .. i - 1 /\ j # i
        BY <2>1, <2>4, <3>1, <4>1, <4>4 DEF DequeueRoundRobin
      <4> QED BY <4>2, <4>3, <4>4
    <3> QED BY <3>1 DEF DeficitBounded, Covered
  <2>5. CASE DequeueNothing
    <3>1. ASSUME NEW j \in RoundRobin, Covered(j)
          PROVE  0 <= deficits'[j] /\ \E s \in Sizes \cup {1} : deficits'[j] < s
      <4>1. deficits'[j] = Passed(j) /\ ~Affordable(j)
        BY <1>0, <2>5 DEF DequeueNothing
      <4> QED BY <2>2, <3>1, <4>1
    <3> QED BY <3>1 DEF DeficitBounded, Covered
  <2>6. CASE UNCHANGED deficits
    BY <2>6 DEF DeficitBounded
  <2>7. ASSUME NEW class \in Classes, NEW size \in Sizes, Enqueue(class, size)
        PROVE  UNCHANGED deficits
    BY <2>7 DEF Enqueue, TailDrop, Accept
  <2>8. DequeueStrict => UNCHANGED deficits
    BY DEF DequeueStrict
  <2>9. ASSUME NEW mbps \in Rates, SetLinkRate(mbps) PROVE UNCHANGED deficits
    BY <2>9 DEF SetLinkRate
  <2>10. Refresh => UNCHANGED deficits
    BY DEF Refresh
  <2> QED BY <2>4, <2>5, <2>6, <2>7, <2>8, <2>9, <2>10 DEF Next, Dequeue, vars
<1> QED BY <1>1, <1>2, TypeCorrect, PTL DEF Spec

-----------------------------------------------------------------------------
(* The congestion estimate. *)

\* The total of a queue is the sum of the sizes in it.
LEMMA BytesIsSum == ASSUME NEW q PROVE Bytes(q) = SumFunction(q)
BY DEF Bytes, FoldSeq, FoldFunction, SumFunction, SumFunctionOnSet, FoldFunctionOnSet,
       MapThenFoldSet

\* What a queue holds in bytes, and after a packet was taken from it.
LEMMA BytesOfQueue ==
  ASSUME NEW q \in Seq(Sizes)
  PROVE  /\ Bytes(q) \in Nat
         /\ q # << >> => Bytes(Tail(q)) <= Bytes(q)
         /\ Bytes(<< >>) = 0
<1>1. q \in Seq(Nat)
  BY SizesPositive
<1>2. /\ SumFunction(q) \in Nat /\ SumFunction(<< >>) = 0
      /\ q # << >> => SumFunction(q) = Head(q) + SumFunction(Tail(q))
  BY <1>1, SumQueue
<1>3. ASSUME q # << >> PROVE Head(q) \in Nat /\ Tail(q) \in Seq(Nat)
  BY <1>1, <1>3
<1>4. q # << >> => SumFunction(Tail(q)) \in Nat
  BY <1>3, SumQueue
<1> QED BY <1>2, <1>3, <1>4, BytesIsSum

\* The classes are finitely many.
LEMMA QueuesFinite == IsFiniteSet(Queues)
<1>1. 0 \in Int /\ NumQueues - 1 \in Int
  BY QoSAssumption
<1> QED BY <1>1, FS_Interval DEF Queues

\* Whoever holds no more in any class holds no more in all of them.
LEMMA BacklogMonotone ==
  ASSUME NEW qs, NEW rs,
         \A i \in Queues : /\ Bytes(qs[i]) \in Nat /\ Bytes(rs[i]) \in Nat
                           /\ Bytes(qs[i]) <= Bytes(rs[i])
  PROVE  /\ SumFunction(Backlog(qs)) \in Nat /\ SumFunction(Backlog(rs)) \in Nat
         /\ SumFunction(Backlog(qs)) <= SumFunction(Backlog(rs))
<1> DEFINE f == Backlog(qs)
           g == Backlog(rs)
<1>1. /\ DOMAIN f = Queues /\ DOMAIN g = Queues
      /\ \A i \in Queues : f[i] \in Nat /\ g[i] \in Nat /\ f[i] <= g[i]
  BY DEF Backlog
<1> HIDE DEF f, g
<1>2. SumFunctionOnSet(f, Queues) \in Nat /\ SumFunctionOnSet(g, Queues) \in Nat
  BY <1>1, QueuesFinite, SumNat
<1>3. SumFunctionOnSet(f, Queues) <= SumFunctionOnSet(g, Queues)
  <2>1. \A i \in Queues : f[i] \in Int /\ g[i] \in Int /\ f[i] <= g[i]
    BY <1>1
  <2> QED BY <2>1, QueuesFinite, SumMonotone
<1>4. SumFunction(f) = SumFunctionOnSet(f, Queues) /\ SumFunction(g) = SumFunctionOnSet(g, Queues)
  BY <1>1 DEF SumFunction
<1>5. /\ SumFunction(f) \in Nat /\ SumFunction(g) \in Nat
      /\ SumFunction(f) <= SumFunction(g)
  BY <1>2, <1>3, <1>4
<1> QED BY <1>5 DEF f, g

\* The flag and the delays belong to the backlog of the last refresh at the rate it
\* was made for, whatever the link rate was in between.
MeasuredRight ==
  /\ measured.rate \in Nat
  /\ SumFunction(Backlog(queues)) > BloatBytes * measured.rate => bufferbloat_detected
  /\ \A i \in Queues :
       measured.bytes[i] \in Nat /\ Bytes(queues[i]) <= measured.bytes[i]

\* The refresh of the estimate makes it right for the queues it is made of.
LEMMA RefreshedRight ==
  ASSUME TypeOK, NEW qs \in [Queues -> Seq(Sizes)], UpdateCongestionState(qs), queues' = qs
  PROVE  MeasuredRight'
<1>1. /\ measured'.rate = link_rate /\ measured'.bytes = Backlog(qs)
      /\ bufferbloat_detected' = (SumFunction(Backlog(qs)) > BloatBytes * link_rate)
  BY DEF UpdateCongestionState
<1>2. link_rate \in Nat
  <2>1. link_rate \in {DefaultRate, 1} \cup Rates
    BY DEF TypeOK
  <2> QED BY <2>1, QoSAssumption
<1>3. \A i \in Queues : Bytes(qs[i]) \in Nat /\ Backlog(qs)[i] = Bytes(qs[i])
  BY BytesOfQueue DEF Backlog
<1>4. SumFunction(Backlog(queues')) > BloatBytes * measured'.rate => bufferbloat_detected'
  BY <1>1
<1>5. \A i \in Queues : measured'.bytes[i] \in Nat /\ Bytes(queues'[i]) <= measured'.bytes[i]
  BY <1>1, <1>3
<1> QED BY <1>1, <1>2, <1>4, <1>5 DEF MeasuredRight

\* Taking packets away keeps it right.
LEMMA ServedRight ==
  ASSUME TypeOK, MeasuredRight, NEW i \in Queues, queues[i] # << >>, Serve(i)
  PROVE  MeasuredRight'
<1>1. /\ measured' = measured /\ bufferbloat_detected' = bufferbloat_detected
      /\ \A j \in Queues : queues'[j] = IF j = i THEN Tail(queues[j]) ELSE queues[j]
  BY DEF Serve, congestionVars, TypeOK
<1>2. ASSUME NEW j \in Queues
      PROVE  /\ Bytes(queues[j]) \in Nat /\ Bytes(queues'[j]) \in Nat
             /\ Bytes(queues'[j]) <= Bytes(queues[j])
  <2>1. queues[j] \in Seq(Sizes) /\ Bytes(queues[j]) \in Nat
    BY BytesOfQueue DEF TypeOK
  <2>2. CASE j = i
    <3>1. Tail(queues[j]) \in Seq(Sizes)
      BY <2>1, <2>2, PutTake
    <3> QED BY <1>1, <2>1, <2>2, <3>1, BytesOfQueue
  <2>3. CASE j # i
    BY <1>1, <2>1, <2>3
  <2> QED BY <2>2, <2>3
<1> DEFINE now == SumFunction(Backlog(queues))
           then == SumFunction(Backlog(queues'))
           limit == BloatBytes * measured.rate
<1>3. now \in Nat /\ then \in Nat /\ then <= now
  BY <1>2, BacklogMonotone
<1>4. limit \in Int
  BY QoSAssumption DEF MeasuredRight
<1>5. now > limit => bufferbloat_detected
  BY DEF MeasuredRight
<1> HIDE DEF now, then, limit
<1>6. then > limit => bufferbloat_detected'
  BY <1>1, <1>3, <1>4, <1>5
<1>7. SumFunction(Backlog(queues')) > BloatBytes * measured'.rate => bufferbloat_detected'
  BY <1>1, <1>6 DEF then, limit
<1>8. \A j \in Queues : measured'.bytes[j] \in Nat /\ Bytes(queues'[j]) <= measured'.bytes[j]
  <2>1. \A j \in Queues : measured.bytes[j] \in Nat /\ Bytes(queues[j]) <= measured.bytes[j]
    BY DEF MeasuredRight
  <2> QED BY <1>1, <1>2, <2>1
<1> QED BY <1>1, <1>7, <1>8 DEF MeasuredRight

\* The estimate may be out of date, but at the rate it was made for it never hides
\* congestion: a refresh follows every packet that comes in, and what goes out or is
\* dropped only makes the estimate too high.
THEOREM BloatNeverHidden == Spec => []NoHiddenBloat
<1>1. Init => MeasuredRight
  <2> SUFFICES ASSUME Init PROVE MeasuredRight
    OBVIOUS
  <2> DEFINE none == Backlog(queues)
  <2>1. /\ measured.rate = DefaultRate /\ DefaultRate \in Nat /\ BloatBytes \in Nat
        /\ \A i \in Queues : measured.bytes[i] = 0 /\ queues[i] = << >>
    BY QoSAssumption DEF Init
  <2>2. << >> \in Seq(Sizes)
    OBVIOUS
  <2>3. \A i \in Queues : Bytes(queues[i]) = 0
    BY <2>1, <2>2, BytesOfQueue
  <2>4. DOMAIN none = Queues /\ \A i \in Queues : none[i] = 0
    BY <2>3 DEF Backlog
  <2> HIDE DEF none
  <2>6. SumFunctionOnSet(none, Queues) = 0
    <3>1. \A i \in Queues : none[i] \in Int
      BY <2>4
    <3> QED BY <2>4, QueuesFinite, SumZero
  <2>7. SumFunction(none) = 0
    BY <2>4, <2>6 DEF SumFunction
  <2>8. ~(0 > BloatBytes * DefaultRate)
    <3>1. BloatBytes * DefaultRate \in Nat
      BY <2>1
    <3> QED BY <3>1
  <2> QED BY <2>1, <2>3, <2>7, <2>8 DEF MeasuredRight, none
<1>2. TypeOK /\ MeasuredRight /\ [Next]_vars => MeasuredRight'
  <2> SUFFICES ASSUME TypeOK, MeasuredRight, [Next]_vars PROVE MeasuredRight'
    OBVIOUS
  <2>0. CASE UNCHANGED <<queues, congestionVars>>
    BY <2>0 DEF MeasuredRight, congestionVars
  <2>1. ASSUME NEW c \in Classes, NEW size \in Sizes, Enqueue(c, size)
        PROVE  MeasuredRight'
    <3> DEFINE i == QueueIndex(c)
    <3>1. i \in Queues
      BY QueueIndexInRange
    <3> HIDE DEF i
    <3>2. CASE TailDrop(i)
      BY <2>0, <3>2 DEF TailDrop
    <3>3. CASE Accept(i, size)
      <4>1. Append(queues[i], size) \in Seq(Sizes)
        BY <3>1, PutTake DEF TypeOK
      <4>2. queues' \in [Queues -> Seq(Sizes)]
        BY <3>1, <3>3, <4>1 DEF Accept, TypeOK
      <4>3. UpdateCongestionState(queues')
        BY <3>3 DEF Accept
      <4> DEFINE qs == queues'
      <4>4. qs \in [Queues -> Seq(Sizes)] /\ queues' = qs /\ UpdateCongestionState(qs)
        BY <4>2, <4>3
      <4> HIDE DEF qs
      <4> QED BY <4>4, RefreshedRight
    <3> QED BY <2>1, <3>2, <3>3 DEF Enqueue, i
  <2>2. CASE DequeueStrict
    <3>1. 0 \in Queues
      BY QoSAssumption DEF Queues
    <3> QED BY <2>2, <3>1, ServedRight DEF DequeueStrict
  <2>3. ASSUME NEW i \in RoundRobin, DequeueRoundRobin(i) PROVE MeasuredRight'
    <3>1. i \in Queues
      BY QoSAssumption DEF Queues, RoundRobin
    <3> QED BY <2>3, <3>1, ServedRight DEF DequeueRoundRobin, Affordable
  <2>4. CASE DequeueNothing
    BY <2>0, <2>4 DEF DequeueNothing
  <2>5. ASSUME NEW mbps \in Rates, SetLinkRate(mbps) PROVE MeasuredRight'
    BY <2>0, <2>5 DEF SetLinkRate
  <2>6. CASE Refresh
    BY <2>6, RefreshedRight DEF Refresh, TypeOK
  <2>7. CASE UNCHANGED vars
    BY <2>0, <2>7 DEF vars
  <2> QED BY <2>1, <2>2, <2>3, <2>4, <2>5, <2>6, <2>7 DEF Next, Dequeue
<1>3. TypeOK /\ MeasuredRight => NoHiddenBloat
  BY DEF MeasuredRight, NoHiddenBloat
<1> QED BY <1>1, <1>2, <1>3, TypeCorrect, PTL DEF Spec
=============================================================================
