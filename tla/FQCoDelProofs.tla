--------------------------- MODULE FQCoDelProofs ---------------------------
(***************************************************************************)
(* Proofs about FQCoDel for any number of flows, any packet sizes, any     *)
(* quantum and any CoDel parameters.  None depends on the bounds of the    *)
(* model, which only restrict Enqueue and Tick.                            *)
(***************************************************************************)
EXTENDS FQCoDel, CountingLemmas, TLAPS

\* The part of the state dequeue navigates by, and why it can stop: the old
\* list is processed only once the new one is used up.
Lists ==
  /\ packets \in [Flows -> Seq(Packet)]
  /\ deficit \in [Flows -> Int]
  /\ new_flows \in Seq(Flows) /\ old_flows \in Seq(Flows)
  /\ pc = "old" => new_flows = << >>
  /\ now_ns \in Nat

\* Sequences at their ends.
LEMMA Ends ==
  ASSUME NEW S, NEW q \in Seq(S), q # << >>
  PROVE  Head(q) \in S /\ Tail(q) \in Seq(S)
OBVIOUS

\* A packet has a positive size.
LEMMA PacketSize ==
  ASSUME NEW pkt \in Packet
  PROVE  pkt.size \in Nat /\ pkt.size > 0 /\ pkt.size \in Sizes
<1>1. pkt.size \in Sizes
  BY DEF Packet
<1>2. \A s \in Sizes : s \in Nat /\ s > 0
  BY FQCoDelAssumption
<1> QED BY <1>1, <1>2

\* The flow being processed, and what popping it leaves on the lists.
LEMMA PopFrontLists ==
  ASSUME Lists, NEW f \in Flows, AtFront(f),
         NEW again \in Seq(Flows), PopFront(again)
  PROVE  /\ new_flows' \in Seq(Flows) /\ old_flows' \in Seq(Flows)
         /\ pc = "old" => new_flows' = << >>
<1>0. new_flows \in Seq(Flows) /\ old_flows \in Seq(Flows)
  BY DEF Lists
<1>1. CASE pc = "new"
  <2>1. Tail(new_flows) \in Seq(Flows)
    BY <1>0, <1>1, Ends DEF AtFront
  <2>2. old_flows \o again \in Seq(Flows)
    BY <1>0
  <2> QED BY <1>1, <2>1, <2>2 DEF PopFront
<1>2. CASE pc = "old"
  <2>1. Tail(old_flows) \in Seq(Flows)
    BY <1>0, <1>2, Ends DEF AtFront
  <2>2. Tail(old_flows) \o again \in Seq(Flows)
    BY <2>1
  <2> QED BY <1>0, <1>2, <2>1, <2>2 DEF PopFront, Lists
<1> QED BY <1>1, <1>2 DEF AtFront

\* Taking the candidate keeps the lists and the types.
LEMMA TakeTypes ==
  ASSUME Lists, NEW f \in Flows, TakeCandidate(f)
  PROVE  /\ packets' \in [Flows -> Seq(Packet)] /\ deficit' \in [Flows -> Int]
         /\ Head(packets[f]) \in Packet
<1>1. packets[f] \in Seq(Packet) /\ packets[f] # << >>
  BY DEF Lists, TakeCandidate, Charged
<1>2. Head(packets[f]) \in Packet /\ Tail(packets[f]) \in Seq(Packet)
  BY <1>1, Ends
<1>3. Head(packets[f]).size \in Int
  BY <1>2, PacketSize
<1>4. deficit[f] - Head(packets[f]).size \in Int
  BY <1>3 DEF Lists
<1> QED BY <1>2, <1>4 DEF Lists, TakeCandidate, Charged

\* enqueue and every iteration of dequeue keep the lists usable.
THEOREM ListsCorrect == Spec => []Lists
<1>1. Init => Lists
  BY FQCoDelAssumption DEF Init, Lists
<1>2. Lists /\ [Next]_vars => Lists'
  <2> SUFFICES ASSUME Lists, [Next]_vars PROVE Lists'
    OBVIOUS
  <2> USE DEF Lists
  <2>1. CASE Tick
    BY <2>1 DEF Tick, flowVars, listVars
  <2>2. ASSUME NEW mbps \in Rates, SetLinkRate(mbps) PROVE Lists'
    BY <2>2 DEF SetLinkRate, flowVars, listVars
  <2>3. ASSUME NEW f \in Flows, NEW size \in Sizes, NEW age \in Ages, Enqueue(f, size, age)
        PROVE  Lists'
    <3> DEFINE pkt == [size |-> size, timestamp |-> now_ns - age]
    <3>1. pkt \in Packet
      BY FQCoDelAssumption DEF Packet
    <3>2. packets' = [packets EXCEPT ![f] = Append(packets[f], pkt)]
      BY <2>3 DEF Enqueue
    <3> HIDE DEF pkt
    <3>3. packets' \in [Flows -> Seq(Packet)]
      BY <3>1, <3>2
    <3>4. deficit' \in [Flows -> Int] /\ new_flows' \in Seq(Flows)
      <4>1. Announce(f)
        BY <2>3 DEF Enqueue
      <4>2. Quantum \in Int
        BY FQCoDelAssumption
      <4>3. CASE packets[f] = << >>
        <5>1. /\ deficit' = [deficit EXCEPT ![f] = Quantum]
              /\ new_flows' = Append(new_flows, f)
          BY <4>1, <4>3 DEF Announce, NewDeficit
        <5>2. Append(new_flows, f) \in Seq(Flows)
          OBVIOUS
        <5> QED BY <4>2, <5>1, <5>2
      <4>4. CASE packets[f] # << >>
        BY <4>1, <4>4 DEF Announce, NewDeficit
      <4> QED BY <4>3, <4>4
    <3> QED BY <2>3, <3>3, <3>4 DEF Enqueue
  <2>4. CASE DequeueCall
    BY <2>4 DEF DequeueCall, flowVars, listVars
  <2>5. ASSUME NEW f \in Flows, UnlistEmptyFlow(f) PROVE Lists'
    <3>1. AtFront(f) /\ PopFront(<< >>) /\ UNCHANGED <<deficit, pc, packets, now_ns>>
      BY <2>5 DEF UnlistEmptyFlow, flowVars
    <3>2. << >> \in Seq(Flows)
      OBVIOUS
    <3>3. /\ new_flows' \in Seq(Flows) /\ old_flows' \in Seq(Flows)
          /\ pc = "old" => new_flows' = << >>
      BY <3>1, <3>2, PopFrontLists
    <3> QED BY <3>1, <3>3
  <2>6. ASSUME NEW f \in Flows, RecycleFlow(f) PROVE Lists'
    <3>1. <<f>> \in Seq(Flows)
      OBVIOUS
    <3>2. /\ new_flows' \in Seq(Flows) /\ old_flows' \in Seq(Flows)
          /\ pc = "old" => new_flows' = << >>
      BY <2>6, <3>1, PopFrontLists DEF RecycleFlow, Refilled, Requeued
    <3>3. deficit' \in [Flows -> Int]
      BY <2>6, FQCoDelAssumption DEF RecycleFlow, Refilled, Requeued
    <3> QED BY <2>6, <3>2, <3>3 DEF RecycleFlow, Refilled, Requeued
  <2>7. ASSUME NEW f \in Flows, DropPacket(f) PROVE Lists'
    BY <2>7, TakeTypes DEF DropPacket, listVars
  <2>8. ASSUME NEW f \in Flows, DeliverPacket(f) PROVE Lists'
    BY <2>8, TakeTypes DEF DeliverPacket, listVars
  <2>9. CASE NewFlowsDone
    BY <2>9 DEF NewFlowsDone, flowVars, listVars
  <2>10. CASE ReturnNothing
    BY <2>10 DEF ReturnNothing, ListsDone, flowVars, listVars
  <2>11. CASE UNCHANGED vars
    BY <2>11 DEF vars, flowVars, listVars
  <2> QED BY <2>1, <2>2, <2>3, <2>4, <2>5, <2>6, <2>7, <2>8, <2>9, <2>10, <2>11
          DEF Next, DequeueLoop, ProcessFlow
<1> QED BY <1>1, <1>2, PTL DEF Spec

-----------------------------------------------------------------------------
(* No flow is forgotten. *)

\* Membership after appending, popping and concatenating.
LEMMA ListedAppend ==
  ASSUME NEW list \in Seq(Flows), NEW f, NEW g \in Flows
  PROVE  Listed(f, Append(list, g)) <=> Listed(f, list) \/ f = g
<1>1. /\ Len(list) \in Nat
      /\ Len(Append(list, g)) = Len(list) + 1
      /\ \A i \in 1 .. Len(list) : Append(list, g)[i] = list[i]
      /\ Append(list, g)[Len(list) + 1] = g
  OBVIOUS
<1>2. \A i \in 1 .. Len(list) + 1 : i \in 1 .. Len(list) \/ i = Len(list) + 1
  BY <1>1
<1>3. /\ Len(list) + 1 \in 1 .. Len(list) + 1
      /\ 1 .. Len(list) \subseteq 1 .. Len(list) + 1
  BY <1>1
<1> QED BY <1>1, <1>2, <1>3 DEF Listed

\* A list without its first entry loses at most that flow.
LEMMA ListedTail ==
  ASSUME NEW list \in Seq(Flows), list # << >>, NEW f, Listed(f, list)
  PROVE  Listed(f, Tail(list)) \/ f = Head(list)
<1>1. PICK i \in 1 .. Len(list) : list[i] = f
  BY DEF Listed
<1>2. CASE i = 1
  BY <1>1, <1>2
<1>3. CASE i # 1
  <2>1. /\ i - 1 \in 1 .. Len(Tail(list))
        /\ Tail(list)[i - 1] = list[i]
    BY <1>3
  <2> QED BY <1>1, <2>1 DEF Listed
<1> QED BY <1>2, <1>3

\* A concatenation lists what either list lists.
LEMMA ListedConcat ==
  ASSUME NEW list \in Seq(Flows), NEW again \in Seq(Flows), NEW g,
         Listed(g, list) \/ Listed(g, again)
  PROVE  Listed(g, list \o again)
<1>1. /\ Len(list) \in Nat /\ Len(again) \in Nat
      /\ Len(list \o again) = Len(list) + Len(again)
  OBVIOUS
<1>2. CASE Listed(g, list)
  <2>1. PICK i \in 1 .. Len(list) : list[i] = g
    BY <1>2 DEF Listed
  <2>2. i \in 1 .. Len(list \o again) /\ (list \o again)[i] = g
    BY <1>1, <2>1
  <2> QED BY <2>2 DEF Listed
<1>3. CASE Listed(g, again)
  <2>1. PICK i \in 1 .. Len(again) : again[i] = g
    BY <1>3 DEF Listed
  <2>2. /\ Len(list) + i \in 1 .. Len(list \o again)
        /\ (list \o again)[Len(list) + i] = g
    BY <1>1, <2>1
  <2> QED BY <2>2 DEF Listed
<1> QED BY <1>2, <1>3

\* Popping the front flow f, and putting `again` at the back of the old list,
\* unlists at most f.
LEMMA PopFrontKeeps ==
  ASSUME Lists, NEW f \in Flows, AtFront(f),
         NEW again \in Seq(Flows), PopFront(again),
         NEW g \in Flows, Listed(g, new_flows) \/ Listed(g, old_flows)
  PROVE  \/ Listed(g, new_flows') \/ Listed(g, old_flows')
         \/ g = f /\ ~Listed(f, again)
<1>0. new_flows \in Seq(Flows) /\ old_flows \in Seq(Flows)
  BY DEF Lists
<1>2. CASE pc = "new"
  <2>1. new_flows' = Tail(new_flows) /\ old_flows' = old_flows \o again
    BY <1>2 DEF PopFront
  <2>2. Listed(g, new_flows) => Listed(g, new_flows') \/ g = f
    BY <1>0, <1>2, <2>1, ListedTail DEF AtFront
  <2>3. Listed(g, old_flows) \/ Listed(g, again) => Listed(g, old_flows')
    BY <1>0, <2>1, ListedConcat
  <2> QED BY <2>2, <2>3
<1>3. CASE pc = "old"
  <2>1. new_flows' = new_flows /\ old_flows' = Tail(old_flows) \o again
    BY <1>3 DEF PopFront
  <2>2. Listed(g, old_flows) => Listed(g, Tail(old_flows)) \/ g = f
    BY <1>0, <1>3, ListedTail DEF AtFront
  <2>3. Tail(old_flows) \in Seq(Flows)
    BY <1>0, <1>3, Ends DEF AtFront
  <2>4. Listed(g, Tail(old_flows)) \/ Listed(g, again) => Listed(g, old_flows')
    BY <2>1, <2>3, ListedConcat
  <2> QED BY <2>1, <2>2, <2>4
<1> QED BY <1>2, <1>3 DEF AtFront

\* A flow with packets stays on a list through announcements, duplicate
\* entries, unlisting and recycling.
THEOREM BacklogListed == Spec => []BackloggedListed
<1>1. Init => BackloggedListed
  BY DEF Init, BackloggedListed
<1>2. Lists /\ BackloggedListed /\ [Next]_vars => BackloggedListed'
  <2> SUFFICES ASSUME Lists, BackloggedListed, [Next]_vars,
                      NEW g \in Flows, packets'[g] # << >>
               PROVE  Listed(g, new_flows') \/ Listed(g, old_flows')
    BY DEF BackloggedListed, Listed
  <2>0. packets[g] # << >> => Listed(g, new_flows) \/ Listed(g, old_flows)
    BY DEF BackloggedListed
  <2>1. CASE UNCHANGED <<packets, new_flows, old_flows>>
    BY <2>0, <2>1
  <2>2. ASSUME NEW f \in Flows, NEW size \in Sizes, NEW age \in Ages, Enqueue(f, size, age)
        PROVE  Listed(g, new_flows') \/ Listed(g, old_flows')
    <3>1. Announce(f) /\ old_flows' = old_flows
      BY <2>2 DEF Enqueue
    <3>2. Listed(g, new_flows) => Listed(g, new_flows')
      <4>1. CASE packets[f] = << >>
        <5>1. new_flows' = Append(new_flows, f) /\ new_flows \in Seq(Flows)
          BY <3>1, <4>1 DEF Announce, NewDeficit, Lists
        <5> QED BY <5>1, ListedAppend
      <4>2. CASE packets[f] # << >>
        BY <3>1, <4>2 DEF Announce, NewDeficit
      <4> QED BY <4>1, <4>2
    <3>3. CASE packets[g] # << >>
      BY <2>0, <3>1, <3>2, <3>3
    <3>4. CASE packets[g] = << >>
      <4>1. g = f
        BY <2>2, <3>4 DEF Enqueue, Lists
      <4>2. new_flows' = Append(new_flows, f)
        BY <3>1, <3>4, <4>1 DEF Announce, NewDeficit
      <4> QED BY <4>1, <4>2, ListedAppend DEF Lists
    <3> QED BY <3>3, <3>4
  <2>3. ASSUME NEW f \in Flows, UnlistEmptyFlow(f)
        PROVE  Listed(g, new_flows') \/ Listed(g, old_flows')
    <3>1. packets' = packets /\ g # f
      BY <2>3 DEF UnlistEmptyFlow, flowVars
    <3>2. << >> \in Seq(Flows)
      OBVIOUS
    <3> QED BY <2>0, <2>3, <3>1, <3>2, PopFrontKeeps DEF UnlistEmptyFlow
  <2>4. ASSUME NEW f \in Flows, RecycleFlow(f)
        PROVE  Listed(g, new_flows') \/ Listed(g, old_flows')
    <3>1. packets' = packets /\ <<f>> \in Seq(Flows) /\ Listed(f, <<f>>)
      BY <2>4 DEF RecycleFlow, Refilled, Requeued, Listed
    <3> QED BY <2>0, <2>4, <3>1, PopFrontKeeps DEF RecycleFlow, Refilled, Requeued
  <2>5. ASSUME NEW f \in Flows, TakeCandidate(f), UNCHANGED listVars
        PROVE  Listed(g, new_flows') \/ Listed(g, old_flows')
    <3>1. packets[g] # << >>
      BY <2>5 DEF TakeCandidate, Charged, Lists
    <3> QED BY <2>0, <2>5, <3>1 DEF listVars
  <2>6. Tick \/ DequeueCall \/ NewFlowsDone \/ ReturnNothing \/ UNCHANGED vars
          => UNCHANGED <<packets, new_flows, old_flows>>
    BY DEF Tick, DequeueCall, NewFlowsDone, ReturnNothing, ListsDone, vars, flowVars, listVars
  <2>7. ASSUME NEW mbps \in Rates, SetLinkRate(mbps)
        PROVE  UNCHANGED <<packets, new_flows, old_flows>>
    BY <2>7 DEF SetLinkRate, flowVars, listVars
  <2>8. \A f \in Flows : DropPacket(f) \/ DeliverPacket(f)
                            => TakeCandidate(f) /\ UNCHANGED listVars
    BY DEF DropPacket, DeliverPacket
  <2> QED BY <2>1, <2>2, <2>3, <2>4, <2>5, <2>6, <2>7, <2>8
          DEF Next, DequeueLoop, ProcessFlow
<1> QED BY <1>1, <1>2, ListsCorrect, PTL DEF Spec

\* dequeue returns false only when every flow is empty.
THEOREM FalseIsEmpty == Spec => FalseMeansEmpty
<1>1. Lists /\ BackloggedListed =>
        [ReturnNothing => \A f \in Flows : packets[f] = << >>]_vars
  BY DEF ReturnNothing, ListsDone, Lists, BackloggedListed, Listed
<1> QED BY <1>1, ListsCorrect, BacklogListed, PTL DEF FalseMeansEmpty

-----------------------------------------------------------------------------
(* Deficits. *)

\* Each flow's credit and debt are bounded by one quantum and one packet.
THEOREM DeficitsBounded == Spec => []DeficitBounded
<1>1. Init => DeficitBounded
  BY FQCoDelAssumption DEF Init, DeficitBounded
<1>2. Lists /\ DeficitBounded /\ [Next]_vars => DeficitBounded'
  <2> SUFFICES ASSUME Lists, DeficitBounded, [Next]_vars, NEW g \in Flows
               PROVE  /\ deficit'[g] <= Quantum
                      /\ \E s \in Sizes \cup {1} : -deficit'[g] < s
    BY DEF DeficitBounded
  <2>0. /\ deficit[g] \in Int /\ deficit[g] <= Quantum
        /\ Quantum \in Nat /\ Quantum > 0
        /\ \A s \in Sizes : s \in Nat /\ s > 0
    BY FQCoDelAssumption DEF Lists, DeficitBounded
  <2>a. PICK s \in Sizes \cup {1} : -deficit[g] < s
    BY DEF DeficitBounded
  <2>b. s \in Nat
    BY <2>0
  <2>1. CASE deficit'[g] = deficit[g]
    BY <2>0, <2>a, <2>1
  <2>2. CASE deficit'[g] = Quantum
    <3>1. -Quantum < 1 /\ Quantum <= Quantum
      BY <2>0
    <3> QED BY <2>2, <3>1
  <2>3. ASSUME NEW f \in Flows, RecycleFlow(f)
        PROVE  /\ deficit'[g] <= Quantum
               /\ \E r \in Sizes \cup {1} : -deficit'[g] < r
    <3>1. CASE f = g
      <4>1. deficit'[g] = deficit[g] + Quantum /\ deficit[g] <= 0
        BY <2>3, <3>1 DEF RecycleFlow, Refilled, Requeued, Lists
      <4>2. deficit'[g] <= Quantum /\ -deficit'[g] < s
        BY <2>0, <2>a, <2>b, <4>1
      <4> QED BY <4>2
    <3>2. CASE f # g
      BY <2>1, <2>3, <3>2 DEF RecycleFlow, Refilled, Requeued, Lists
    <3> QED BY <3>1, <3>2
  <2>4. ASSUME NEW f \in Flows, TakeCandidate(f)
        PROVE  /\ deficit'[g] <= Quantum
               /\ \E r \in Sizes \cup {1} : -deficit'[g] < r
    <3>1. CASE f = g
      <4> DEFINE size == Head(packets[g]).size
      <4>1. size \in Nat /\ size > 0 /\ size \in Sizes
        BY <2>4, <3>1, TakeTypes, PacketSize
      <4>2. deficit'[g] = deficit[g] - size /\ deficit[g] > 0
        BY <2>4, <3>1 DEF TakeCandidate, Charged, Lists
      <4> HIDE DEF size
      <4>3. deficit'[g] <= Quantum /\ -deficit'[g] < size
        BY <2>0, <4>1, <4>2
      <4> QED BY <4>1, <4>3
    <3>2. CASE f # g
      BY <2>1, <2>4, <3>2 DEF TakeCandidate, Charged, Lists
    <3> QED BY <3>1, <3>2
  <2>5. ASSUME NEW f \in Flows, NEW size \in Sizes, NEW age \in Ages, Enqueue(f, size, age)
        PROVE  deficit'[g] = deficit[g] \/ deficit'[g] = Quantum
    BY <2>5 DEF Enqueue, Announce, NewDeficit, Lists
  <2>6. Tick \/ DequeueCall \/ NewFlowsDone \/ ReturnNothing \/ UNCHANGED vars
          => deficit' = deficit
    BY DEF Tick, DequeueCall, NewFlowsDone, ReturnNothing, ListsDone, vars, flowVars
  <2>7. ASSUME NEW mbps \in Rates, SetLinkRate(mbps) PROVE deficit' = deficit
    BY <2>7 DEF SetLinkRate, flowVars
  <2>8. ASSUME NEW f \in Flows, UnlistEmptyFlow(f) PROVE deficit' = deficit
    BY <2>8 DEF UnlistEmptyFlow, flowVars
  <2>9. \A f \in Flows : DropPacket(f) \/ DeliverPacket(f) => TakeCandidate(f)
    BY DEF DropPacket, DeliverPacket
  <2> QED BY <2>1, <2>2, <2>3, <2>4, <2>5, <2>6, <2>7, <2>8, <2>9
          DEF Next, DequeueLoop, ProcessFlow
<1> QED BY <1>1, <1>2, ListsCorrect, PTL DEF Spec

-----------------------------------------------------------------------------
(* CoDel's types, deadlines and alarm. *)

\* Some d is the rounded down quotient of Interval and the root of n: counting
\* up from 0, the last number whose square times n stays within Interval squared.
LEMMA RootExists ==
  ASSUME NEW n \in Nat \ {0}
  PROVE  \E d \in 0 .. Interval : /\ d * d * n <= Interval * Interval
                                  /\ (d + 1) * (d + 1) * n > Interval * Interval
<1> DEFINE Fits(d) == d * d * n <= Interval * Interval
           S == {d \in Nat : d <= Interval => Fits(d)}
<1>0. Interval \in Nat
  BY FQCoDelAssumption
<1> SUFFICES ASSUME \A d \in 0 .. Interval : Fits(d) => Fits(d + 1)
             PROVE  FALSE
  <2> SUFFICES ASSUME NEW d \in 0 .. Interval, Fits(d), ~Fits(d + 1)
               PROVE  /\ d * d * n <= Interval * Interval
                      /\ (d + 1) * (d + 1) * n > Interval * Interval
    OBVIOUS
  <2>1. /\ (d + 1) * (d + 1) * n \in Int /\ Interval * Interval \in Int
        /\ ~((d + 1) * (d + 1) * n <= Interval * Interval)
    BY <1>0
  <2> QED BY <2>1
<1>1. 0 \in S
  BY <1>0
<1>2. \A d \in Nat : d \in S => d + 1 \in S
  <2> SUFFICES ASSUME NEW d \in Nat, d \in S, d + 1 <= Interval PROVE Fits(d + 1)
    OBVIOUS
  <2>1. d \in 0 .. Interval /\ Fits(d)
    BY <1>0
  <2> HIDE DEF Fits
  <2> QED BY <2>1
<1> HIDE DEF S
<1>3. Interval \in S
  BY <1>0, <1>1, <1>2, NatSetInduction
<1>4. Fits(Interval + 1)
  <2>1. Interval \in 0 .. Interval /\ Fits(Interval)
    BY <1>0, <1>3 DEF S
  <2> HIDE DEF Fits
  <2> QED BY <2>1
<1>5. (Interval + 1) * (Interval + 1) * n > Interval * Interval
  <2> DEFINE a == (Interval + 1) * (Interval + 1)
  <2>1. a \in Nat /\ a > Interval * Interval
    BY <1>0
  <2> HIDE DEF a
  <2>2. a * n >= a
    BY <2>1
  <2>3. a * n > Interval * Interval
    BY <1>0, <2>1, <2>2
  <2> QED BY <2>3 DEF a
<1> QED BY <1>0, <1>4, <1>5

\* The drop schedule is at most one interval ahead, and a whole one at the first drop.
LEMMA RootInInterval ==
  ASSUME NEW n \in Nat \ {0}
  PROVE  /\ IntervalOverRoot(n) \in 0 .. Interval
         /\ n = 1 => IntervalOverRoot(n) = Interval
<1> DEFINE d == IntervalOverRoot(n)
<1>1. /\ d \in 0 .. Interval /\ d * d * n <= Interval * Interval
      /\ (d + 1) * (d + 1) * n > Interval * Interval
  BY RootExists DEF IntervalOverRoot
<1> HIDE DEF d
<1>0. Interval \in Nat
  BY FQCoDelAssumption
<1>2. ASSUME n = 1, d # Interval PROVE FALSE
  <2>1. d + 1 \in Nat /\ d + 1 <= Interval /\ (d + 1) * (d + 1) * n = (d + 1) * (d + 1)
    BY <1>0, <1>1, <1>2
  <2> DEFINE e == d + 1
  <2> HIDE DEF e
  <2>2. e * e <= e * Interval /\ e * Interval <= Interval * Interval
    BY <1>0, <2>1 DEF e
  <2>3. e * e > Interval * Interval
    BY <1>1, <2>1 DEF e
  <2>4. e \in Nat
    BY <2>1 DEF e
  <2> QED BY <1>0, <2>2, <2>3, <2>4
<1> QED BY <1>1, <1>2 DEF d

\* CoDel's state and the counters in their types.
LEMMA InitTypes == Init => TypeOK
<1> SUFFICES ASSUME Init PROVE TypeOK
  OBVIOUS
<1>1. << >> \in Seq(Packet) /\ << >> \in Seq(Flows) /\ Quantum \in Int /\ 0 \in Int
      /\ 0 \in 0 .. CounterModulus - 1 /\ DefaultRate \in {DefaultRate, 1} \cup Rates
  BY FQCoDelAssumption
<1>2. packets \in [Flows -> Seq(Packet)] /\ deficit \in [Flows -> Int]
  BY <1>1 DEF Init
<1>3. /\ total_bytes \in [Flows -> Int] /\ is_sparse \in [Flows -> BOOLEAN]
      /\ drops \in [Flows -> 0 .. CounterModulus - 1]
  BY <1>1 DEF Init
<1>4. /\ first_above \in [Flows -> Nat] /\ drop_next \in [Flows -> Nat]
      /\ count \in [Flows -> Nat] /\ dropping \in [Flows -> BOOLEAN]
  BY DEF Init
<1>5. new_flows \in Seq(Flows) /\ old_flows \in Seq(Flows)
  BY <1>1 DEF Init
<1> QED BY <1>1, <1>2, <1>3, <1>4, <1>5 DEF Init, TypeOK

\* codel_should_drop writes a deadline at most one interval ahead.
LEMMA MeasureTypes ==
  ASSUME Lists, TypeOK, NEW f \in Flows, TakeCandidate(f), Measure(f)
  PROVE  /\ Sojourn(f) \in Nat /\ current_delay' \in Nat
         /\ first_above' \in [Flows -> Nat]
         /\ total_bytes' \in [Flows -> Int]
         /\ \A g \in Flows : \/ first_above'[g] = first_above[g]
                             \/ first_above'[g] = 0
                             \/ first_above'[g] = now_ns + Interval
<1>1. Head(packets[f]).timestamp \in Int /\ Head(packets[f]).size \in Int
  <2>1. Head(packets[f]) \in Packet
    BY TakeTypes
  <2> QED BY <2>1, PacketSize DEF Packet
<1>2. Interval \in Nat /\ now_ns \in Nat
  BY FQCoDelAssumption DEF Lists
<1>3. Sojourn(f) \in Nat
  BY <1>1, <1>2 DEF Sojourn
<1>4. total_bytes' \in [Flows -> Int]
  <2>1. total_bytes \in [Flows -> Int]
    BY DEF TypeOK
  <2>2. Remaining(f) \in Int
    BY <1>1, <2>1 DEF Remaining
  <2> QED BY <2>1, <2>2 DEF TakeCandidate
<1>5. /\ first_above' \in [Flows -> Nat]
      /\ \A g \in Flows : \/ first_above'[g] = first_above[g]
                          \/ first_above'[g] = 0
                          \/ first_above'[g] = now_ns + Interval
  <2>1. first_above \in [Flows -> Nat]
    BY DEF TypeOK
  <2>2. PICK x : /\ first_above' = [first_above EXCEPT ![f] = x]
                 /\ x = first_above[f] \/ x = 0 \/ x = now_ns + Interval
    BY DEF Measure
  <2>3. x \in Nat
    BY <1>2, <2>1, <2>2
  <2> QED BY <2>1, <2>2, <2>3
<1> QED BY <1>3, <1>4, <1>5 DEF Measure

\* Counters stay in their width.
LEMMA BumpTypes ==
  ASSUME NEW c \in 0 .. CounterModulus - 1
  PROVE  Bump(c) \in 0 .. CounterModulus - 1
BY FQCoDelAssumption DEF Bump

\* A drop starts a schedule, moves it on or leaves it.
LEMMA ScheduleTypes ==
  ASSUME Lists, TypeOK, NEW f \in Flows, ScheduleDrop(f)
  PROVE  /\ dropping' \in [Flows -> BOOLEAN] /\ dropping'[f]
         /\ count' \in [Flows -> Nat] /\ drop_next' \in [Flows -> Nat]
         /\ \A g \in Flows \ {f} : /\ dropping'[g] = dropping[g]
                                   /\ count'[g] = count[g]
                                   /\ drop_next'[g] = drop_next[g]
         /\ \/ count'[f] = 1 /\ drop_next'[f] = now_ns + Interval
            \/ /\ dropping[f] /\ drop_next[f] <= now_ns /\ count'[f] = count[f] + 1
               /\ drop_next'[f] \in drop_next[f] .. drop_next[f] + Interval
            \/ dropping[f] /\ count'[f] = count[f] /\ drop_next'[f] = drop_next[f]
<1>0. /\ Interval \in Nat /\ now_ns \in Nat
      /\ dropping \in [Flows -> BOOLEAN] /\ count \in [Flows -> Nat]
      /\ drop_next \in [Flows -> Nat]
  BY FQCoDelAssumption DEF Lists, TypeOK
<1>1. CASE ~dropping[f]
  <2>1. ControlLaw(now_ns, 1) = now_ns + Interval
    BY RootInInterval DEF ControlLaw
  <2>2. /\ dropping' = [dropping EXCEPT ![f] = TRUE]
        /\ count' = [count EXCEPT ![f] = 1]
        /\ drop_next' = [drop_next EXCEPT ![f] = now_ns + Interval]
    BY <1>1, <2>1 DEF ScheduleDrop
  <2>3. now_ns + Interval \in Nat
    BY <1>0
  <2> QED BY <1>0, <2>2, <2>3
<1>2. CASE dropping[f] /\ now_ns >= drop_next[f]
  <2> DEFINE next == ControlLaw(drop_next[f], count[f] + 1)
  <2>1. count[f] + 1 \in Nat \ {0} /\ drop_next[f] \in Nat
    BY <1>0
  <2>2. next \in drop_next[f] .. drop_next[f] + Interval
    <3>1. IntervalOverRoot(count[f] + 1) \in 0 .. Interval
      BY <2>1, RootInInterval
    <3>2. next = drop_next[f] + IntervalOverRoot(count[f] + 1)
      BY <2>1 DEF ControlLaw
    <3> HIDE DEF next
    <3> QED BY <1>0, <2>1, <3>1, <3>2
  <2>3. /\ dropping' = dropping
        /\ count' = [count EXCEPT ![f] = count[f] + 1]
        /\ drop_next' = [drop_next EXCEPT ![f] = next]
    BY <1>2 DEF ScheduleDrop
  <2> HIDE DEF next
  <2>4. next \in Nat
    BY <1>0, <2>1, <2>2
  <2> QED BY <1>0, <1>2, <2>1, <2>2, <2>3, <2>4
<1>3. CASE dropping[f] /\ ~(now_ns >= drop_next[f])
  BY <1>0, <1>3 DEF ScheduleDrop
<1> QED BY <1>1, <1>2, <1>3

\* Every step keeps the types.
LEMMA TypesStep ==
  ASSUME Lists, Lists', TypeOK, [Next]_vars
  PROVE  TypeOK'
<1>0. /\ packets' \in [Flows -> Seq(Packet)] /\ deficit' \in [Flows -> Int]
      /\ new_flows' \in Seq(Flows) /\ old_flows' \in Seq(Flows) /\ now_ns' \in Nat
  BY DEF Lists
<1>a. /\ total_bytes \in [Flows -> Int] /\ is_sparse \in [Flows -> BOOLEAN]
      /\ drops \in [Flows -> 0 .. CounterModulus - 1]
      /\ first_above \in [Flows -> Nat] /\ drop_next \in [Flows -> Nat]
      /\ count \in [Flows -> Nat] /\ dropping \in [Flows -> BOOLEAN]
      /\ bufferbloat_active \in BOOLEAN /\ current_delay \in Nat
      /\ total_drops \in 0 .. CounterModulus - 1
      /\ link_rate \in {DefaultRate, 1} \cup Rates
      /\ pc \in {"idle", "new", "old"} /\ served \in Flows \cup {NoFlow}
  BY DEF TypeOK
<1>b. ASSUME UNCHANGED <<codelVars, reportVars, total_bytes, is_sparse, drops, link_rate>>,
             pc' \in {"idle", "new", "old"}, served' \in Flows \cup {NoFlow}
      PROVE  TypeOK'
  BY <1>b, <1>0, <1>a DEF TypeOK, codelVars, reportVars
<1>1. CASE Tick
  BY <1>1, <1>a, <1>b DEF Tick, flowVars
<1>2. ASSUME NEW mbps \in Rates, SetLinkRate(mbps) PROVE TypeOK'
  <2>1. link_rate' \in {DefaultRate, 1} \cup Rates
    BY <1>2 DEF SetLinkRate
  <2>2. UNCHANGED <<codelVars, reportVars, flowVars, pc, served>>
    BY <1>2 DEF SetLinkRate
  <2> QED BY <1>0, <1>a, <2>1, <2>2 DEF TypeOK, codelVars, reportVars, flowVars
<1>3. ASSUME NEW f \in Flows, NEW size \in Sizes, NEW age \in Ages, Enqueue(f, size, age)
      PROVE  TypeOK'
  <2>1. total_bytes' = [total_bytes EXCEPT ![f] = total_bytes[f] + size] /\ size \in Int
    BY <1>3, FQCoDelAssumption DEF Enqueue
  <2>2. total_bytes' \in [Flows -> Int]
    BY <1>a, <2>1
  <2>3. is_sparse' \in [Flows -> BOOLEAN]
    BY <1>3, <1>a DEF Enqueue
  <2>4. UNCHANGED <<drops, codelVars, reportVars, link_rate, pc, served>>
    BY <1>3 DEF Enqueue
  <2> QED BY <1>0, <1>a, <2>2, <2>3, <2>4 DEF TypeOK, codelVars, reportVars
<1>4. CASE DequeueCall
  BY <1>4, <1>a, <1>b DEF DequeueCall, flowVars
<1>5. ASSUME NEW f \in Flows, UnlistEmptyFlow(f) PROVE TypeOK'
  BY <1>5, <1>a, <1>b DEF UnlistEmptyFlow, flowVars
<1>6. ASSUME NEW f \in Flows, RecycleFlow(f) PROVE TypeOK'
  BY <1>6, <1>a, <1>b DEF RecycleFlow, Refilled, Requeued
<1>7. ASSUME NEW f \in Flows, DropPacket(f) PROVE TypeOK'
  <2>1. TakeCandidate(f) /\ Measure(f) /\ ScheduleDrop(f)
    BY <1>7 DEF DropPacket
  <2>2. /\ current_delay' \in Nat /\ first_above' \in [Flows -> Nat]
        /\ total_bytes' \in [Flows -> Int]
    BY <2>1, MeasureTypes
  <2>3. /\ dropping' \in [Flows -> BOOLEAN]
        /\ count' \in [Flows -> Nat] /\ drop_next' \in [Flows -> Nat]
    BY <2>1, ScheduleTypes
  <2>4. /\ total_drops' = Bump(total_drops)
        /\ drops' = [drops EXCEPT ![f] = Bump(drops[f])]
        /\ bufferbloat_active' = TRUE
        /\ UNCHANGED <<is_sparse, link_rate, pc, served>>
    BY <1>7 DEF DropPacket
  <2>5. /\ total_drops' \in 0 .. CounterModulus - 1
        /\ drops' \in [Flows -> 0 .. CounterModulus - 1]
    BY <1>a, <2>4, BumpTypes
  <2> QED BY <1>0, <1>a, <2>2, <2>3, <2>4, <2>5 DEF TypeOK
<1>8. ASSUME NEW f \in Flows, DeliverPacket(f) PROVE TypeOK'
  <2>1. TakeCandidate(f) /\ Measure(f)
    BY <1>8 DEF DeliverPacket
  <2>2. /\ current_delay' \in Nat /\ first_above' \in [Flows -> Nat]
        /\ total_bytes' \in [Flows -> Int]
    BY <2>1, MeasureTypes
  <2>3. /\ dropping' = [dropping EXCEPT ![f] = dropping[f] /\ ~Recovered(f)]
        /\ bufferbloat_active' = (bufferbloat_active /\ ~Recovered(f))
        /\ pc' = "idle" /\ served' = f
        /\ UNCHANGED <<is_sparse, drops, drop_next, count, total_drops, link_rate>>
    BY <1>8 DEF DeliverPacket, AlarmAfter
  <2>4. dropping' \in [Flows -> BOOLEAN] /\ bufferbloat_active' \in BOOLEAN
    BY <1>a, <2>3
  <2> QED BY <1>0, <1>a, <2>2, <2>3, <2>4 DEF TypeOK
<1>9. CASE NewFlowsDone
  BY <1>9, <1>a, <1>b DEF NewFlowsDone, flowVars
<1>10. CASE ReturnNothing
  BY <1>10, <1>a, <1>b DEF ReturnNothing, flowVars
<1>11. CASE UNCHANGED vars
  BY <1>11, <1>a, <1>b DEF vars, flowVars
<1> QED BY <1>1, <1>2, <1>3, <1>4, <1>5, <1>6, <1>7, <1>8, <1>9, <1>10, <1>11
        DEF Next, DequeueLoop, ProcessFlow

\* The state keeps its types, for any CoDel parameters.
THEOREM TypeCorrect == Spec => []TypeOK
<1>1. Lists /\ Lists' /\ TypeOK /\ [Next]_vars => TypeOK'
  BY TypesStep
<1> QED BY <1>1, InitTypes, ListsCorrect, PTL DEF Spec

\* ScheduleNear of one flow.
NearOf(above, next, n, drops_now, now) ==
  /\ above <= now + Interval /\ next <= now + Interval
  /\ drops_now => n > 0 /\ next > 0

\* Both deadlines of a flow are at most one interval ahead of the clock, and a
\* flow in the dropping state has a schedule: drop_next is moved on by at most an
\* interval, and only once the clock has passed it.
THEOREM DeadlinesNear == Spec => []ScheduleNear
<1>0. Interval \in Nat \ {0}
  BY FQCoDelAssumption
<1>1. Init => ScheduleNear
  BY <1>0 DEF Init, ScheduleNear
<1>2. Lists /\ TypeOK /\ ScheduleNear /\ [Next]_vars => ScheduleNear'
  <2> SUFFICES ASSUME Lists, TypeOK, ScheduleNear, [Next]_vars, NEW g \in Flows
               PROVE  NearOf(first_above'[g], drop_next'[g], count'[g], dropping'[g], now_ns')
    BY DEF ScheduleNear, NearOf
  <2>0. /\ NearOf(first_above[g], drop_next[g], count[g], dropping[g], now_ns)
        /\ first_above[g] \in Nat /\ drop_next[g] \in Nat /\ count[g] \in Nat
        /\ now_ns \in Nat
    BY DEF ScheduleNear, NearOf, TypeOK
  <2>1. CASE Tick
    BY <1>0, <2>0, <2>1 DEF Tick, codelVars, NearOf
  <2>2. CASE UNCHANGED <<codelVars, now_ns>>
    BY <2>0, <2>2 DEF codelVars
  <2>3. ASSUME NEW f \in Flows, TakeCandidate(f), Measure(f)
        PROVE  first_above'[g] <= now_ns + Interval
    <3>1. \/ first_above'[g] = first_above[g]
          \/ first_above'[g] = 0
          \/ first_above'[g] = now_ns + Interval
      BY <2>3, MeasureTypes
    <3> QED BY <1>0, <2>0, <3>1 DEF NearOf
  <2>4. ASSUME NEW f \in Flows, DropPacket(f)
        PROVE  NearOf(first_above'[g], drop_next'[g], count'[g], dropping'[g], now_ns')
    <3>1. /\ TakeCandidate(f) /\ Measure(f) /\ ScheduleDrop(f) /\ now_ns' = now_ns
      BY <2>4 DEF DropPacket
    <3>2. first_above'[g] <= now_ns + Interval
      BY <2>3, <3>1
    <3>3. /\ f # g => /\ dropping'[g] = dropping[g] /\ count'[g] = count[g]
                      /\ drop_next'[g] = drop_next[g]
          /\ f = g =>
              \/ count'[g] = 1 /\ drop_next'[g] = now_ns + Interval
              \/ /\ dropping[g] /\ drop_next[g] <= now_ns /\ count'[g] = count[g] + 1
                 /\ drop_next'[g] \in drop_next[g] .. drop_next[g] + Interval
              \/ dropping[g] /\ count'[g] = count[g] /\ drop_next'[g] = drop_next[g]
      BY <3>1, ScheduleTypes
    <3>4. CASE f # g
      BY <2>0, <3>1, <3>2, <3>3, <3>4 DEF NearOf
    <3>5. CASE f = g
      <4>1. drop_next'[g] <= now_ns + Interval /\ count'[g] > 0 /\ drop_next'[g] > 0
        BY <1>0, <2>0, <3>3, <3>5 DEF NearOf
      <4> QED BY <3>1, <3>2, <4>1 DEF NearOf
    <3> QED BY <3>4, <3>5
  <2>5. ASSUME NEW f \in Flows, DeliverPacket(f)
        PROVE  NearOf(first_above'[g], drop_next'[g], count'[g], dropping'[g], now_ns')
    <3>1. first_above'[g] <= now_ns + Interval
      BY <2>3, <2>5 DEF DeliverPacket
    <3>2. /\ dropping'[g] => dropping[g]
          /\ drop_next' = drop_next /\ count' = count /\ now_ns' = now_ns
      BY <2>5 DEF DeliverPacket, TypeOK
    <3> QED BY <2>0, <3>1, <3>2 DEF NearOf
  <2>6. DequeueCall \/ NewFlowsDone \/ ReturnNothing \/ UNCHANGED vars
          => UNCHANGED <<codelVars, now_ns>>
    BY DEF DequeueCall, NewFlowsDone, ReturnNothing, ListsDone, vars
  <2>7. ASSUME NEW mbps \in Rates, SetLinkRate(mbps) PROVE UNCHANGED <<codelVars, now_ns>>
    BY <2>7 DEF SetLinkRate
  <2>8. ASSUME NEW f \in Flows, NEW size \in Sizes, NEW age \in Ages, Enqueue(f, size, age)
        PROVE  UNCHANGED <<codelVars, now_ns>>
    BY <2>8 DEF Enqueue
  <2>9. ASSUME NEW f \in Flows, UnlistEmptyFlow(f) \/ RecycleFlow(f)
        PROVE  UNCHANGED <<codelVars, now_ns>>
    BY <2>9 DEF UnlistEmptyFlow, RecycleFlow, Refilled, Requeued
  <2> QED BY <2>1, <2>2, <2>4, <2>5, <2>6, <2>7, <2>8, <2>9
          DEF Next, DequeueLoop, ProcessFlow
<1> QED BY <1>1, <1>2, ListsCorrect, TypeCorrect, PTL DEF Spec

\* While the global alarm is on some flow is dropping: the drop that raises it
\* marks its flow, and a flow that recovers clears its mark and the alarm in one step.
THEOREM AlarmCaused == Spec => []AlarmHasCause
<1>1. Init => AlarmHasCause
  BY DEF Init, AlarmHasCause
<1>2. Lists /\ TypeOK /\ AlarmHasCause /\ [Next]_vars => AlarmHasCause'
  <2> SUFFICES ASSUME Lists, TypeOK, AlarmHasCause, [Next]_vars, bufferbloat_active'
               PROVE  \E g \in Flows : dropping'[g]
    BY DEF AlarmHasCause
  <2>1. CASE UNCHANGED <<codelVars, reportVars>>
    BY <2>1 DEF AlarmHasCause, codelVars, reportVars
  <2>2. ASSUME NEW f \in Flows, DropPacket(f) PROVE \E g \in Flows : dropping'[g]
    BY <2>2, ScheduleTypes DEF DropPacket
  <2>3. ASSUME NEW f \in Flows, DeliverPacket(f) PROVE \E g \in Flows : dropping'[g]
    <3>1. bufferbloat_active /\ ~Recovered(f)
      BY <2>3 DEF DeliverPacket, AlarmAfter
    <3>2. PICK g \in Flows : dropping[g]
      BY <3>1 DEF AlarmHasCause
    <3>3. dropping' = [dropping EXCEPT ![f] = dropping[f] /\ ~Recovered(f)]
      BY <2>3 DEF DeliverPacket
    <3>4. dropping \in [Flows -> BOOLEAN]
      BY DEF TypeOK
    <3>5. CASE f = g
      <4>1. dropping'[g] = (dropping[f] /\ ~Recovered(f))
        BY <3>3, <3>4, <3>5
      <4> QED BY <3>1, <3>2, <3>5, <4>1
    <3>6. CASE f # g
      BY <3>2, <3>3, <3>4, <3>6
    <3> QED BY <3>5, <3>6
  <2>6. Tick \/ DequeueCall \/ NewFlowsDone \/ ReturnNothing \/ UNCHANGED vars
          => UNCHANGED <<codelVars, reportVars>>
    BY DEF Tick, DequeueCall, NewFlowsDone, ReturnNothing, ListsDone, vars
  <2>7. ASSUME NEW mbps \in Rates, SetLinkRate(mbps) PROVE UNCHANGED <<codelVars, reportVars>>
    BY <2>7 DEF SetLinkRate
  <2>8. ASSUME NEW f \in Flows, NEW size \in Sizes, NEW age \in Ages, Enqueue(f, size, age)
        PROVE  UNCHANGED <<codelVars, reportVars>>
    BY <2>8 DEF Enqueue
  <2>9. ASSUME NEW f \in Flows, UnlistEmptyFlow(f) \/ RecycleFlow(f)
        PROVE  UNCHANGED <<codelVars, reportVars>>
    BY <2>9 DEF UnlistEmptyFlow, RecycleFlow, Refilled, Requeued
  <2> QED BY <2>1, <2>2, <2>3, <2>6, <2>7, <2>8, <2>9 DEF Next, DequeueLoop, ProcessFlow
<1> QED BY <1>1, <1>2, ListsCorrect, TypeCorrect, PTL DEF Spec

-----------------------------------------------------------------------------
(* The byte count CoDel decides on. *)

\* The bytes of a queue when a packet comes in and when the first one leaves.
LEMMA SizeOfQueue ==
  ASSUME NEW q \in Seq(Packet)
  PROVE  /\ TotalSize(<< >>) = 0
         /\ \A pkt \in Packet : TotalSize(Append(q, pkt)) = TotalSize(q) + pkt.size
         /\ q # << >> => TotalSize(Tail(q)) = TotalSize(q) - Head(q).size
<1> DEFINE Part(r) == [i \in DOMAIN r |-> r[i].size]
<1>1. ASSUME NEW r \in Seq(Packet) PROVE Part(r) \in Seq(Nat) /\ Len(Part(r)) = Len(r)
  <2>1. DOMAIN r = 1 .. Len(r) /\ \A i \in 1 .. Len(r) : r[i] \in Packet
    OBVIOUS
  <2>2. \A i \in 1 .. Len(r) : r[i].size \in Nat
    BY <2>1, PacketSize
  <2>3. Part(r) = [i \in 1 .. Len(r) |-> r[i].size] /\ Len(r) \in Nat
    BY <2>1
  <2> HIDE DEF Part
  <2> QED BY <2>2, <2>3
<1>2. Part(q) \in Seq(Nat)
  BY <1>1
<1>3. TotalSize(<< >>) = 0
  <2>1. Part(<< >>) = << >>
    OBVIOUS
  <2>2. SumFunction(<< >>) = 0
    BY <1>2, SumQueue
  <2> HIDE DEF Part
  <2> QED BY <2>1, <2>2 DEF TotalSize, Part
<1>4. ASSUME NEW pkt \in Packet PROVE TotalSize(Append(q, pkt)) = TotalSize(q) + pkt.size
  <2>1. Append(q, pkt) \in Seq(Packet) /\ Len(Append(q, pkt)) = Len(q) + 1 /\ Len(q) \in Nat
    OBVIOUS
  <2>2. Part(Append(q, pkt)) = Append(Part(q), pkt.size)
    <3> DEFINE a == Part(Append(q, pkt))
               b == Append(Part(q), pkt.size)
    <3>1. a \in Seq(Nat) /\ Len(a) = Len(q) + 1
      BY <1>1, <2>1
    <3>2. b \in Seq(Nat) /\ Len(b) = Len(q) + 1 /\ Part(q) \in Seq(Nat) /\ Len(Part(q)) = Len(q)
      <4>1. pkt.size \in Nat /\ Part(q) \in Seq(Nat) /\ Len(Part(q)) = Len(q)
        BY <1>1, PacketSize
      <4> HIDE DEF Part
      <4> QED BY <4>1
    <3>3. \A i \in 1 .. Len(q) + 1 : a[i] = Append(q, pkt)[i].size
      BY <2>1
    <3>4. /\ \A i \in 1 .. Len(q) : Part(q)[i] = q[i].size /\ Append(q, pkt)[i] = q[i]
          /\ Append(q, pkt)[Len(q) + 1] = pkt
      OBVIOUS
    <3>5. /\ \A i \in 1 .. Len(q) : b[i] = Part(q)[i]
          /\ b[Len(q) + 1] = pkt.size
      <4> HIDE DEF Part
      <4> QED BY <3>2
    <3> HIDE DEF a, b, Part
    <3>6. \A i \in 1 .. Len(q) + 1 : a[i] = b[i]
      <4>1. \A i \in 1 .. Len(q) + 1 : i \in 1 .. Len(q) \/ i = Len(q) + 1
        OBVIOUS
      <4> QED BY <3>3, <3>4, <3>5, <4>1
    <3>7. a = b
      BY <3>1, <3>2, <3>6
    <3> QED BY <3>7 DEF a, b
  <2>3. pkt.size \in Nat
    BY PacketSize
  <2>4. SumFunction(Append(Part(q), pkt.size)) = SumFunction(Part(q)) + pkt.size
    BY <1>2, <2>3, SumQueue
  <2> QED BY <2>2, <2>4 DEF TotalSize
<1>5. ASSUME q # << >> PROVE TotalSize(Tail(q)) = TotalSize(q) - Head(q).size
  <2>1. Part(q) # << >> /\ Head(Part(q)) = Head(q).size
    BY <1>5
  <2>2. Part(Tail(q)) = Tail(Part(q))
    <3>1. /\ Tail(q) \in Seq(Packet) /\ Len(Tail(q)) = Len(q) - 1 /\ Len(q) \in Nat
          /\ \A i \in 1 .. Len(q) - 1 : Tail(q)[i] = q[i + 1] /\ i + 1 \in 1 .. Len(q)
      BY <1>5
    <3>2. Part(Tail(q)) \in Seq(Nat) /\ Len(Part(Tail(q))) = Len(q) - 1
      BY <1>1, <3>1
    <3>3. \A i \in 1 .. Len(q) - 1 : Part(Tail(q))[i] = Tail(q)[i].size
      BY <3>1
    <3>4. \A i \in 1 .. Len(q) : Part(q)[i] = q[i].size
      OBVIOUS
    <3>5. Part(q) \in Seq(Nat) /\ Len(Part(q)) = Len(q)
      BY <1>1
    <3> HIDE DEF Part
    <3>6. /\ Tail(Part(q)) \in Seq(Nat) /\ Len(Tail(Part(q))) = Len(q) - 1
          /\ \A i \in 1 .. Len(q) - 1 : Tail(Part(q))[i] = Part(q)[i + 1]
      BY <2>1, <3>5
    <3>7. \A i \in 1 .. Len(q) - 1 : Tail(Part(q))[i] = Part(Tail(q))[i]
      BY <3>1, <3>3, <3>4, <3>6
    <3> DEFINE a == Part(Tail(q))
               b == Tail(Part(q))
               n == Len(q) - 1
    <3>8. a \in Seq(Nat) /\ b \in Seq(Nat) /\ Len(a) = n /\ Len(b) = n
      BY <3>2, <3>6
    <3>9. \A i \in 1 .. n : a[i] = b[i]
      BY <3>7
    <3> HIDE DEF a, b, n
    <3>10. a = b
      BY <3>8, <3>9
    <3> QED BY <3>10 DEF a, b
  <2>3. Tail(Part(q)) \in Seq(Nat) /\ Head(q).size \in Nat
    <3>1. Head(q) \in Packet
      BY <1>5
    <3>2. Head(q).size \in Nat
      BY <3>1, PacketSize
    <3>3. Tail(Part(q)) \in Seq(Nat)
      <4> HIDE DEF Part
      <4> QED BY <1>2, <2>1, Ends
    <3> QED BY <3>2, <3>3
  <2>4. SumFunction(Part(q)) = Head(q).size + SumFunction(Tail(Part(q)))
    BY <1>2, <2>1, SumQueue
  <2>5. SumFunction(Tail(Part(q))) \in Nat
    BY <2>3, SumQueue
  <2> DEFINE all == SumFunction(Part(q))
             rest == SumFunction(Tail(Part(q)))
  <2> HIDE DEF Part
  <2>6. TotalSize(q) = all /\ TotalSize(Tail(q)) = rest
    BY <2>2 DEF TotalSize, Part
  <2> HIDE DEF all, rest
  <2>7. rest = all - Head(q).size
    BY <2>3, <2>4, <2>5 DEF all, rest
  <2> QED BY <2>6, <2>7
<1> QED BY <1>3, <1>4, <1>5

\* total_bytes is the size of the queue, flow by flow.
Bytes == \A f \in Flows : total_bytes[f] = TotalSize(packets[f])

\* A candidate leaves the byte count together with the queue.
LEMMA CandidateBytes ==
  ASSUME Lists, TypeOK, Bytes, NEW f \in Flows, TakeCandidate(f)
  PROVE  Bytes'
<1>1. packets[f] \in Seq(Packet) /\ packets[f] # << >>
  BY DEF Lists, TakeCandidate
<1>2. TotalSize(Tail(packets[f])) = Remaining(f)
  BY <1>1, SizeOfQueue DEF Bytes, Remaining
<1>3. /\ packets' = [packets EXCEPT ![f] = Tail(packets[f])]
      /\ total_bytes' = [total_bytes EXCEPT ![f] = Remaining(f)]
  BY DEF TakeCandidate
<1>4. ASSUME NEW g \in Flows PROVE total_bytes'[g] = TotalSize(packets'[g])
  <2>1. CASE g = f
    BY <1>2, <1>3, <2>1 DEF Lists, TypeOK
  <2>2. CASE g # f
    BY <1>3, <2>2 DEF Lists, TypeOK, Bytes
  <2> QED BY <2>1, <2>2
<1> QED BY <1>4 DEF Bytes

\* The byte count follows the queue through enqueue, drops and deliveries.
THEOREM BytesAlwaysMatch == Spec => []BytesMatch
<1>1. Init => Bytes
  <2>1. << >> \in Seq(Packet)
    OBVIOUS
  <2>2. TotalSize(<< >>) = 0
    BY <2>1, SizeOfQueue
  <2> QED BY <2>2 DEF Init, Bytes
<1>2. Lists /\ TypeOK /\ Bytes /\ [Next]_vars => Bytes'
  <2> SUFFICES ASSUME Lists, TypeOK, Bytes, [Next]_vars PROVE Bytes'
    OBVIOUS
  <2>1. CASE UNCHANGED <<packets, total_bytes>>
    BY <2>1 DEF Bytes
  <2>2. ASSUME NEW f \in Flows, NEW size \in Sizes, NEW age \in Ages, Enqueue(f, size, age)
        PROVE  Bytes'
    <3> DEFINE pkt == [size |-> size, timestamp |-> now_ns - age]
    <3>1. pkt \in Packet /\ pkt.size = size
      BY FQCoDelAssumption DEF Packet, Lists
    <3>2. /\ packets' = [packets EXCEPT ![f] = Append(packets[f], pkt)]
          /\ total_bytes' = [total_bytes EXCEPT ![f] = total_bytes[f] + size]
      BY <2>2 DEF Enqueue
    <3> HIDE DEF pkt
    <3>3. packets[f] \in Seq(Packet)
      BY DEF Lists
    <3>4. TotalSize(Append(packets[f], pkt)) = total_bytes[f] + size
      BY <3>1, <3>3, SizeOfQueue DEF Bytes
    <3>5. ASSUME NEW g \in Flows PROVE total_bytes'[g] = TotalSize(packets'[g])
      <4>1. CASE g = f
        BY <3>2, <3>4, <4>1 DEF Lists, TypeOK
      <4>2. CASE g # f
        BY <3>2, <4>2 DEF Lists, TypeOK, Bytes
      <4> QED BY <4>1, <4>2
    <3> QED BY <3>5 DEF Bytes
  <2>3. \A f \in Flows : DropPacket(f) \/ DeliverPacket(f) => TakeCandidate(f)
    BY DEF DropPacket, DeliverPacket
  <2>4. Tick \/ DequeueCall \/ NewFlowsDone \/ ReturnNothing \/ UNCHANGED vars
          => UNCHANGED <<packets, total_bytes>>
    BY DEF Tick, DequeueCall, NewFlowsDone, ReturnNothing, vars, flowVars
  <2>5. ASSUME NEW mbps \in Rates, SetLinkRate(mbps) PROVE UNCHANGED <<packets, total_bytes>>
    BY <2>5 DEF SetLinkRate, flowVars
  <2>6. ASSUME NEW f \in Flows, UnlistEmptyFlow(f) \/ RecycleFlow(f)
        PROVE  UNCHANGED <<packets, total_bytes>>
    BY <2>6 DEF UnlistEmptyFlow, RecycleFlow, flowVars
  <2> QED BY <2>1, <2>2, <2>3, <2>4, <2>5, <2>6, CandidateBytes
          DEF Next, DequeueLoop, ProcessFlow
<1>3. TypeOK /\ Bytes => BytesMatch
  BY DEF BytesMatch, Bytes
<1> QED BY <1>1, <1>2, <1>3, ListsCorrect, TypeCorrect, PTL DEF Spec

\* A drop leaves the flow another packet: CoDel is in control while what remains
\* is less than a quantum, and the count it looks at is that of the queue.
THEOREM DropsLeaveBacklog == Spec => DropLeavesBacklog
<1>1. Lists /\ BytesMatch =>
        [\A f \in Flows : DropPacket(f) => packets'[f] # << >>]_vars
  <2> SUFFICES ASSUME Lists, BytesMatch, NEW f \in Flows, DropPacket(f)
               PROVE  packets'[f] # << >>
    BY Zenon
  <2>1. packets[f] \in Seq(Packet) /\ packets[f] # << >> /\ TakeCandidate(f)
    BY DEF Lists, DropPacket, TakeCandidate
  <2>2. packets'[f] = Tail(packets[f])
    BY <2>1 DEF Lists, TakeCandidate
  <2>3. TotalSize(Tail(packets[f])) = Remaining(f) /\ TotalSize(<< >>) = 0
    BY <2>1, SizeOfQueue DEF BytesMatch, Remaining
  <2>4. ~(Remaining(f) < Quantum)
    BY DEF DropPacket, ShouldDrop, InControl
  <2>5. Quantum \in Nat \ {0}
    BY FQCoDelAssumption
  <2>6. ASSUME Tail(packets[f]) = << >> PROVE FALSE
    <3>1. Remaining(f) = 0
      BY <2>3, <2>6, Zenon
    <3> QED BY <2>4, <2>5, <3>1
  <2> QED BY <2>2, <2>6
<1> QED BY <1>1, ListsCorrect, BytesAlwaysMatch, PTL DEF DropLeavesBacklog
=============================================================================
