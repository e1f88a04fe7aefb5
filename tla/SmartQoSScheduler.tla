------------------------- MODULE SmartQoSScheduler -------------------------
(***************************************************************************)
(* The five-class egress scheduler of src/qos/smart_scheduler.cpp: tail    *)
(* drop per class, strict priority for class 0, a deficit scan for the     *)
(* others, and the bufferbloat estimate refreshed on every enqueue.  One   *)
(* mutex covers every method, so a method is one action.                   *)
(*                                                                         *)
(* A queued packet is its size.  Sizes, weights and rates are in small     *)
(* units; a delay is the pair (bytes, rate) it is computed from, so        *)
(* comparing it with 25 ms is comparing bytes with BloatBytes * rate.      *)
(***************************************************************************)
EXTENDS Integers, Sequences, SequencesExt

CONSTANTS
  NumQueues,       \* NUM_QOS_QUEUES
  Depth,           \* QOS_QUEUE_DEPTH
  Classes,         \* values of meta().traffic_class
  BestEffort,      \* TrafficClass::BEST_EFFORT
  Sizes,           \* packet sizes
  Weight,          \* weights_
  DefaultRate,     \* initial link_rate_mbps_
  Rates,           \* arguments of set_wireless_link_rate_mbps
  BloatBytes,      \* bytes a link of rate 1 sends in 25 ms (3125)
  CounterModulus,  \* number of values of a statistics counter (2^64)
  DeficitHalf      \* half the number of values of a deficit (2^31)

Queues == 0 .. NumQueues - 1
RoundRobin == 1 .. NumQueues - 1

ASSUME QoSAssumption ==
  /\ NumQueues \in Nat \ {0} /\ Depth \in Nat \ {0}
  /\ Classes \subseteq Nat /\ BestEffort \in Queues
  /\ Sizes \subseteq Nat \ {0}
  /\ Weight \in [Queues -> Nat]
  /\ DefaultRate \in Nat \ {0} /\ Rates \subseteq Nat
  /\ BloatBytes \in Nat
  /\ CounterModulus \in Nat \ {0} /\ DeficitHalf \in Nat \ {0}

VARIABLES
  queues,               \* queues_: sizes of the packets of each class, oldest first
  deficits,             \* deficits_
  enqueued, dequeued, dropped, occupancy,  \* stats_, one function per field
  link_rate,            \* link_rate_mbps_
  measured,             \* bytes per queue and link rate of the last refresh:
                        \* total_latency_ms_ and stats_[i].current_delay_ms
  bufferbloat_detected, \* bufferbloat_detected_
  served                \* what the last dequeue() returned: a class, or NoQueue

statVars == <<enqueued, dequeued, dropped, occupancy>>
congestionVars == <<measured, bufferbloat_detected>>
vars == <<queues, deficits, statVars, link_rate, congestionVars, served>>

\* dequeue() returned false, or was never called.
NoQueue == NumQueues

Bytes(q) == FoldSeq(+, 0, q)

\* Mutant of Backlog: the queues before the push.
BacklogBefore(qs) == [i \in Queues |-> Bytes(queues[i])]

Backlog(qs) == [i \in Queues |-> Bytes(qs[i])]

Bump(counter) == (counter + 1) % CounterModulus

\* Conversion to int32_t.
ToDeficit(x) == ((x + DeficitHalf) % (2 * DeficitHalf)) - DeficitHalf

\* Out-of-range classes are handled as best effort.
QueueIndex(class) == IF class >= NumQueues THEN BestEffort ELSE class

-----------------------------------------------------------------------------
Init ==
  /\ queues = [i \in Queues |-> << >>]
  /\ deficits = [i \in Queues |-> 0]
  /\ enqueued = [i \in Queues |-> 0]
  /\ dequeued = [i \in Queues |-> 0]
  /\ dropped = [i \in Queues |-> 0]
  /\ occupancy = [i \in Queues |-> 0]
  /\ link_rate = DefaultRate
  /\ measured = [bytes |-> [i \in Queues |-> 0], rate |-> DefaultRate]
  /\ bufferbloat_detected = FALSE
  /\ served = NoQueue

SetLinkRate(mbps) ==
  /\ link_rate' = IF mbps < 1 THEN 1 ELSE mbps
  /\ UNCHANGED <<queues, deficits, statVars, congestionVars, served>>

\* The last statement of a successful enqueue.
UpdateCongestionState(qs) ==
  /\ measured' = [bytes |-> Backlog(qs), rate |-> link_rate]
  /\ bufferbloat_detected' = (SumFunction(Backlog(qs)) > BloatBytes * link_rate)

\* The method is public: anyone may call it between two others.
Refresh ==
  /\ UpdateCongestionState(queues)
  /\ UNCHANGED <<queues, deficits, statVars, link_rate, served>>

\* Mutant of HasRoom: room for one packet too many.
HasRoomForOneMore(i) == Len(queues[i]) <= Depth

HasRoom(i) == Len(queues[i]) < Depth

TailDrop(i) ==
  /\ ~HasRoom(i)
  /\ dropped' = [dropped EXCEPT ![i] = Bump(@)]
  /\ UNCHANGED <<queues, deficits, enqueued, dequeued, occupancy, link_rate,
                 congestionVars, served>>

Accept(i, size) ==
  /\ HasRoom(i)
  /\ queues' = [queues EXCEPT ![i] = Append(@, size)]
  /\ enqueued' = [enqueued EXCEPT ![i] = Bump(@)]
  /\ occupancy' = [occupancy EXCEPT ![i] = Len(queues[i]) + 1]
  /\ UpdateCongestionState(queues')
  /\ UNCHANGED <<deficits, dequeued, dropped, link_rate, served>>

Enqueue(class, size) ==
  \/ TailDrop(QueueIndex(class))
  \/ Accept(QueueIndex(class), size)

\* pop_front of queue i with its statistics; dequeue() returns true.
Serve(i) ==
  /\ queues' = [queues EXCEPT ![i] = Tail(@)]
  /\ dequeued' = [dequeued EXCEPT ![i] = Bump(@)]
  /\ occupancy' = [occupancy EXCEPT ![i] = Len(queues[i]) - 1]
  /\ served' = i
  /\ UNCHANGED <<enqueued, dropped, link_rate, congestionVars>>

DequeueStrict ==
  /\ queues[0] # << >>
  /\ Serve(0)
  /\ UNCHANGED deficits

\* The scan reaches i with enough deficit for its first packet.
Affordable(i) ==
  queues[i] # << >> /\ ToDeficit(deficits[i] + Weight[i]) >= Head(queues[i])

\* Mutants of Passed: no reset of an empty class, and no memory of a scan.
PassedNoReset(i) == ToDeficit(deficits[i] + Weight[i])
PassedForgotten(i) == 0

\* The deficit of a queue the scan passes without serving it.
Passed(i) == IF queues[i] = << >> THEN 0 ELSE ToDeficit(deficits[i] + Weight[i])

\* The deficit of the queue the scan serves, which ends the call: a queue
\* emptied by its own service keeps the remainder.
Charged(i) == ToDeficit(ToDeficit(deficits[i] + Weight[i]) - Head(queues[i]))

DequeueRoundRobin(i) ==
  /\ queues[0] = << >>
  /\ Affordable(i)
  /\ \A j \in 1 .. i - 1 : ~Affordable(j)
  /\ deficits' = [j \in Queues |->
                    IF j \in 1 .. i - 1 THEN Passed(j)
                    ELSE IF j = i THEN Charged(i) ELSE deficits[j]]
  /\ Serve(i)

\* The scan serves nothing; dequeue() returns false.
DequeueNothing ==
  /\ queues[0] = << >>
  /\ \A j \in RoundRobin : ~Affordable(j)
  /\ deficits' = [j \in Queues |-> IF j \in RoundRobin THEN Passed(j) ELSE deficits[j]]
  /\ served' = NoQueue
  /\ UNCHANGED <<queues, statVars, link_rate, congestionVars>>

Dequeue ==
  \/ DequeueStrict
  \/ \E i \in RoundRobin : DequeueRoundRobin(i)
  \/ DequeueNothing

Next ==
  \/ \E class \in Classes, size \in Sizes : Enqueue(class, size)
  \/ Dequeue
  \/ \E mbps \in Rates : SetLinkRate(mbps)
  \/ Refresh

Spec == Init /\ [][Next]_vars

\* The transmit loop calls dequeue on every iteration (src/main.cpp:131).
FairSpec == Spec /\ WF_vars(Dequeue)

-----------------------------------------------------------------------------
\* Types, part of NoHiddenBloat; no class holds more than Depth packets.
TypeOK ==
  /\ queues \in [Queues -> Seq(Sizes)]
  /\ \A i \in Queues : Len(queues[i]) <= Depth
  /\ deficits \in [Queues -> -DeficitHalf .. DeficitHalf - 1]
  /\ enqueued \in [Queues -> 0 .. CounterModulus - 1]
  /\ dequeued \in [Queues -> 0 .. CounterModulus - 1]
  /\ dropped \in [Queues -> 0 .. CounterModulus - 1]
  /\ occupancy \in [Queues -> 0 .. Depth]
  /\ link_rate \in {DefaultRate, 1} \cup Rates
  /\ bufferbloat_detected \in BOOLEAN
  /\ served \in Queues \cup {NoQueue}

\* The statistics account for every packet across tail drops, both ways of
\* being served and counters that wrap: what was enqueued is dequeued or still
\* queued, and the reported occupancy is the real one.  Part of the account that
\* DataPath keeps of the whole pipeline.
PacketsAccounted ==
  \A i \in Queues :
    /\ occupancy[i] = Len(queues[i])
    /\ enqueued[i] = (dequeued[i] + Len(queues[i])) % CounterModulus

\* Frames are at least as long as the weight of class i, as padded Ethernet frames are.
FramesCover(i) == \A s \in Sizes : Weight[i] <= s

\* int32_t holds the largest packet and the weight of class i together.
CreditFits(i) == \A s \in Sizes \cup {1} : s + Weight[i] < DeficitHalf

\* When both hold of a class, no sequence of scans, services and resets lets it
\* save up more than the largest packet's worth of credit, or owe any: its deficit
\* never wraps and a burst after an idle spell is bounded.  What the frames of the
\* other classes are makes no difference.
DeficitBounded ==
  \A i \in RoundRobin :
    FramesCover(i) /\ CreditFits(i) =>
      0 <= deficits[i] /\ \E s \in Sizes \cup {1} : deficits[i] < s

\* The refreshed estimate is out of date after a dequeue, a tail drop or a
\* change of link rate, but at an unchanged rate it never hides congestion:
\* no backlog above 25 ms goes without the flag, and no class has a longer
\* delay than the statistics say.
NoHiddenBloat ==
  /\ TypeOK
  /\ link_rate = measured.rate =>
    /\ SumFunction(Backlog(queues)) > BloatBytes * link_rate => bufferbloat_detected
    /\ \A i \in Queues : Bytes(queues[i]) <= measured.bytes[i]

\* Calls that return false while packets wait are not lost: once nothing more
\* is enqueued, repeated calls to dequeue empty every class.
Drains ==
  <>[][~\E class \in Classes, size \in Sizes : Accept(QueueIndex(class), size)]_vars
    => <>[](\A i \in Queues : queues[i] = << >>)

\* Every packet of class i is longer than the class's weight.
LongFrames(i) == \A n \in DOMAIN queues[i] : queues[i][n] > Weight[i]

\* A scan ends with the first class it serves, and a class whose packets are no
\* longer than its weight is served by every scan: the classes after it starve.  That
\* is the only way to starve: while strict-priority traffic leaves room and the
\* classes before class i carry longer frames only, a backlogged class i is served
\* again and again, however long they stay backlogged and whatever its own frames.
NoStarvation ==
  \A i \in RoundRobin :
    <>[](queues[0] = << >> /\ \A j \in 1 .. i - 1 : LongFrames(j))
      => []<>(queues[i] = << >> \/ served = i)

\* "return false; // All queues empty" (src/qos/smart_scheduler.cpp:78).
FalseMeansEmpty ==
  [][DequeueNothing => \A i \in Queues : queues[i] = << >>]_vars
=============================================================================
