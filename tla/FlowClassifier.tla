--------------------------- MODULE FlowClassifier ---------------------------
(***************************************************************************)
(* What src/qos/flow_classifier.cpp keeps of a flow and how it classifies  *)
(* it: windows of the last inter-arrival times and packet sizes, features  *)
(* computed from them with every packet but the first, and a prediction    *)
(* from the features.  track_and_update holds the lock of the flow table   *)
(* and returns a reference into it; classify_flow runs without the lock.   *)
(*                                                                         *)
(* The model follows one flow, any of Flows: flows share nothing but the   *)
(* table and the next id.  A packet is its size and the time since the one *)
(* before it, which may be negative: packets are stamped when they are     *)
(* made.  Sizes fit the 16 bits they are kept in.  A ratio of deviation    *)
(* and mean is compared exactly, where the code computes in floating point.*)
(***************************************************************************)
EXTENDS FlowClasses, FiniteSets, SequencesExt

CONSTANTS
  Flows,        \* protocol and ports of a flow
  Gaps,         \* times between packets
  Sizes,        \* packet sizes
  Micro,        \* a microsecond (1000 ns)
  Window,       \* length of the windows (50)
  CountCap      \* packet_count saturates here, above VideoAfter and Window

ASSUME ClassifierAssumption ==
  /\ Window \in Nat \ {0, 1} /\ Micro \in Nat \ {0}
  /\ Gaps \subseteq Int /\ Sizes \subseteq Nat \ {0}
  /\ CountCap \in Nat /\ CountCap > VideoAfter /\ CountCap > Window

VARIABLES
  flow,
  at,     \* the method to be called next
  stats,  \* the entry of flow_table_
  past    \* the last Window packets of the flow; the program does not keep them

vars == <<flow, at, stats, past>>

\* The time before the first packet of a flow.
None == -1

\* The time from the packet before, in microseconds.
InterArrival(gap) == IF gap > 0 THEN gap \div Micro ELSE 1

\* Mutant of Slide: one element too many.
SlideLate(window, x) ==
  IF Len(window) > Window THEN Append(Tail(window), x) ELSE Append(window, x)

\* push_back, then pop_front of a deque that has grown too long.
Slide(window, x) ==
  IF Len(window) = Window THEN Append(Tail(window), x) ELSE Append(window, x)

Total(s) ==
  LET upto[i \in 0 .. Len(s)] == IF i = 0 THEN 0 ELSE upto[i - 1] + s[i]
  IN upto[Len(s)]

\* The squares of the differences from the mean, summed, are Deviation(s) / Len(s).
Deviation(s) == Len(s) * Total([i \in DOMAIN s |-> s[i] ^ 2]) - Total(s) ^ 2

\* How many of Ratios stddev / mean has reached, n the divisor of the squares; the
\* mean is above 0.
RatiosReached(s, n) ==
  Cardinality({i \in DOMAIN Ratios :
    10000 * Len(s) * Deviation(s) >= Ratios[i] ^ 2 * n * Total(s) ^ 2})

\* Mutant of BurstinessOf: the deviation of a sample.
BurstinessOfSample(s) == RatiosReached(s, Len(s) - 1)

BurstinessOf(s) == RatiosReached(s, Len(s))

\* Two intervals make a deviation, and a mean of 0 makes no ratio.
HasRatio(iats) == Len(iats) >= 2 /\ Total(iats) > 0

\* compute_statistical_features; without a ratio the last one is kept.
ComputeFeatures(s) ==
  [s EXCEPT !.burst = IF HasRatio(s.iats) THEN BurstinessOf(s.iats) ELSE @,
            !.mean = [sum |-> Total(s.sizes), of |-> Len(s.sizes)]]

-----------------------------------------------------------------------------
\* default member initialisers of FlowStats
NewStats ==
  [packet_count |-> 0, iats |-> << >>, sizes |-> << >>, burst |-> 0,
   mean |-> [sum |-> 0, of |-> 1], predicted |-> BestEffort]

Init == flow \in Flows /\ at = "track" /\ stats = NewStats /\ past = << >>

\* A new entry: no features are computed.
TrackFirst(size) ==
  /\ stats.packet_count = 0
  /\ stats' = [stats EXCEPT !.packet_count = 1, !.sizes = <<size>>]
  /\ past' = <<[iat |-> None, size |-> size]>>

TrackNext(gap, size) ==
  /\ stats.packet_count > 0
  /\ stats' = ComputeFeatures([stats EXCEPT
                !.packet_count = IF @ < CountCap THEN @ + 1 ELSE @,
                !.iats = Slide(@, InterArrival(gap)),
                !.sizes = Slide(@, size)])
  /\ past' = Append(IF Len(past) < Window THEN past ELSE Tail(past),
                    [iat |-> InterArrival(gap), size |-> size])

TrackAndUpdate(gap, size) ==
  /\ at = "track" /\ at' = "classify"
  /\ TrackFirst(size) \/ TrackNext(gap, size)
  /\ UNCHANGED flow

Classify ==
  /\ at = "classify" /\ at' = "track"
  /\ stats' = [stats EXCEPT !.predicted =
                 ClassifyFlow(flow, stats.packet_count, stats.mean, stats.burst)]
  /\ UNCHANGED <<flow, past>>

Next == Classify \/ \E gap \in Gaps, size \in Sizes : TrackAndUpdate(gap, size)

Spec == Init /\ [][Next]_vars

\* Who has tracked a packet classifies its flow; packets keep coming.
FairSpec == Spec /\ WF_vars(Next)

-----------------------------------------------------------------------------
RecentSizes == [i \in DOMAIN past |-> past[i].size]
RecentIats ==
  LET timed == IF past # << >> /\ Head(past).iat = None THEN Tail(past) ELSE past
  IN [i \in DOMAIN timed |-> timed[i].iat]

\* The prediction is that of the last Window packets, whatever came before them,
\* as long as some time passed between them; the features of a flow of one packet
\* are those of no packet, and its burstiness that of no interval until two are
\* known.
PredictsRecent ==
  /\ at \in {"track", "classify"} /\ stats.packet_count \in 0 .. CountCap
  /\ stats.burst \in Burstiness(stats.packet_count)
  /\ (at = "track" /\ HasRatio(RecentIats)) =>
       stats.predicted = ClassifyFlow(flow, stats.packet_count,
                                      [sum |-> Total(RecentSizes), of |-> Len(past)],
                                      BurstinessOf(RecentIats))

\* The packet tracked by a step is small and comes low to 7 * low microseconds
\* after the one before.
SteadyStep(low) ==
  at' = "classify" =>
    LET packet == Last(past')
    IN packet.size < Small /\ packet.iat \in low .. 7 * low

\* A UDP flow that has become steady, its packets small and the times between them
\* within a factor of 7, is in the end a gaming flow and stays one, whatever it
\* did before and whatever the order of the times.
SettlesToGaming ==
  \A low \in {InterArrival(gap) : gap \in Gaps} \ {0} :
    (flow.proto = "udp" /\ ~ControlTraffic(flow) /\ <>[][SteadyStep(low)]_vars)
      => <>[](at = "track" => stats.predicted = Gaming)

\* Claim of the comment on the second branch of classify_flow: gaming flows are of
\* small packets.  The first packet of any UDP flow makes it one, whatever its
\* size, because a new entry has a mean size of 0.
GamingIsSmall ==
  stats.predicted = Gaming => \E i \in DOMAIN past : past[i].size < Small
=============================================================================
