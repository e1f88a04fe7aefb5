--------------------------- MODULE DataPathProofs ---------------------------
(***************************************************************************)
(* Proofs about DataPath, the parser in front of it and the classifier     *)
(* beside it, for any frames, programs, rules, sizes, intervals, counter   *)
(* width and limits.                                                       *)
(***************************************************************************)
EXTENDS DataPath, CountingLemmas, TLAPS

Sched == INSTANCE SmartQoSSchedulerProofs

-----------------------------------------------------------------------------
(* The parser. *)

\* The metadata of a frame depend on the bytes in its buffer only: two frames that
\* agree as far as their headers are complete are parsed alike, wherever the cut
\* is.
THEOREM ParserReadsBuffer ==
  ASSUME NEW sizes PROVE MetadataFromBuffer(sizes)
<1> SUFFICES ASSUME NEW f \in FrameType(sizes), NEW g \in FrameType(sizes), SameBytes(f, g)
             PROVE  ParseHeaders(f) = ParseHeaders(g)
  BY DEF MetadataFromBuffer
<1> USE DEF FrameType
<1>1. f.complete \in 0 .. 4 /\ g.complete = f.complete /\ g.size = f.size
  BY DEF SameBytes
<1>2. CASE f.complete < 2
  BY <1>1, <1>2 DEF ParseHeaders, Unparsable, L3
<1>3. CASE f.complete >= 2
  <2>1. f.tagged = g.tagged /\ f.type = g.type /\ L3(f) = L3(g)
    BY <1>1, <1>3 DEF SameBytes, L3
  <2>2. CASE f.complete < L3(f)
    BY <1>1, <2>1, <2>2 DEF ParseHeaders, Unparsable
  <2>3. CASE f.complete = L3(f)
    BY <1>1, <2>1, <2>3 DEF SameBytes, ParseHeaders, Unparsable, Ports, L3
  <2>4. CASE f.complete > L3(f)
    BY <1>1, <2>1, <2>4 DEF SameBytes, ParseHeaders, Unparsable, Ports, L3
  <2> QED BY <1>1, <2>2, <2>3, <2>4 DEF L3
<1> QED BY <1>1, <1>2, <1>3

\* A tag moves the headers behind it and changes nothing else.
THEOREM ParserSkipsTag ==
  ASSUME NEW sizes PROVE TagTransparent(sizes)
<1> SUFFICES ASSUME NEW f \in FrameType(sizes), f.tagged, f.complete > 0
             PROVE  ParseHeaders(f) =
                      ParseHeaders([f EXCEPT !.tagged = FALSE, !.complete = @ - 1])
  BY DEF TagTransparent
<1> DEFINE g == [f EXCEPT !.tagged = FALSE, !.complete = @ - 1]
<1>1. /\ f.complete \in 1 .. 4 /\ g.complete = f.complete - 1
      /\ g.type = f.type /\ g.proto = f.proto /\ g.short_ihl = f.short_ihl
      /\ g.port = f.port /\ g.size = f.size
      /\ f.tagged = TRUE /\ g.tagged = FALSE
  BY DEF FrameType
<1> HIDE DEF g
<1>2. L3(f) = 3 /\ L3(g) = 2
  BY <1>1 DEF L3
<1>3. Unparsable(f) <=> Unparsable(g)
  BY <1>1, <1>2 DEF Unparsable
<1>4. Ports(f) = Ports(g)
  BY <1>1, <1>2 DEF Ports
<1>5. ParseHeaders(f) = ParseHeaders(g)
  BY <1>1, <1>3, <1>4 DEF ParseHeaders
<1> QED BY <1>5 DEF g

\* The tree gives every ARP packet the class the parser gave it.
LEMMA ArpIsVoice ==
  ASSUME NEW sizes, NEW f \in FrameType(sizes), MarkedVoice(f), NEW n, NEW mean, NEW burst
  PROVE  ClassifyFlow(ParseHeaders(f), n, mean, burst) = Voice
<1>1. ParseHeaders(f).proto = "arp"
  BY DEF MarkedVoice, ParseHeaders
<1> QED BY <1>1 DEF ClassifyFlow, ControlTraffic

\* What the pipeline relies on the parser for.
THEOREM ParserAlwaysSound == Spec => []ParserSound
<1>1. MetadataFromBuffer(Sizes) /\ TagTransparent(Sizes)
  BY ParserReadsBuffer, ParserSkipsTag
<1>2. \A f \in FrameType(Sizes), n \in 1 .. CountCap, burst \in Burstinesses :
        MarkedVoice(f) =>
          LET h == ParseHeaders(f) IN ClassifyFlow(h, n, MeanSize(h, n), burst) = Voice
  BY ArpIsVoice
<1>3. ParserSound
  BY <1>1, <1>2 DEF ParserSound
<1> QED BY <1>3, PTL

-----------------------------------------------------------------------------
(* Types. *)

\* The pipeline's scheduler meets the assumption of the scheduler's proofs.
LEMMA SchedulerAssumed == Sched!QoSAssumption
BY SchedulerAssumption DEF Q!QoSAssumption, Sched!QoSAssumption, Q!Queues, Sched!Queues

\* The sums of both instances of the scheduler are the same.
LEMMA SameSums ==
  ASSUME NEW f
  PROVE  Q!SumFunction(f) = Sched!SumFunction(f) /\ Q!Bytes(f) = Sched!Bytes(f)
<1>1. Q!SumFunction(f) = SumFunction(f)
  BY DEF Q!SumFunction, Q!SumFunctionOnSet, Q!FoldFunctionOnSet, Q!MapThenFoldSet,
         SumFunction, SumFunctionOnSet, FoldFunctionOnSet, MapThenFoldSet
<1>2. Sched!SumFunction(f) = SumFunction(f)
  BY DEF Sched!SumFunction, Sched!SumFunctionOnSet, Sched!FoldFunctionOnSet,
         Sched!MapThenFoldSet,
         SumFunction, SumFunctionOnSet, FoldFunctionOnSet, MapThenFoldSet
<1>3. Q!Bytes(f) = SumFunction(f)
  BY DEF Q!Bytes, Q!FoldSeq, Q!FoldFunction, Q!FoldFunctionOnSet, Q!MapThenFoldSet,
         SumFunction, SumFunctionOnSet, FoldFunctionOnSet, MapThenFoldSet
<1>4. Sched!Bytes(f) = SumFunction(f)
  BY DEF Sched!Bytes, Sched!FoldSeq, Sched!FoldFunction, Sched!FoldFunctionOnSet,
         Sched!MapThenFoldSet,
         SumFunction, SumFunctionOnSet, FoldFunctionOnSet, MapThenFoldSet
<1> QED BY <1>1, <1>2, <1>3, <1>4

\* Where the loop stands, and the numbers it counts by.
PlaceTyped ==
  /\ g_running \in BOOLEAN
  /\ at \in {"setup", "loop", "filter", "classify", "enqueue", "dequeue", "done"}
  /\ loop_count \in 0 .. LoopLimit /\ (at # "done" => loop_count < LoopLimit)

\* From the filter to the transmitter there is a packet.
PacketTyped ==
  /\ IF at \in {"filter", "classify", "enqueue", "dequeue"} THEN pkt \in Headers
     ELSE pkt = NoPacket
  /\ verd \in Verdicts /\ class \in Classes
  /\ attached_programs \in Seq(ProgramType) /\ rules \in Seq(RuleType)

\* The methods of both instances are the same.
LEMMA SameEnqueue ==
  ASSUME NEW c, NEW size, Q!Enqueue(c, size) PROVE Sched!Enqueue(c, size)
<1> DEFINE i == Q!QueueIndex(c)
<1>1. i = Sched!QueueIndex(c)
  BY DEF Q!QueueIndex, Sched!QueueIndex
<1>2. ASSUME NEW qs
      PROVE  Q!UpdateCongestionState(qs) => Sched!UpdateCongestionState(qs)
  <2>1. Q!Backlog(qs) = Sched!Backlog(qs)
    BY SameSums DEF Q!Backlog, Sched!Backlog, Q!Queues, Sched!Queues
  <2>2. Q!SumFunction(Q!Backlog(qs)) = Sched!SumFunction(Sched!Backlog(qs))
    BY <2>1, SameSums
  <2> QED BY <2>1, <2>2 DEF Q!UpdateCongestionState, Sched!UpdateCongestionState
<1> HIDE DEF i
<1>3. Q!TailDrop(i) => Sched!TailDrop(i)
  BY DEF Q!TailDrop, Sched!TailDrop, Q!HasRoom, Sched!HasRoom, Q!Bump, Sched!Bump,
         Q!congestionVars, Sched!congestionVars
<1>4. Q!Accept(i, size) => Sched!Accept(i, size)
  <2> DEFINE qs == queues'
  <2>1. Q!UpdateCongestionState(qs) => Sched!UpdateCongestionState(qs)
    <3> HIDE DEF qs
    <3> QED BY <1>2
  <2> QED BY <2>1 DEF Q!Accept, Sched!Accept, Q!HasRoom, Sched!HasRoom, Q!Bump, Sched!Bump
<1>5. Q!TailDrop(i) \/ Q!Accept(i, size)
  BY DEF Q!Enqueue, i
<1> QED BY <1>1, <1>3, <1>4, <1>5 DEF Sched!Enqueue

\* A dequeue of the pipeline's scheduler is one of the scheduler proved about.
LEMMA SameDequeue ==
  /\ Q!DequeueStrict => Sched!DequeueStrict
  /\ \A i \in Q!RoundRobin : Q!DequeueRoundRobin(i) => Sched!DequeueRoundRobin(i)
  /\ Q!DequeueNothing => Sched!DequeueNothing
  /\ Q!RoundRobin = Sched!RoundRobin
<1> USE DEF Q!Serve, Sched!Serve, Q!Bump, Sched!Bump, Q!congestionVars, Sched!congestionVars,
            Q!statVars, Sched!statVars, Q!Queues, Sched!Queues, Q!RoundRobin, Sched!RoundRobin,
            Q!Affordable, Sched!Affordable, Q!Passed, Sched!Passed, Q!Charged, Sched!Charged,
            Q!ToDeficit, Sched!ToDeficit, Q!NoQueue, Sched!NoQueue
<1>1. Q!DequeueStrict => Sched!DequeueStrict
  BY DEF Q!DequeueStrict, Sched!DequeueStrict
<1>2. \A i \in Q!RoundRobin : Q!DequeueRoundRobin(i) => Sched!DequeueRoundRobin(i)
  BY DEF Q!DequeueRoundRobin, Sched!DequeueRoundRobin
<1>3. Q!DequeueNothing => Sched!DequeueNothing
  BY DEF Q!DequeueNothing, Sched!DequeueNothing
<1>4. Q!RoundRobin = Sched!RoundRobin
  OBVIOUS
<1> QED BY <1>1, <1>2, <1>3, <1>4

\* So are its type invariant and its account of the packets, ...
LEMMA SameStates ==
  /\ Q!TypeOK <=> Sched!TypeOK
  /\ Q!PacketsAccounted <=> Sched!PacketsAccounted
BY DEF Q!TypeOK, Sched!TypeOK, Q!PacketsAccounted, Sched!PacketsAccounted,
       Q!Queues, Sched!Queues, Q!NoQueue, Sched!NoQueue

\* ... after a step too.
LEMMA SameNextStates ==
  /\ Q!TypeOK' <=> Sched!TypeOK'
  /\ Q!PacketsAccounted' <=> Sched!PacketsAccounted'
BY DEF Q!TypeOK, Sched!TypeOK, Q!PacketsAccounted, Sched!PacketsAccounted,
       Q!Queues, Sched!Queues, Q!NoQueue, Sched!NoQueue

-----------------------------------------------------------------------------
\* The packet on the way has one of the sizes.
LEMMA PacketSize ==
  ASSUME PacketTyped, at \in {"filter", "classify", "enqueue", "dequeue"}
  PROVE  pkt.size \in Sizes /\ pkt.size \in Nat
<1>1. pkt \in Headers
  BY DEF PacketTyped
<1>2. PICK f \in Frames : pkt = ParseHeaders(f)
  BY <1>1 DEF Headers
<1>3. f.size \in Sizes
  BY DataPathAssumption DEF FrameType
<1>4. pkt.size = f.size
  BY <1>2 DEF ParseHeaders
<1>5. Sizes \subseteq Nat
  BY SchedulerAssumption DEF Q!QoSAssumption
<1> QED BY <1>3, <1>4, <1>5

\* Each class has its own queue.
LEMMA QueueOfClass ==
  ASSUME NEW c \in Classes
  PROVE  Q!QueueIndex(c) = c /\ c \in Q!Queues
<1>1. Classes = Q!Queues /\ NumQueues \in Nat
  BY DataPathAssumption, SchedulerAssumption DEF Q!QoSAssumption
<1> QED BY <1>1 DEF Q!QueueIndex, Q!Queues

\* A transmission takes the first packet of one of them.
LEMMA ServesOne ==
  ASSUME Transmit
  PROVE  \E i \in Q!Queues : queues[i] # << >> /\ Q!Serve(i)
<1>1. 0 \in Q!Queues /\ Q!RoundRobin \subseteq Q!Queues
  <2>1. NumQueues \in Nat \ {0}
    BY SchedulerAssumption DEF Q!QoSAssumption
  <2> QED BY <2>1 DEF Q!Queues, Q!RoundRobin
<1>2. CASE Q!DequeueStrict
  BY <1>1, <1>2 DEF Q!DequeueStrict
<1>3. ASSUME NEW i \in Q!RoundRobin, Q!DequeueRoundRobin(i)
      PROVE  \E j \in Q!Queues : queues[j] # << >> /\ Q!Serve(j)
  BY <1>1, <1>3 DEF Q!DequeueRoundRobin, Q!Affordable
<1> QED BY <1>2, <1>3 DEF Transmit, Dequeue

\* What the scheduler is called with.
LEMMA SchedulerSteps ==
  ASSUME PacketTyped, [Next]_vars
  PROVE  [Sched!Next]_(Sched!vars)
<1>1. CASE UNCHANGED qosVars
  BY <1>1 DEF qosVars, Sched!vars, Sched!statVars, Sched!congestionVars
<1>2. CASE Enqueue
  <2>1. class \in Classes /\ pkt.size \in Sizes
    BY <1>2, PacketSize DEF PacketTyped, Enqueue
  <2>2. Sched!Enqueue(class, pkt.size)
    <3>1. Q!Enqueue(class, pkt.size)
      BY <1>2 DEF Enqueue
    <3> QED BY <3>1, SameEnqueue
  <2> QED BY <2>1, <2>2 DEF Sched!Next
<1>3. CASE Transmit
  <2>1. Q!DequeueStrict \/ \E i \in Q!RoundRobin : Q!DequeueRoundRobin(i)
    BY <1>3 DEF Transmit, Dequeue
  <2>2. Sched!Dequeue
    BY <2>1, SameDequeue DEF Sched!Dequeue
  <2> QED BY <2>2 DEF Sched!Next
<1>4. CASE TransmitNothing
  <2>1. Sched!Dequeue
    BY <1>4, SameDequeue DEF TransmitNothing, Sched!Dequeue
  <2> QED BY <2>1 DEF Sched!Next
<1>5. CASE AttachProgram \/ DetachAll \/ AddRule \/ ClearRules
  BY <1>1, <1>5 DEF AttachProgram, DetachAll, AddRule, ClearRules, Setup
<1>6. CASE Signal \/ Start \/ Leave
  BY <1>1, <1>6 DEF Signal, Start, Leave
<1>7. CASE \E f \in Frames : XdpHook(ParseHeaders(f))
  BY <1>1, <1>7 DEF XdpHook
<1>8. CASE FilterDrop \/ FilterPass \/ Classify
  BY <1>1, <1>8 DEF FilterDrop, FilterPass, Classify
<1>9. CASE UNCHANGED vars
  BY <1>1, <1>9 DEF vars
<1> QED BY <1>2, <1>3, <1>4, <1>5, <1>6, <1>7, <1>8, <1>9 DEF Next, Step, Done

\* A counter stays in its range.
LEMMA BumpTyped ==
  /\ CounterModulus \in Nat \ {0} /\ 0 \in Counter
  /\ \A n \in Nat : Bump(n) \in Counter
  /\ Counter \subseteq Nat
<1>1. CounterModulus \in Nat \ {0}
  BY SchedulerAssumption DEF Q!QoSAssumption
<1>2. \A n \in Nat : Bump(n) \in Counter
  <2> SUFFICES ASSUME NEW n \in Nat PROVE Bump(n) \in Counter
    OBVIOUS
  <2>1. n + 1 \in Nat
    OBVIOUS
  <2> QED BY <1>1, <2>1 DEF Bump, Counter
<1> QED BY <1>1, <1>2 DEF Counter

\* Some number of a set of natural numbers is the least.
LEMMA LeastIn ==
  ASSUME NEW I \in SUBSET Nat, I # {}
  PROVE  Min(I) \in I
<1>1. IsWellFoundedOn(OpToRel(<, Nat), Nat)
  BY NatLessThanWellFounded
<1>2. PICK x \in I : \A y \in I : ~(<<y, x>> \in OpToRel(<, Nat))
  BY <1>1, WFMin
<1>3. \A y \in I : x <= y
  <2> SUFFICES ASSUME NEW y \in I, y < x PROVE FALSE
    OBVIOUS
  <2>1. x \in Nat /\ y \in Nat
    OBVIOUS
  <2>2. <<y, x>> \in OpToRel(<, Nat)
    BY <2>1 DEF OpToRel
  <2> QED BY <1>2, <2>2
<1> QED BY <1>3 DEF Min

\* A rule or the default decides.
LEMMA EvaluateTyped ==
  ASSUME PacketTyped, NEW h
  PROVE  Evaluate(h).verdict \in Verdicts /\ Evaluate(h).class \in Classes
<1> DEFINE I == {k \in 1 .. Len(rules) : h \in rules[k].matches}
           i == SelectInSeq(rules, LAMBDA rule : h \in rule.matches)
<1>1. i = IF I # {} THEN Min(I) ELSE 0
  BY DEF SelectInSeq
<1>2. rules \in Seq(RuleType) /\ BestEffort \in Classes
  BY DataPathAssumption DEF PacketTyped
<1>3. i = 0 \/ i \in 1 .. Len(rules)
  <2>1. I # {} => Min(I) \in I
    <3>1. I \in SUBSET Nat
      OBVIOUS
    <3> HIDE DEF I
    <3> QED BY <3>1, LeastIn
  <2> QED BY <1>1, <2>1
<1>4. Evaluate(h) = IF i = 0 THEN [verdict |-> "ACCEPT", class |-> BestEffort]
        ELSE [verdict |-> rules[i].verdict,
              class |-> IF rules[i].verdict = "QOS_QUEUE" THEN rules[i].class ELSE BestEffort]
  BY DEF Evaluate
<1> HIDE DEF i
<1>5. i # 0 => rules[i] \in RuleType
  BY <1>2, <1>3
<1> QED BY <1>2, <1>4, <1>5 DEF RuleType, Verdicts

\* The tree chooses one of the scheduler's classes.
LEMMA ClassOfFlow ==
  ASSUME NEW h, NEW n, NEW mean, NEW burst
  PROVE  ClassifyFlow(h, n, mean, burst) \in Classes
BY DataPathAssumption DEF ClassifyFlow

\* The way through an iteration.
LEMMA PlaceStep ==
  ASSUME PlaceTyped, PacketTyped, [Next]_vars
  PROVE  PlaceTyped'
<1>0. LoopLimit \in Nat \ {0} /\ TelemetryEvery \in Nat \ {0}
  BY DataPathAssumption
<1> USE DEF PlaceTyped
<1>1. CASE Transmit \/ TransmitNothing
  <2>1. PICK m : EndIteration(m)
    BY <1>1 DEF Transmit, TransmitNothing
  <2>2. loop_count' = loop_count + 1 /\ loop_count \in 0 .. LoopLimit /\ loop_count < LoopLimit
    BY <1>1, <2>1 DEF EndIteration, Transmit, TransmitNothing
  <2>3. at' = IF loop_count' >= LoopLimit THEN "done" ELSE "loop"
    BY <2>1 DEF EndIteration
  <2>4. g_running' = g_running
    BY <1>1 DEF Transmit, TransmitNothing
  <2> QED BY <1>0, <2>2, <2>3, <2>4
<1>2. CASE AttachProgram \/ DetachAll \/ AddRule \/ ClearRules
  BY <1>2 DEF AttachProgram, DetachAll, AddRule, ClearRules, Setup
<1>3. CASE Signal \/ Start \/ Leave
  BY <1>3 DEF Signal, Start, Leave
<1>4. CASE \E f \in Frames : XdpHook(ParseHeaders(f))
  BY <1>4 DEF XdpHook
<1>5. CASE FilterDrop \/ FilterPass
  BY <1>5 DEF FilterDrop, FilterPass
<1>6. CASE Classify \/ Enqueue
  BY <1>6 DEF Classify, Enqueue
<1>7. CASE UNCHANGED vars
  BY <1>7 DEF vars
<1> QED BY <1>1, <1>2, <1>3, <1>4, <1>5, <1>6, <1>7 DEF Next, Step, Done

\* The packet on it, its verdict and its class.
LEMMA PacketStep ==
  ASSUME PlaceTyped, PacketTyped, [Next]_vars
  PROVE  PacketTyped'
<1>a. pkt \in Headers \/ pkt = NoPacket
  BY DEF PacketTyped
<1>1. CASE Transmit \/ TransmitNothing
  <2>1. PICK m : EndIteration(m)
    BY <1>1 DEF Transmit, TransmitNothing
  <2>2. pkt' = NoPacket /\ verd' = "ACCEPT" /\ class' = BestEffort /\ at' \in {"done", "loop"}
    BY <2>1 DEF EndIteration
  <2>3. UNCHANGED setupVars
    BY <1>1 DEF Transmit, TransmitNothing
  <2> QED BY <2>2, <2>3, DataPathAssumption DEF PacketTyped, setupVars, Verdicts
<1>2. ASSUME NEW programs \in Seq(ProgramType), NEW chain \in Seq(RuleType),
             Setup(programs, chain)
      PROVE  PacketTyped'
  BY <1>2 DEF PacketTyped, Setup
<1>3. CASE AttachProgram
  <2>1. Len(attached_programs) + 1 \in 1 .. Len(Programs)
    BY <1>3, DataPathAssumption DEF AttachProgram, PacketTyped
  <2>2. Programs[Len(attached_programs) + 1] \in ProgramType
    BY <2>1, DataPathAssumption
  <2>3. Append(attached_programs, Programs[Len(attached_programs) + 1]) \in Seq(ProgramType)
    BY <2>2 DEF PacketTyped
  <2> QED BY <1>2, <1>3, <2>3 DEF AttachProgram, PacketTyped
<1>4. CASE AddRule
  <2>1. Len(rules) + 1 \in 1 .. Len(Rules)
    BY <1>4, DataPathAssumption DEF AddRule, PacketTyped
  <2>2. Rules[Len(rules) + 1] \in RuleType
    BY <2>1, DataPathAssumption
  <2>3. Append(rules, Rules[Len(rules) + 1]) \in Seq(RuleType)
    BY <2>2 DEF PacketTyped
  <2> QED BY <1>2, <1>4, <2>3 DEF AddRule, PacketTyped
<1>5. CASE DetachAll \/ ClearRules
  <2>1. << >> \in Seq(ProgramType) /\ << >> \in Seq(RuleType)
    OBVIOUS
  <2> QED BY <1>2, <1>5, <2>1 DEF DetachAll, ClearRules, PacketTyped
<1>6. CASE Signal \/ Start \/ Leave
  BY <1>6 DEF Signal, Start, Leave, PacketTyped, setupVars
<1>7. ASSUME NEW f \in Frames, XdpHook(ParseHeaders(f)) PROVE PacketTyped'
  <2>1. ParseHeaders(f) \in Headers
    BY DEF Headers
  <2>2. \/ at' = "loop" /\ pkt' = NoPacket
        \/ at' = "filter" /\ pkt' = ParseHeaders(f)
    BY <1>7 DEF XdpHook
  <2>3. UNCHANGED <<verd, class, setupVars>>
    BY <1>7 DEF XdpHook
  <2> QED BY <2>1, <2>2, <2>3 DEF PacketTyped, setupVars
<1>8. CASE FilterDrop
  BY <1>8 DEF FilterDrop, PacketTyped, setupVars
<1>9. CASE FilterPass
  <2>1. Evaluate(pkt).verdict \in Verdicts /\ Evaluate(pkt).class \in Classes
    BY EvaluateTyped
  <2> QED BY <1>9, <2>1 DEF FilterPass, PacketTyped, setupVars
<1>10. CASE Classify
  <2>1. class' \in Classes
    BY <1>10, ClassOfFlow DEF Classify, PacketTyped
  <2> QED BY <1>10, <2>1 DEF Classify, PacketTyped, setupVars
<1>11. CASE Enqueue
  BY <1>11 DEF Enqueue, PacketTyped, setupVars
<1>12. CASE UNCHANGED vars
  BY <1>12 DEF vars, PacketTyped, setupVars
<1> QED BY <1>1, <1>3, <1>4, <1>5, <1>6, <1>7, <1>8, <1>9, <1>10, <1>11, <1>12
     DEF Next, Step, Done

-----------------------------------------------------------------------------
(* Connection tracking and the flow table. *)

\* The type of the tables that outlive a packet.
TablesTyped ==
  /\ conntrack \in [Headers -> [packets_forwarded : 0 .. CountCap, is_established : BOOLEAN]]
  /\ packet_count \in [Headers -> 0 .. CountCap]

\* Between the filter and the classifier the packet is in one table only.
TablesRight ==
  \A h \in Headers :
    /\ conntrack[h].packets_forwarded =
         IF at = "classify" /\ h = pkt THEN Saturated(packet_count[h]) ELSE packet_count[h]
    /\ conntrack[h].is_established <=> conntrack[h].packets_forwarded > EstablishedAfter

\* Counting one more packet of a flow.
LEMMA SaturatedTyped ==
  ASSUME NEW n \in 0 .. CountCap
  PROVE  Saturated(n) \in 0 .. CountCap /\ n <= Saturated(n)
BY DataPathAssumption DEF Saturated

\* Only two stages write to the tables.
LEMMA TablesKept ==
  ASSUME [Next]_vars
  PROVE  \/ FilterPass
         \/ Classify
         \/ at # "classify" /\ at' # "classify" /\ UNCHANGED tableVars
         \/ UNCHANGED <<at, pkt, tableVars>>
<1> USE DEF vars
<1>1. CASE Transmit \/ TransmitNothing
  <2>1. PICK m : EndIteration(m)
    BY <1>1 DEF Transmit, TransmitNothing
  <2> QED BY <1>1, <2>1 DEF EndIteration, Transmit, TransmitNothing
<1>2. CASE AttachProgram \/ DetachAll \/ AddRule \/ ClearRules
  BY <1>2 DEF AttachProgram, DetachAll, AddRule, ClearRules, Setup
<1>3. CASE Signal \/ Start \/ Leave
  BY <1>3 DEF Signal, Start, Leave
<1>4. CASE \E f \in Frames : XdpHook(ParseHeaders(f))
  BY <1>4 DEF XdpHook
<1>5. CASE FilterDrop
  BY <1>5 DEF FilterDrop
<1>6. CASE Enqueue
  BY <1>6 DEF Enqueue
<1>7. CASE UNCHANGED vars
  BY <1>7
<1> QED BY <1>1, <1>2, <1>3, <1>4, <1>5, <1>6, <1>7 DEF Next, Step, Done

\* Both tables count the packets that come by, each at its stage.
LEMMA TablesStep ==
  ASSUME PacketTyped, TablesTyped, TablesRight, [Next]_vars
  PROVE  TablesTyped' /\ TablesRight'
<1>1. CASE FilterPass
  <2> DEFINE old == conntrack[pkt]
             n == old.packets_forwarded
  <2>1. pkt \in Headers /\ at = "filter" /\ at' = "classify" /\ pkt' = pkt
        /\ packet_count' = packet_count
        /\ conntrack' = [conntrack EXCEPT ![pkt] = Forward(conntrack[pkt])]
    BY <1>1 DEF FilterPass, PacketTyped
  <2>2. n \in 0 .. CountCap /\ old.is_established \in BOOLEAN /\ n = packet_count[pkt]
        /\ (old.is_established <=> n > EstablishedAfter)
    BY <2>1 DEF TablesTyped, TablesRight
  <2>3. Saturated(n) \in 0 .. CountCap /\ n <= Saturated(n)
    BY <2>2, SaturatedTyped
  <2> DEFINE new == Forward(old)
  <2>4. new.packets_forwarded = Saturated(n)
    BY DEF Forward
  <2>5. new.is_established <=> Saturated(n) > EstablishedAfter
    <3>1. new.is_established <=> (old.is_established \/ Saturated(n) > EstablishedAfter)
      BY DEF Forward
    <3>2. n > EstablishedAfter => Saturated(n) > EstablishedAfter
      BY <2>2, <2>3, DataPathAssumption
    <3> QED BY <2>2, <3>1, <3>2
  <2>6. new \in [packets_forwarded : 0 .. CountCap, is_established : BOOLEAN]
    BY <2>3 DEF Forward
  <2> HIDE DEF new, n, old
  <2>7. conntrack' = [conntrack EXCEPT ![pkt] = new]
    BY <2>1 DEF new, old
  <2>8. TablesTyped'
    BY <2>1, <2>6, <2>7 DEF TablesTyped
  <2>9. \A h \in Headers : conntrack'[h] = IF h = pkt THEN new ELSE conntrack[h]
    BY <2>7 DEF TablesTyped
  <2>10. Saturated(n) = Saturated(packet_count[pkt])
    BY <2>2
  <2> QED BY <2>1, <2>4, <2>5, <2>8, <2>9, <2>10 DEF TablesRight
<1>2. CASE Classify
  <2>1. pkt \in Headers /\ at = "classify" /\ at' = "enqueue" /\ pkt' = pkt
        /\ conntrack' = conntrack
        /\ packet_count' = [packet_count EXCEPT ![pkt] = Saturated(packet_count[pkt])]
    BY <1>2 DEF Classify, PacketTyped, Tracked
  <2>2. Saturated(packet_count[pkt]) \in 0 .. CountCap
    BY <2>1, SaturatedTyped DEF TablesTyped
  <2>3. \A h \in Headers : packet_count'[h] = IF h = pkt THEN Saturated(packet_count[h])
                                              ELSE packet_count[h]
    BY <2>1 DEF TablesTyped
  <2>4. TablesTyped'
    BY <2>1, <2>2 DEF TablesTyped
  <2> QED BY <2>1, <2>3, <2>4 DEF TablesRight
<1>3. CASE at # "classify" /\ at' # "classify" /\ UNCHANGED tableVars
  BY <1>3 DEF TablesTyped, TablesRight, tableVars
<1>4. CASE UNCHANGED <<at, pkt, tableVars>>
  BY <1>4 DEF TablesTyped, TablesRight, tableVars
<1> QED BY <1>1, <1>2, <1>3, <1>4, TablesKept

-----------------------------------------------------------------------------
(* The strict class. *)

\* A packet of the strict class is in its queue from one stage to the next only.
VoiceRight ==
  IF at = "dequeue" THEN Len(queues[0]) <= 1 ELSE queues[0] = << >>

\* The stages around the scheduler do not touch its queues.
LEMMA QueuesKept ==
  ASSUME [Next]_vars
  PROVE  \/ Enqueue \/ Transmit \/ TransmitNothing
         \/ at # "dequeue" /\ at' # "dequeue" /\ UNCHANGED qosVars
         \/ UNCHANGED <<at, qosVars>>
<1> USE DEF vars
<1>1. CASE AttachProgram \/ DetachAll \/ AddRule \/ ClearRules
  BY <1>1 DEF AttachProgram, DetachAll, AddRule, ClearRules, Setup
<1>2. CASE Signal \/ Start \/ Leave
  BY <1>2 DEF Signal, Start, Leave
<1>3. CASE \E f \in Frames : XdpHook(ParseHeaders(f))
  BY <1>3 DEF XdpHook
<1>4. CASE FilterDrop \/ FilterPass
  BY <1>4 DEF FilterDrop, FilterPass
<1>5. CASE Classify
  BY <1>5 DEF Classify
<1>6. CASE UNCHANGED vars
  BY <1>6
<1> QED BY <1>1, <1>2, <1>3, <1>4, <1>5, <1>6 DEF Next, Step, Done

\* One packet enters in an iteration, and if it is of the strict class it leaves.
LEMMA VoiceStep ==
  ASSUME Q!TypeOK, VoiceRight, [Next]_vars
  PROVE  VoiceRight'
<1>0. /\ 0 \in Q!Queues /\ NumQueues \in Nat
      /\ queues \in [Q!Queues -> Seq(Sizes)] /\ queues[0] \in Seq(Sizes)
  <2>1. NumQueues \in Nat \ {0}
    BY SchedulerAssumption DEF Q!QoSAssumption
  <2> QED BY <2>1 DEF Q!TypeOK, Q!Queues
<1>1. CASE Enqueue
  <2>1. queues[0] = << >> /\ at' = "dequeue"
    BY <1>1 DEF Enqueue, VoiceRight
  <2>2. \/ queues' = queues
        \/ \E i : queues' = [queues EXCEPT ![i] = Append(queues[i], pkt.size)]
    BY <1>1 DEF Enqueue, Q!Enqueue, Q!TailDrop, Q!Accept
  <2>3. queues'[0] = queues[0] \/ queues'[0] = Append(queues[0], pkt.size)
    BY <1>0, <2>2
  <2>4. Len(queues'[0]) <= 1
    <3> DEFINE x == pkt.size
               none == << >>
    <3> HIDE DEF x
    <3>1. none \in Seq({x}) /\ Len(none) = 0
      OBVIOUS
    <3> HIDE DEF none
    <3>2. Len(Append(none, x)) = 1
      BY <3>1
    <3>3. queues'[0] = none \/ queues'[0] = Append(none, x)
      BY <2>1, <2>3 DEF none, x
    <3>4. Len(queues'[0]) = 0 \/ Len(queues'[0]) = 1
      BY <3>1, <3>2, <3>3, Zenon
    <3> DEFINE n == Len(queues'[0])
    <3>5. n = 0 \/ n = 1
      BY <3>4
    <3> HIDE DEF n
    <3>6. n <= 1
      BY <3>5
    <3> QED BY <3>6 DEF n
  <2> QED BY <2>1, <2>4 DEF VoiceRight
<1>2. CASE Transmit \/ TransmitNothing
  <2>1. at = "dequeue" /\ Len(queues[0]) <= 1 /\ at' # "dequeue"
    <3>1. PICK m : EndIteration(m)
      BY <1>2 DEF Transmit, TransmitNothing
    <3>2. at' # "dequeue"
      BY <3>1 DEF EndIteration
    <3> QED BY <1>2, <3>2 DEF Transmit, TransmitNothing, VoiceRight
  <2>2. queues'[0] = << >>
    <3>1. CASE Q!DequeueStrict
      <4>1. queues'[0] = Tail(queues[0]) /\ queues[0] # << >>
        BY <1>0, <3>1 DEF Q!DequeueStrict, Q!Serve
      <4> QED BY <1>0, <2>1, <4>1
    <3>2. ASSUME NEW i \in Q!RoundRobin, Q!DequeueRoundRobin(i) PROVE queues'[0] = << >>
      <4>1. queues[0] = << >> /\ i # 0 /\ queues' = [queues EXCEPT ![i] = Tail(queues[i])]
        BY <1>0, <3>2 DEF Q!DequeueRoundRobin, Q!Serve, Q!RoundRobin
      <4> QED BY <1>0, <4>1
    <3>3. CASE Q!DequeueNothing
      BY <3>3 DEF Q!DequeueNothing
    <3> QED BY <1>2, <3>1, <3>2, <3>3 DEF Transmit, TransmitNothing, Dequeue
  <2> QED BY <2>1, <2>2 DEF VoiceRight
<1>3. CASE at # "dequeue" /\ at' # "dequeue" /\ UNCHANGED qosVars
  BY <1>3 DEF VoiceRight, qosVars
<1>4. CASE UNCHANGED <<at, qosVars>>
  BY <1>4 DEF VoiceRight, qosVars
<1> QED BY <1>1, <1>2, <1>3, <1>4, QueuesKept

-----------------------------------------------------------------------------
(* The counters of the stages. *)

\* The types of the counters of hook, device and collector.
HookType == [processed : Counter, dropped : Counter, redirected : Counter]
DeviceType == [tx_depth : 0 .. TxRingSize, tx_packets : Counter, tx_drops : Counter]
MetricsType ==
  [rx : Nat, bytes : Nat, tx : Counter, drop : Counter, class_counts : [Classes -> Counter],
   last_rx : Nat, last_bytes : Nat]

\* The counters have their types, and what was reported is not more than was counted.
CountersTyped ==
  /\ xdp \in HookType /\ wlan0 \in DeviceType /\ metrics \in MetricsType
  /\ reported \in [rx : Nat, bytes : Nat]

\* What each stage writes into the metrics.
LEMMA MetricsWritten ==
  ASSUME NEW m \in MetricsType
  PROVE  /\ RecordDrop(m) = [rx |-> m.rx, bytes |-> m.bytes, tx |-> m.tx,
              drop |-> Bump(m.drop), class_counts |-> m.class_counts,
              last_rx |-> m.last_rx, last_bytes |-> m.last_bytes]
         /\ [m EXCEPT !.tx = Bump(@)] = [rx |-> m.rx, bytes |-> m.bytes, tx |-> Bump(m.tx),
              drop |-> m.drop, class_counts |-> m.class_counts,
              last_rx |-> m.last_rx, last_bytes |-> m.last_bytes]
         /\ \A s : [m EXCEPT !.rx = @ + 1, !.bytes = @ + s] =
              [rx |-> m.rx + 1, bytes |-> m.bytes + s, tx |-> m.tx,
              drop |-> m.drop, class_counts |-> m.class_counts,
              last_rx |-> m.last_rx, last_bytes |-> m.last_bytes]
         /\ \A c : [m EXCEPT !.class_counts[c] = Bump(@)] =
              [rx |-> m.rx, bytes |-> m.bytes, tx |-> m.tx, drop |-> m.drop,
               class_counts |-> [m.class_counts EXCEPT ![c] = Bump(@)],
               last_rx |-> m.last_rx, last_bytes |-> m.last_bytes]
         /\ [m EXCEPT !.last_rx = m.rx, !.last_bytes = m.bytes] =
              [rx |-> m.rx, bytes |-> m.bytes, tx |-> m.tx, drop |-> m.drop,
               class_counts |-> m.class_counts, last_rx |-> m.rx, last_bytes |-> m.bytes]
<1>1. RecordDrop(m) = [rx |-> m.rx, bytes |-> m.bytes, tx |-> m.tx,
              drop |-> Bump(m.drop), class_counts |-> m.class_counts,
              last_rx |-> m.last_rx, last_bytes |-> m.last_bytes]
  BY DEF RecordDrop, MetricsType
<1>2. [m EXCEPT !.tx = Bump(@)] = [rx |-> m.rx, bytes |-> m.bytes, tx |-> Bump(m.tx),
              drop |-> m.drop, class_counts |-> m.class_counts,
              last_rx |-> m.last_rx, last_bytes |-> m.last_bytes]
  BY DEF MetricsType
<1>3. ASSUME NEW s
      PROVE  [m EXCEPT !.rx = @ + 1, !.bytes = @ + s] =
              [rx |-> m.rx + 1, bytes |-> m.bytes + s, tx |-> m.tx,
              drop |-> m.drop, class_counts |-> m.class_counts,
              last_rx |-> m.last_rx, last_bytes |-> m.last_bytes]
  <2> DEFINE a == [m EXCEPT !.rx = @ + 1]
  <2>1. a = [rx |-> m.rx + 1, bytes |-> m.bytes, tx |-> m.tx,
              drop |-> m.drop, class_counts |-> m.class_counts,
              last_rx |-> m.last_rx, last_bytes |-> m.last_bytes]
    BY DEF MetricsType
  <2> HIDE DEF a
  <2>2. [a EXCEPT !.bytes = m.bytes + s] =
              [rx |-> m.rx + 1, bytes |-> m.bytes + s, tx |-> m.tx,
              drop |-> m.drop, class_counts |-> m.class_counts,
              last_rx |-> m.last_rx, last_bytes |-> m.last_bytes]
    BY <2>1
  <2>3. [m EXCEPT !.rx = @ + 1, !.bytes = @ + s] = [a EXCEPT !.bytes = m.bytes + s]
    BY Zenon DEF a
  <2> QED BY <2>2, <2>3
<1>4. ASSUME NEW c
      PROVE  [m EXCEPT !.class_counts[c] = Bump(@)] =
              [rx |-> m.rx, bytes |-> m.bytes, tx |-> m.tx, drop |-> m.drop,
               class_counts |-> [m.class_counts EXCEPT ![c] = Bump(@)],
               last_rx |-> m.last_rx, last_bytes |-> m.last_bytes]
  BY DEF MetricsType
<1>5. [m EXCEPT !.last_rx = m.rx, !.last_bytes = m.bytes] =
              [rx |-> m.rx, bytes |-> m.bytes, tx |-> m.tx, drop |-> m.drop,
               class_counts |-> m.class_counts, last_rx |-> m.rx, last_bytes |-> m.bytes]
  <2> DEFINE a == [m EXCEPT !.last_rx = m.rx]
  <2>1. a = [rx |-> m.rx, bytes |-> m.bytes, tx |-> m.tx,
              drop |-> m.drop, class_counts |-> m.class_counts,
              last_rx |-> m.rx, last_bytes |-> m.last_bytes]
    BY DEF MetricsType
  <2> HIDE DEF a
  <2>2. [a EXCEPT !.last_bytes = m.bytes] =
              [rx |-> m.rx, bytes |-> m.bytes, tx |-> m.tx, drop |-> m.drop,
               class_counts |-> m.class_counts, last_rx |-> m.rx, last_bytes |-> m.bytes]
    BY <2>1
  <2>3. [m EXCEPT !.last_rx = m.rx, !.last_bytes = m.bytes] = [a EXCEPT !.last_bytes = m.bytes]
    BY Zenon DEF a
  <2> QED BY <2>2, <2>3
<1> QED BY <1>1, <1>2, <1>3, <1>4, <1>5

\* The rates shown so far are those of what came before the last snapshot.
RatesRight ==
  /\ reported = [rx |-> metrics.last_rx, bytes |-> metrics.last_bytes]
  /\ metrics.last_rx <= metrics.rx /\ metrics.last_bytes <= metrics.bytes
  /\ metrics.last_rx = loop_count - (loop_count % TelemetryEvery)

\* Every packet received has been counted by the loop, or is about to be.
LoopRight == metrics.rx = loop_count + IF at = "dequeue" THEN 1 ELSE 0

\* The end of an iteration changes no other counter than those of the snapshot.
LEMMA EndRight ==
  ASSUME loop_count \in Nat, CountersTyped, RatesRight, LoopRight, at = "dequeue",
         NEW m \in MetricsType, m.rx = metrics.rx, m.bytes = metrics.bytes,
         m.last_rx = metrics.last_rx, m.last_bytes = metrics.last_bytes, EndIteration(m)
  PROVE  /\ metrics' \in MetricsType /\ reported' \in [rx : Nat, bytes : Nat]
         /\ metrics'.rx = m.rx /\ metrics'.bytes = m.bytes /\ metrics'.tx = m.tx
         /\ metrics'.drop = m.drop /\ metrics'.class_counts = m.class_counts
         /\ RatesRight' /\ LoopRight'
<1>1. /\ loop_count' = loop_count + 1 /\ at' \in {"done", "loop"}
      /\ IF loop_count' % TelemetryEvery = 0 THEN Snapshot(m)
         ELSE metrics' = m /\ UNCHANGED reported
  BY DEF EndIteration
<1>2. /\ m.rx \in Nat /\ m.bytes \in Nat /\ m.last_rx \in Nat /\ m.last_bytes \in Nat
      /\ m.rx = loop_count + 1 /\ m.last_rx <= m.rx /\ m.last_bytes <= m.bytes
  BY DEF MetricsType, LoopRight, RatesRight
<1>3. reported = [rx |-> m.last_rx, bytes |-> m.last_bytes]
  BY DEF RatesRight
<1>4. CASE loop_count' % TelemetryEvery = 0
  <2>1. /\ metrics' = [m EXCEPT !.last_rx = m.rx, !.last_bytes = m.bytes]
        /\ reported' = [rx |-> m.last_rx + (m.rx - m.last_rx),
                        bytes |-> m.last_bytes + (m.bytes - m.last_bytes)]
    BY <1>1, <1>2, <1>3, <1>4 DEF Snapshot
  <2>2. reported' = [rx |-> m.rx, bytes |-> m.bytes]
    BY <1>2, <2>1
  <2>3. metrics' = [rx |-> m.rx, bytes |-> m.bytes, tx |-> m.tx, drop |-> m.drop,
               class_counts |-> m.class_counts, last_rx |-> m.rx, last_bytes |-> m.bytes]
    BY <2>1, MetricsWritten
  <2>4. metrics' \in MetricsType /\ reported' \in [rx : Nat, bytes : Nat]
    BY <1>2, <2>2, <2>3 DEF MetricsType
  <2>5. m.rx = loop_count' - (loop_count' % TelemetryEvery)
    BY <1>1, <1>2, <1>4
  <2> QED BY <1>1, <1>2, <2>2, <2>3, <2>4, <2>5 DEF RatesRight, LoopRight
<1>5. CASE loop_count' % TelemetryEvery # 0
  <2>1. metrics' = m /\ reported' = reported
    BY <1>1, <1>5
  <2>2. loop_count' - (loop_count' % TelemetryEvery)
          = loop_count - (loop_count % TelemetryEvery)
    BY <1>1, <1>5, NextRemainder, DataPathAssumption
  <2>3. reported' \in [rx : Nat, bytes : Nat]
    BY <2>1 DEF CountersTyped
  <2>4. m.last_rx = loop_count' - (loop_count' % TelemetryEvery)
    BY <2>2 DEF RatesRight
  <2> QED BY <1>1, <1>2, <1>3, <2>1, <2>3, <2>4 DEF RatesRight, LoopRight
<1> QED BY <1>4, <1>5

\* A packet the hook has seen and no counter of packets yet.
InFlight == IF at \in {"filter", "classify", "enqueue"} THEN 1 ELSE 0

\* Steps that count nothing.
Quiet ==
  /\ UNCHANGED <<qosVars, xdp, metrics, reported, wlan0, loop_count>>
  /\ InFlight' = InFlight
  /\ at = "dequeue" <=> at' = "dequeue"
  /\ at = "enqueue" <=> at' = "enqueue"
  /\ at = "enqueue" => class' = class

\* The others are those of the packet's way.
LEMMA QuietSteps ==
  ASSUME [Next]_vars
  PROVE  \/ \E f \in Frames : XdpHook(ParseHeaders(f))
         \/ FilterDrop \/ Classify \/ Enqueue \/ Transmit \/ TransmitNothing
         \/ Quiet
<1> USE DEF Quiet, InFlight
<1>1. CASE AttachProgram \/ DetachAll \/ AddRule \/ ClearRules
  BY <1>1 DEF AttachProgram, DetachAll, AddRule, ClearRules, Setup, metricVars
<1>2. CASE Signal \/ Start \/ Leave
  BY <1>2 DEF Signal, Start, Leave, metricVars
<1>3. CASE FilterPass
  BY <1>3 DEF FilterPass, metricVars
<1>4. CASE UNCHANGED vars
  BY <1>4 DEF vars, metricVars
<1> QED BY <1>1, <1>2, <1>3, <1>4 DEF Next, Step, Done

\* What the hook writes.
LEMMA HookSteps ==
  ASSUME CountersTyped, NEW h, XdpHook(h)
  PROVE  /\ xdp' \in HookType /\ xdp'.processed = Bump(xdp.processed)
         /\ metrics' \in MetricsType
         /\ metrics'.rx = metrics.rx /\ metrics'.bytes = metrics.bytes
         /\ metrics'.tx = metrics.tx /\ metrics'.class_counts = metrics.class_counts
         /\ metrics'.last_rx = metrics.last_rx /\ metrics'.last_bytes = metrics.last_bytes
         /\ \/ at' = "loop" /\ metrics'.drop = Bump(metrics.drop)
            \/ at' = "filter" /\ metrics'.drop = metrics.drop
<1> DEFINE act == ProcessPacket(h)
<1>1. /\ xdp' = [processed |-> Bump(xdp.processed),
                 dropped |-> IF act \in {"DROP", "ABORTED"} THEN Bump(xdp.dropped)
                             ELSE xdp.dropped,
                 redirected |-> IF act = "REDIRECT" THEN Bump(xdp.redirected)
                                ELSE xdp.redirected]
      /\ \/ metrics' = RecordDrop(metrics) /\ at' = "loop"
         \/ metrics' = metrics /\ at' = "filter"
  BY DEF XdpHook
<1> HIDE DEF act
<1>2. /\ xdp.processed \in Counter /\ xdp.dropped \in Counter /\ xdp.redirected \in Counter
      /\ metrics \in MetricsType /\ metrics.drop \in Counter
  BY DEF CountersTyped, HookType, MetricsType
<1>3. /\ Bump(xdp.processed) \in Counter /\ Bump(xdp.dropped) \in Counter
      /\ Bump(xdp.redirected) \in Counter /\ Bump(metrics.drop) \in Counter
  BY <1>2, BumpTyped
<1>4. xdp' \in HookType /\ xdp'.processed = Bump(xdp.processed)
  BY <1>1, <1>2, <1>3 DEF HookType
<1>5. CASE metrics' = RecordDrop(metrics) /\ at' = "loop"
  <2>1. metrics' = [rx |-> metrics.rx, bytes |-> metrics.bytes, tx |-> metrics.tx,
              drop |-> Bump(metrics.drop), class_counts |-> metrics.class_counts,
              last_rx |-> metrics.last_rx, last_bytes |-> metrics.last_bytes]
    BY <1>2, <1>5, MetricsWritten
  <2>2. metrics' \in MetricsType
    BY <1>2, <1>3, <2>1 DEF MetricsType
  <2> QED BY <1>4, <1>5, <2>1, <2>2
<1>6. CASE metrics' = metrics /\ at' = "filter"
  BY <1>2, <1>4, <1>6
<1> QED BY <1>1, <1>5, <1>6

\* What the filter writes for a packet it drops.
LEMMA FilterSteps ==
  ASSUME CountersTyped, FilterDrop
  PROVE  /\ metrics' \in MetricsType
         /\ metrics'.rx = metrics.rx /\ metrics'.bytes = metrics.bytes
         /\ metrics'.tx = metrics.tx /\ metrics'.class_counts = metrics.class_counts
         /\ metrics'.last_rx = metrics.last_rx /\ metrics'.last_bytes = metrics.last_bytes
         /\ metrics'.drop = Bump(metrics.drop)
<1>1. metrics \in MetricsType /\ metrics.drop \in Counter /\ metrics' = RecordDrop(metrics)
  BY DEF CountersTyped, MetricsType, FilterDrop
<1>2. metrics' = [rx |-> metrics.rx, bytes |-> metrics.bytes, tx |-> metrics.tx,
              drop |-> Bump(metrics.drop), class_counts |-> metrics.class_counts,
              last_rx |-> metrics.last_rx, last_bytes |-> metrics.last_bytes]
  BY <1>1, MetricsWritten
<1>3. Bump(metrics.drop) \in Counter
  BY <1>1, BumpTyped
<1>4. metrics' \in MetricsType
  BY <1>1, <1>2, <1>3 DEF MetricsType
<1> QED BY <1>2, <1>4

\* What the classifier writes.
LEMMA ClassifySteps ==
  ASSUME CountersTyped, class' \in Classes, Classify
  PROVE  /\ metrics' \in MetricsType
         /\ metrics'.rx = metrics.rx /\ metrics'.bytes = metrics.bytes
         /\ metrics'.tx = metrics.tx /\ metrics'.drop = metrics.drop
         /\ metrics'.last_rx = metrics.last_rx /\ metrics'.last_bytes = metrics.last_bytes
         /\ \A c \in Classes : metrics'.class_counts[c] =
              IF c = class' THEN Bump(metrics.class_counts[c]) ELSE metrics.class_counts[c]
<1> DEFINE k == class'
           counts == [metrics.class_counts EXCEPT ![k] = Bump(metrics.class_counts[k])]
<1>1. /\ metrics \in MetricsType /\ metrics.class_counts \in [Classes -> Counter]
      /\ metrics' = [metrics EXCEPT !.class_counts[k] = Bump(@)]
  BY DEF CountersTyped, MetricsType, Classify
<1>2. k \in Classes
  OBVIOUS
<1> HIDE DEF k
<1>3. metrics' = [rx |-> metrics.rx, bytes |-> metrics.bytes, tx |-> metrics.tx,
              drop |-> metrics.drop, class_counts |-> counts,
              last_rx |-> metrics.last_rx, last_bytes |-> metrics.last_bytes]
  BY <1>1, MetricsWritten
<1>4. counts \in [Classes -> Counter]
  <2>1. Bump(metrics.class_counts[k]) \in Counter
    BY <1>1, <1>2, BumpTyped
  <2> QED BY <1>1, <1>2, <2>1
<1>5. \A c \in Classes : counts[c] =
        IF c = k THEN Bump(metrics.class_counts[c]) ELSE metrics.class_counts[c]
  BY <1>1, <1>2
<1> HIDE DEF counts
<1>6. metrics' \in MetricsType
  BY <1>1, <1>3, <1>4 DEF MetricsType
<1> QED BY <1>3, <1>5, <1>6 DEF k

\* What the enqueueing stage writes.
LEMMA EnqueueSteps ==
  ASSUME CountersTyped, pkt.size \in Nat, Enqueue
  PROVE  /\ metrics' \in MetricsType
         /\ metrics'.rx = metrics.rx + 1 /\ metrics'.bytes = metrics.bytes + pkt.size
         /\ metrics'.tx = metrics.tx /\ metrics'.class_counts = metrics.class_counts
         /\ metrics'.last_rx = metrics.last_rx /\ metrics'.last_bytes = metrics.last_bytes
         /\ metrics'.drop = metrics.drop
<1> DEFINE s == pkt.size
<1>1. /\ metrics \in MetricsType
      /\ metrics' = [metrics EXCEPT !.rx = @ + 1, !.bytes = @ + s]
  BY DEF CountersTyped, Enqueue
<1>2. s \in Nat
  OBVIOUS
<1> HIDE DEF s
<1>3. metrics' = [rx |-> metrics.rx + 1, bytes |-> metrics.bytes + s, tx |-> metrics.tx,
              drop |-> metrics.drop, class_counts |-> metrics.class_counts,
              last_rx |-> metrics.last_rx, last_bytes |-> metrics.last_bytes]
  BY <1>1, MetricsWritten
<1>4. metrics' \in MetricsType
  BY <1>1, <1>2, <1>3 DEF MetricsType
<1> QED BY <1>3, <1>4 DEF s

\* What the transmitter writes, with the end of the iteration.
LEMMA TransmitSteps ==
  ASSUME loop_count \in Nat, CountersTyped, RatesRight, LoopRight,
         Transmit \/ TransmitNothing
  PROVE  /\ metrics' \in MetricsType /\ reported' \in [rx : Nat, bytes : Nat]
         /\ wlan0' \in DeviceType
         /\ metrics'.rx = metrics.rx /\ metrics'.bytes = metrics.bytes
         /\ metrics'.drop = metrics.drop /\ metrics'.class_counts = metrics.class_counts
         /\ RatesRight' /\ LoopRight' /\ at' \in {"done", "loop"} /\ at = "dequeue"
         /\ Transmit =>
              /\ metrics'.tx = Bump(metrics.tx)
              /\ \/ wlan0'.tx_packets = Bump(wlan0.tx_packets) /\ wlan0'.tx_drops = wlan0.tx_drops
                 \/ wlan0'.tx_drops = Bump(wlan0.tx_drops) /\ wlan0'.tx_packets = wlan0.tx_packets
         /\ TransmitNothing => metrics'.tx = metrics.tx /\ wlan0' = wlan0
<1> DEFINE sent == [metrics EXCEPT !.tx = Bump(@)]
<1>1. /\ metrics \in MetricsType /\ metrics.tx \in Counter /\ wlan0 \in DeviceType
      /\ wlan0.tx_packets \in Counter /\ wlan0.tx_drops \in Counter
      /\ wlan0.tx_depth \in 0 .. TxRingSize
  BY DEF CountersTyped, MetricsType, DeviceType
<1>2. /\ Bump(metrics.tx) \in Counter /\ Bump(wlan0.tx_packets) \in Counter
      /\ Bump(wlan0.tx_drops) \in Counter
  BY <1>1, BumpTyped
<1>3. sent = [rx |-> metrics.rx, bytes |-> metrics.bytes, tx |-> Bump(metrics.tx),
              drop |-> metrics.drop, class_counts |-> metrics.class_counts,
              last_rx |-> metrics.last_rx, last_bytes |-> metrics.last_bytes]
  BY <1>1, MetricsWritten
<1>4. sent \in MetricsType
  BY <1>1, <1>2, <1>3 DEF MetricsType
<1>5. CASE Transmit
  <2>1. at = "dequeue" /\ EnqueueTx /\ EndIteration(sent)
    BY <1>5 DEF Transmit
  <2> HIDE DEF sent
  <2>2. /\ metrics' \in MetricsType /\ reported' \in [rx : Nat, bytes : Nat]
        /\ metrics'.rx = sent.rx /\ metrics'.bytes = sent.bytes /\ metrics'.tx = sent.tx
        /\ metrics'.drop = sent.drop /\ metrics'.class_counts = sent.class_counts
        /\ RatesRight' /\ LoopRight'
    BY <1>3, <1>4, <2>1, EndRight
  <2>3. at' \in {"done", "loop"}
    BY <2>1 DEF EndIteration
  <2>4. ~TransmitNothing
    BY <1>5 DEF Transmit, TransmitNothing, Dequeue, Q!DequeueStrict, Q!DequeueNothing,
                Q!DequeueRoundRobin
  <2>5. CASE wlan0.tx_depth < TxRingSize
    <3>1. wlan0' = [wlan0 EXCEPT !.tx_depth = wlan0.tx_depth + 1,
                                 !.tx_packets = Bump(wlan0.tx_packets)]
      BY <2>1, <2>5 DEF EnqueueTx
    <3> DEFINE a == [wlan0 EXCEPT !.tx_depth = wlan0.tx_depth + 1]
    <3>2. a = [tx_depth |-> wlan0.tx_depth + 1, tx_packets |-> wlan0.tx_packets,
               tx_drops |-> wlan0.tx_drops]
      BY <1>1 DEF DeviceType
    <3> HIDE DEF a
    <3>3. [a EXCEPT !.tx_packets = Bump(wlan0.tx_packets)] =
              [tx_depth |-> wlan0.tx_depth + 1, tx_packets |-> Bump(wlan0.tx_packets),
               tx_drops |-> wlan0.tx_drops]
      BY <3>2
    <3>4. wlan0' = [a EXCEPT !.tx_packets = Bump(wlan0.tx_packets)]
      BY <3>1, Zenon DEF a
    <3>5. wlan0' = [tx_depth |-> wlan0.tx_depth + 1, tx_packets |-> Bump(wlan0.tx_packets),
                    tx_drops |-> wlan0.tx_drops]
      BY <3>3, <3>4
    <3>6. wlan0.tx_depth + 1 \in 0 .. TxRingSize
      BY <1>1, <2>5, DataPathAssumption
    <3>7. wlan0' \in DeviceType
      BY <1>1, <1>2, <3>5, <3>6 DEF DeviceType
    <3> QED BY <1>3, <1>5, <2>1, <2>2, <2>3, <2>4, <3>5, <3>7
  <2>6. CASE ~(wlan0.tx_depth < TxRingSize)
    <3>1. wlan0' = [wlan0 EXCEPT !.tx_drops = Bump(wlan0.tx_drops)]
      BY <2>1, <2>6 DEF EnqueueTx
    <3>2. wlan0' = [tx_depth |-> wlan0.tx_depth, tx_packets |-> wlan0.tx_packets,
                    tx_drops |-> Bump(wlan0.tx_drops)]
      BY <1>1, <3>1 DEF DeviceType
    <3>3. wlan0' \in DeviceType
      BY <1>1, <1>2, <3>2 DEF DeviceType
    <3> QED BY <1>3, <1>5, <2>1, <2>2, <2>3, <2>4, <3>2, <3>3
  <2> QED BY <2>5, <2>6
<1>6. CASE ~Transmit
  <2>1. TransmitNothing
    BY <1>6
  <2>2. at = "dequeue" /\ wlan0' = wlan0 /\ EndIteration(metrics)
    BY <2>1 DEF TransmitNothing
  <2>3. /\ metrics' \in MetricsType /\ reported' \in [rx : Nat, bytes : Nat]
        /\ metrics'.rx = metrics.rx /\ metrics'.bytes = metrics.bytes /\ metrics'.tx = metrics.tx
        /\ metrics'.drop = metrics.drop /\ metrics'.class_counts = metrics.class_counts
        /\ RatesRight' /\ LoopRight'
    BY <1>1, <2>2, EndRight
  <2>4. at' \in {"done", "loop"}
    BY <2>2 DEF EndIteration
  <2> QED BY <1>1, <1>6, <2>1, <2>2, <2>3, <2>4
<1> QED BY <1>5, <1>6

-----------------------------------------------------------------------------
(* The books. *)

\* All counters keep their types, and the snapshots and iterations are right.
LEMMA CountersStep ==
  ASSUME PlaceTyped, PacketTyped, CountersTyped, RatesRight, LoopRight, [Next]_vars
  PROVE  CountersTyped' /\ RatesRight' /\ LoopRight'
<1>0. loop_count \in Nat
  BY DataPathAssumption DEF PlaceTyped
<1>1. ASSUME NEW f \in Frames, XdpHook(ParseHeaders(f))
      PROVE  CountersTyped' /\ RatesRight' /\ LoopRight'
  <2>1. /\ UNCHANGED <<wlan0, reported, loop_count>> /\ at = "loop"
        /\ at' \in {"loop", "filter"}
    BY <1>1 DEF XdpHook
  <2> QED BY <1>1, <2>1, HookSteps DEF CountersTyped, RatesRight, LoopRight
<1>2. CASE FilterDrop
  <2>1. /\ UNCHANGED <<wlan0, reported, loop_count, xdp>> /\ at = "filter" /\ at' = "loop"
    BY <1>2 DEF FilterDrop
  <2> QED BY <1>2, <2>1, FilterSteps DEF CountersTyped, RatesRight, LoopRight
<1>3. CASE Classify
  <2>1. /\ UNCHANGED <<wlan0, reported, loop_count, xdp>> /\ at = "classify"
        /\ at' = "enqueue"
    BY <1>3 DEF Classify
  <2>2. class' \in Classes
    BY PacketStep DEF PacketTyped
  <2> QED BY <1>3, <2>1, <2>2, ClassifySteps DEF CountersTyped, RatesRight, LoopRight
<1>4. CASE Enqueue
  <2>1. /\ UNCHANGED <<wlan0, reported, loop_count, xdp>> /\ at = "enqueue"
        /\ at' = "dequeue"
    BY <1>4 DEF Enqueue
  <2>2. pkt.size \in Nat
    BY <2>1, PacketSize
  <2>3. /\ metrics.rx \in Nat /\ metrics.bytes \in Nat
        /\ metrics.last_rx \in Nat /\ metrics.last_bytes \in Nat
    BY DEF CountersTyped, MetricsType
  <2>4. /\ metrics' \in MetricsType
        /\ metrics'.rx = metrics.rx + 1 /\ metrics'.bytes = metrics.bytes + pkt.size
        /\ metrics'.last_rx = metrics.last_rx /\ metrics'.last_bytes = metrics.last_bytes
    BY <1>4, <2>2, EnqueueSteps
  <2>5. CountersTyped'
    BY <2>1, <2>4 DEF CountersTyped
  <2> DEFINE s == pkt.size
  <2>6. s \in Nat /\ metrics'.bytes = metrics.bytes + s
    BY <2>2, <2>4
  <2> HIDE DEF s
  <2>7. RatesRight'
    BY <2>1, <2>3, <2>4, <2>6 DEF RatesRight
  <2>8. LoopRight'
    BY <1>0, <2>1, <2>4 DEF LoopRight
  <2> QED BY <2>5, <2>7, <2>8
<1>5. CASE Transmit \/ TransmitNothing
  <2>1. UNCHANGED xdp
    BY <1>5 DEF Transmit, TransmitNothing
  <2> QED BY <1>0, <1>5, <2>1, TransmitSteps DEF CountersTyped
<1>6. CASE Quiet
  BY <1>6 DEF Quiet, CountersTyped, RatesRight, LoopRight
<1> QED BY <1>1, <1>2, <1>3, <1>4, <1>5, <1>6, QuietSteps

\* Every packet the hook saw was received, dropped, or is on its way.
HookRight == xdp.processed = ((metrics.rx + metrics.drop) + InFlight) % CounterModulus

\* Bumping a part of a sum, or the whole of it.
LEMMA BumpSum ==
  ASSUME NEW a \in Nat, NEW b \in Nat
  PROVE  /\ Bump(a % CounterModulus) = (a + 1) % CounterModulus
         /\ (Bump(a) + b) % CounterModulus = ((a + b) + 1) % CounterModulus
         /\ (b + Bump(a)) % CounterModulus = ((a + b) + 1) % CounterModulus
         /\ Bump(a) \in Nat
<1>1. CounterModulus \in Nat \ {0} /\ 1 \in Nat /\ a + 1 \in Nat
  BY BumpTyped
<1>2. ((a % CounterModulus) + 1) % CounterModulus = (a + 1) % CounterModulus
  BY <1>1, ModAdd
<1> DEFINE d == (a + 1) % CounterModulus
<1>3. (d + b) % CounterModulus = ((a + 1) + b) % CounterModulus /\ d \in Nat
  <2> DEFINE e == a + 1
  <2>1. e \in Nat
    OBVIOUS
  <2> HIDE DEF e
  <2>2. ((e % CounterModulus) + b) % CounterModulus = (e + b) % CounterModulus
        /\ e % CounterModulus \in 0 .. CounterModulus - 1
    BY <1>1, <2>1, ModAdd
  <2> QED BY <1>1, <2>2 DEF e
<1>4. (a + 1) + b = (a + b) + 1
  OBVIOUS
<1>5. (d + b) % CounterModulus = ((a + b) + 1) % CounterModulus
  BY <1>3, <1>4
<1>6. d + b = b + d
  BY <1>3
<1>7. (b + d) % CounterModulus = ((a + b) + 1) % CounterModulus
  BY <1>5, <1>6
<1> QED BY <1>2, <1>3, <1>5, <1>7 DEF Bump

\* Every way a packet may take keeps the books of the hook.
LEMMA HookStep ==
  ASSUME PlaceTyped, PacketTyped, CountersTyped, RatesRight, LoopRight, HookRight, [Next]_vars
  PROVE  HookRight'
<1> DEFINE r == metrics.rx
           d == metrics.drop
<1>0. r \in Nat /\ d \in Nat
  BY BumpTyped DEF CountersTyped, MetricsType
<1>1. ASSUME NEW f \in Frames, XdpHook(ParseHeaders(f)) PROVE HookRight'
  <2>1. /\ xdp'.processed = Bump(xdp.processed) /\ metrics'.rx = r
        /\ \/ at' = "loop" /\ metrics'.drop = Bump(d)
           \/ at' = "filter" /\ metrics'.drop = d
    BY <1>1, HookSteps
  <2>2. at = "loop"
    BY <1>1 DEF XdpHook
  <2>3. xdp.processed = (r + d) % CounterModulus
    <3>1. (r + d) + 0 = r + d
      BY <1>0
    <3>2. xdp.processed = ((r + d) + 0) % CounterModulus
      BY <2>2 DEF HookRight, InFlight
    <3> HIDE DEF r, d
    <3> QED BY <3>1, <3>2
  <2> HIDE DEF r, d
  <2>4. xdp'.processed = ((r + d) + 1) % CounterModulus
    <3>1. r + d \in Nat
      BY <1>0
    <3>2. Bump((r + d) % CounterModulus) = ((r + d) + 1) % CounterModulus
      BY <3>1, BumpSum
    <3> QED BY <2>1, <2>3, <3>2
  <2>5. CASE at' = "loop" /\ metrics'.drop = Bump(d)
    <3>1. (r + Bump(d)) % CounterModulus = ((d + r) + 1) % CounterModulus /\ Bump(d) \in Nat
      BY <1>0, BumpSum
    <3>2. (r + Bump(d)) + 0 = r + Bump(d) /\ (d + r) + 1 = (r + d) + 1
      BY <1>0, <3>1
    <3>3. ((r + Bump(d)) + 0) % CounterModulus = ((r + d) + 1) % CounterModulus
      BY <3>1, <3>2
    <3> QED BY <2>1, <2>4, <2>5, <3>3 DEF HookRight, InFlight
  <2>6. CASE at' = "filter" /\ metrics'.drop = d
    BY <2>1, <2>4, <2>6 DEF HookRight, InFlight
  <2> QED BY <2>1, <2>5, <2>6
<1>2. CASE FilterDrop
  <2>1. /\ UNCHANGED xdp /\ at = "filter" /\ at' = "loop" /\ metrics'.rx = r
        /\ metrics'.drop = Bump(d)
    BY <1>2, FilterSteps DEF FilterDrop
  <2>2. xdp.processed = ((r + d) + 1) % CounterModulus
    BY <2>1 DEF HookRight, InFlight
  <2> HIDE DEF r, d
  <2>3. (r + Bump(d)) % CounterModulus = ((d + r) + 1) % CounterModulus /\ Bump(d) \in Nat
    BY <1>0, BumpSum
  <2>4. (r + Bump(d)) + 0 = r + Bump(d) /\ (d + r) + 1 = (r + d) + 1
    BY <1>0, <2>3
  <2>5. ((r + Bump(d)) + 0) % CounterModulus = ((r + d) + 1) % CounterModulus
    BY <2>3, <2>4
  <2> QED BY <2>1, <2>2, <2>5 DEF HookRight, InFlight
<1>3. CASE Classify
  <2>1. class' \in Classes
    BY PacketStep DEF PacketTyped
  <2>2. /\ UNCHANGED xdp /\ at = "classify" /\ at' = "enqueue" /\ metrics'.rx = metrics.rx
        /\ metrics'.drop = metrics.drop
    BY <1>3, <2>1, ClassifySteps DEF Classify
  <2> QED BY <2>2 DEF HookRight, InFlight
<1>4. CASE Enqueue
  <2>1. at = "enqueue" /\ at' = "dequeue" /\ UNCHANGED xdp
    BY <1>4 DEF Enqueue
  <2>2. metrics'.rx = r + 1 /\ metrics'.drop = d
    BY <1>4, <2>1, PacketSize, EnqueueSteps
  <2>3. xdp.processed = ((r + d) + 1) % CounterModulus
    BY <2>1 DEF HookRight, InFlight
  <2> HIDE DEF r, d
  <2>4. (r + d) + 1 = ((r + 1) + d) + 0
    BY <1>0
  <2>5. xdp.processed = (((r + 1) + d) + 0) % CounterModulus
    BY <2>3, <2>4
  <2> QED BY <2>1, <2>2, <2>5 DEF HookRight, InFlight
<1>5. CASE Transmit \/ TransmitNothing
  <2>1. loop_count \in Nat
    BY DataPathAssumption DEF PlaceTyped
  <2>2. /\ at = "dequeue" /\ at' \in {"done", "loop"} /\ metrics'.rx = metrics.rx
        /\ metrics'.drop = metrics.drop
    BY <1>5, <2>1, TransmitSteps
  <2>3. UNCHANGED xdp
    BY <1>5 DEF Transmit, TransmitNothing
  <2> QED BY <2>2, <2>3 DEF HookRight, InFlight
<1>6. CASE Quiet
  BY <1>6 DEF Quiet, HookRight
<1> QED BY <1>1, <1>2, <1>3, <1>4, <1>5, <1>6, QuietSteps

-----------------------------------------------------------------------------
(* What was received was transmitted, dropped at a tail, or is queued. *)

\* The sum of a function over the classes, and the lengths of their queues.
SumQ(f) == SumFunctionOnSet(f, Q!Queues)

Lens(qs) == [i \in Q!Queues |-> Len(qs[i])]

\* The sums of the model are those of CountingLemmas.
LEMMA SumsAreSums ==
  ASSUME Q!TypeOK, Q!TypeOK'
  PROVE  /\ Sum(dropped) = SumQ(dropped) /\ Sum(dropped') = SumQ(dropped')
         /\ Backlog = SumQ(Lens(queues)) /\ Backlog' = SumQ(Lens(queues'))
<1>1. ASSUME NEW f, DOMAIN f = Q!Queues PROVE Sum(f) = SumQ(f)
  <2>1. Sum(f) = SumFunction(f)
    BY DEF Sum, FoldFunction, SumFunction, SumFunctionOnSet, FoldFunctionOnSet,
           MapThenFoldSet
  <2> QED BY <1>1, <2>1 DEF SumFunction, SumQ
<1>2. DOMAIN dropped = Q!Queues
  BY DEF Q!TypeOK
<1>3. DOMAIN dropped' = Q!Queues
  BY DEF Q!TypeOK
<1>4. Sum(dropped) = SumQ(dropped)
  BY <1>1, <1>2
<1>5. Sum(dropped') = SumQ(dropped')
  <2> DEFINE f == dropped'
  <2>1. DOMAIN f = Q!Queues
    BY <1>3
  <2> HIDE DEF f
  <2>2. Sum(f) = SumQ(f)
    BY <1>1, <2>1
  <2> QED BY <2>2 DEF f
<1>6. ASSUME NEW qs PROVE Sum(Lens(qs)) = SumQ(Lens(qs))
  <2>1. DOMAIN Lens(qs) = Q!Queues
    BY DEF Lens
  <2> QED BY <1>1, <2>1
<1>7. Backlog = Sum(Lens(queues))
  BY DEF Backlog, Lens
<1>8. Backlog' = Sum(Lens(queues'))
  BY DEF Backlog, Lens
<1> QED BY <1>4, <1>5, <1>6, <1>7, <1>8

\* The classes are finitely many.
LEMMA QueuesFinite == IsFiniteSet(Q!Queues)
<1>1. 0 \in Int /\ NumQueues - 1 \in Int
  BY SchedulerAssumption DEF Q!QoSAssumption
<1> QED BY <1>1, FS_Interval DEF Q!Queues

\* When one class changes, the rest of the sum does not.
LEMMA SumOfClasses ==
  ASSUME NEW f, NEW g, NEW i \in Q!Queues,
         \A j \in Q!Queues : f[j] \in Nat /\ g[j] \in Nat,
         \A j \in Q!Queues : j # i => g[j] = f[j]
  PROVE  /\ SumQ(f) \in Nat /\ SumQ(g) \in Nat
         /\ \E rest \in Nat : SumQ(f) = f[i] + rest /\ SumQ(g) = g[i] + rest
<1> DEFINE S == Q!Queues
           T == Q!Queues \ {i}
<1>1. IsFiniteSet(S) /\ IsFiniteSet(T)
  BY QueuesFinite, FS_Subset
<1>2. \A j \in S : f[j] \in Nat /\ g[j] \in Nat /\ f[j] \in Int /\ g[j] \in Int
  OBVIOUS
<1>3. i \in S /\ T = S \ {i} /\ T \subseteq S /\ Agree(f, g, T)
  BY DEF Agree
<1> HIDE DEF S, T
<1>4. /\ SumFunctionOnSet(f, S) = f[i] + SumFunctionOnSet(f, T)
      /\ SumFunctionOnSet(g, S) = g[i] + SumFunctionOnSet(g, T)
  BY <1>1, <1>2, <1>3, SumOut
<1>5. SumFunctionOnSet(f, T) = SumFunctionOnSet(g, T)
  BY <1>1, <1>3, SumCongruent
<1>6. SumFunctionOnSet(f, T) \in Nat
  <2>1. \A j \in T : f[j] \in Nat
    BY <1>2, <1>3
  <2> QED BY <1>1, <2>1, SumNat
<1>7. SumFunctionOnSet(f, S) \in Nat /\ SumFunctionOnSet(g, S) \in Nat
  <2>1. (\A j \in S : f[j] \in Nat) /\ (\A j \in S : g[j] \in Nat)
    BY <1>2
  <2> QED BY <1>1, <2>1, SumNat
<1> QED BY <1>4, <1>5, <1>6, <1>7 DEF SumQ, S

\* One packet more was received, and dropped at the tail.
LEMMA TailBook ==
  ASSUME NEW rx \in Nat, NEW t \in Nat, NEW d \in Nat, NEW rest \in Nat, NEW b \in Nat,
         rx % CounterModulus = ((t + (d + rest)) + b) % CounterModulus
  PROVE  (rx + 1) % CounterModulus = ((t + (Bump(d) + rest)) + b) % CounterModulus
<1> DEFINE a == (t + (d + rest)) + b
           o == (t + rest) + b
<1>1. a \in Nat /\ o \in Nat /\ a = d + o
  OBVIOUS
<1>2. Bump(rx % CounterModulus) = (rx + 1) % CounterModulus
  BY BumpSum
<1>a. rx % CounterModulus = a % CounterModulus
  OBVIOUS
<1> HIDE DEF a, o
<1>3. Bump(a % CounterModulus) = (a + 1) % CounterModulus
  BY <1>1, BumpSum
<1>4. (Bump(d) + o) % CounterModulus = ((d + o) + 1) % CounterModulus /\ Bump(d) \in Nat
  BY <1>1, BumpSum
<1>5. (rx + 1) % CounterModulus = (a + 1) % CounterModulus
  BY <1>2, <1>3, <1>a
<1>6. (a + 1) % CounterModulus = (Bump(d) + o) % CounterModulus
  BY <1>1, <1>4
<1> DEFINE e == Bump(d)
<1>7. e \in Nat
  BY <1>4
<1> HIDE DEF e
<1>8. e + o = (t + (e + rest)) + b
  BY <1>7 DEF o
<1>9. (e + o) % CounterModulus = ((t + (e + rest)) + b) % CounterModulus
  BY <1>8
<1> QED BY <1>5, <1>6, <1>9 DEF e

\* One packet more was received, and queued.
LEMMA AcceptBook ==
  ASSUME NEW rx \in Nat, NEW t \in Nat, NEW s \in Nat, NEW b \in Nat,
         rx % CounterModulus = ((t + s) + b) % CounterModulus
  PROVE  (rx + 1) % CounterModulus = ((t + s) + (b + 1)) % CounterModulus
<1> DEFINE a == (t + s) + b
<1>1. a \in Nat /\ a + 1 = (t + s) + (b + 1)
  OBVIOUS
<1>2. Bump(rx % CounterModulus) = (rx + 1) % CounterModulus
  BY BumpSum
<1>a. rx % CounterModulus = a % CounterModulus
  OBVIOUS
<1> HIDE DEF a
<1>3. Bump(a % CounterModulus) = (a + 1) % CounterModulus
  BY <1>1, BumpSum
<1>4. (rx + 1) % CounterModulus = (a + 1) % CounterModulus
  BY <1>2, <1>3, <1>a
<1>5. (a + 1) % CounterModulus = ((t + s) + (b + 1)) % CounterModulus
  BY <1>1
<1> QED BY <1>4, <1>5

\* One queued packet was transmitted.
LEMMA SentBook ==
  ASSUME NEW t \in Nat, NEW s \in Nat, NEW b \in Nat
  PROVE  ((Bump(t) + s) + b) % CounterModulus = ((t + s) + (b + 1)) % CounterModulus
<1> DEFINE o == s + b
           e == Bump(t)
<1>1. o \in Nat
  OBVIOUS
<1> HIDE DEF o
<1>2. (Bump(t) + o) % CounterModulus = ((t + o) + 1) % CounterModulus /\ Bump(t) \in Nat
  BY <1>1, BumpSum
<1>3. e \in Nat
  BY <1>2
<1> HIDE DEF e
<1>4. (e + s) + b = e + o /\ (t + s) + (b + 1) = (t + o) + 1
  BY <1>3 DEF o
<1>5. ((e + s) + b) % CounterModulus = (e + o) % CounterModulus
  BY <1>4
<1>6. ((t + s) + (b + 1)) % CounterModulus = ((t + o) + 1) % CounterModulus
  BY <1>4
<1> QED BY <1>2, <1>5, <1>6 DEF e

\* A packet received has been transmitted, was dropped at a tail, or is queued.
SchedulerRight ==
  metrics.rx % CounterModulus = ((metrics.tx + Sum(dropped)) + Backlog) % CounterModulus

\* The pipeline and its scheduler count the same packets.
LEMMA SchedulerStep ==
  ASSUME PlaceTyped, PacketTyped, CountersTyped, RatesRight, LoopRight, SchedulerRight,
         Q!TypeOK, Q!TypeOK', [Next]_vars
  PROVE  SchedulerRight'
<1> DEFINE rx == metrics.rx
           t == metrics.tx
           s == SumQ(dropped)
           b == SumQ(Lens(queues))
<1>0. /\ rx \in Nat /\ t \in Nat
      /\ \A i \in Q!Queues : dropped[i] \in Nat /\ Len(queues[i]) \in Nat
                             /\ dropped'[i] \in Nat /\ Len(queues'[i]) \in Nat
                             /\ queues[i] \in Seq(Sizes)
  <2>1. rx \in Nat /\ t \in Nat
    BY BumpTyped DEF CountersTyped, MetricsType
  <2>2. \A i \in Q!Queues : dropped[i] \in Counter /\ queues[i] \in Seq(Sizes)
    BY DEF Q!TypeOK, Counter
  <2>3. \A i \in Q!Queues : dropped'[i] \in Counter /\ queues'[i] \in Seq(Sizes)
    BY DEF Q!TypeOK, Counter
  <2>4. \A i \in Q!Queues : dropped[i] \in Nat /\ dropped'[i] \in Nat
    BY <2>2, <2>3, BumpTyped
  <2>5. ASSUME NEW q \in Seq(Sizes) PROVE Len(q) \in Nat
    OBVIOUS
  <2>6. \A i \in Q!Queues : Len(queues[i]) \in Nat /\ Len(queues'[i]) \in Nat
    BY <2>2, <2>3, <2>5
  <2> QED BY <2>1, <2>2, <2>4, <2>6
<1>1. /\ Sum(dropped) = s /\ Backlog = b
      /\ Sum(dropped') = SumQ(dropped') /\ Backlog' = SumQ(Lens(queues'))
  BY SumsAreSums
<1>2. rx % CounterModulus = ((t + s) + b) % CounterModulus
  BY <1>1 DEF SchedulerRight
<1>3. ASSUME NEW i \in Q!Queues
      PROVE  s \in Nat /\ b \in Nat
  <2>1. \A j \in Q!Queues : Lens(queues)[j] \in Nat
    BY <1>0 DEF Lens
  <2> QED BY <1>0, <2>1, SumOfClasses
<1>4. ASSUME SumQ(dropped') = s, SumQ(Lens(queues')) = b, metrics'.rx = rx, metrics'.tx = t
      PROVE  SchedulerRight'
  <2> HIDE DEF rx, t, s, b
  <2>1. metrics'.rx % CounterModulus
          = ((metrics'.tx + Sum(dropped')) + Backlog') % CounterModulus
    BY <1>1, <1>2, <1>4
  <2> QED BY <2>1 DEF SchedulerRight
<1>5. ASSUME UNCHANGED <<dropped, queues>>, metrics'.rx = rx, metrics'.tx = t
      PROVE  SchedulerRight'
  <2>1. SumQ(dropped') = s /\ SumQ(Lens(queues')) = b
    BY <1>5
  <2> QED BY <1>4, <1>5, <2>1
<1>6. ASSUME NEW f \in Frames, XdpHook(ParseHeaders(f)) PROVE SchedulerRight'
  <2>1. metrics'.rx = rx /\ metrics'.tx = t
    BY <1>6, HookSteps
  <2>2. UNCHANGED <<dropped, queues>>
    BY <1>6 DEF XdpHook, qosVars
  <2> QED BY <1>5, <2>1, <2>2
<1>7. CASE FilterDrop
  <2>1. metrics'.rx = rx /\ metrics'.tx = t
    BY <1>7, FilterSteps
  <2>2. UNCHANGED <<dropped, queues>>
    BY <1>7 DEF FilterDrop, qosVars
  <2> QED BY <1>5, <2>1, <2>2
<1>8. CASE Classify
  <2>0. class' \in Classes
    BY PacketStep DEF PacketTyped
  <2>1. metrics'.rx = rx /\ metrics'.tx = t
    BY <1>8, <2>0, ClassifySteps
  <2>2. UNCHANGED <<dropped, queues>>
    BY <1>8 DEF Classify, qosVars
  <2> QED BY <1>5, <2>1, <2>2
<1>9. CASE Quiet
  <2>1. UNCHANGED <<dropped, queues>> /\ metrics' = metrics
    BY <1>9 DEF Quiet, qosVars
  <2> QED BY <1>5, <2>1
<1>10. CASE Enqueue
  <2> DEFINE i == Q!QueueIndex(class)
  <2>1. i \in Q!Queues
    BY QueueOfClass DEF PacketTyped
  <2>2. metrics'.rx = rx + 1 /\ metrics'.tx = t
    <3>1. pkt.size \in Nat
      BY <1>10, PacketSize DEF Enqueue
    <3> QED BY <1>10, <3>1, EnqueueSteps
  <2>3. Q!TailDrop(i) \/ Q!Accept(i, pkt.size)
    BY <1>10 DEF Enqueue, Q!Enqueue
  <2> HIDE DEF i
  <2>4. CASE Q!TailDrop(i)
    <3>1. dropped' = [dropped EXCEPT ![i] = Bump(dropped[i])] /\ queues' = queues
      BY <2>4 DEF Q!TailDrop, Q!Bump, Bump
    <3>2. /\ dropped'[i] = Bump(dropped[i])
          /\ \A j \in Q!Queues : j # i => dropped'[j] = dropped[j]
      BY <2>1, <3>1 DEF Q!TypeOK
    <3> DEFINE g == dropped'
    <3>3. /\ \A j \in Q!Queues : dropped[j] \in Nat /\ g[j] \in Nat
          /\ \A j \in Q!Queues : j # i => g[j] = dropped[j]
      BY <1>0, <3>2
    <3> HIDE DEF g
    <3>4. PICK rest \in Nat : SumQ(dropped) = dropped[i] + rest /\ SumQ(g) = g[i] + rest
      BY <2>1, <3>3, SumOfClasses, SMTT(30)
    <3> DEFINE d == dropped[i]
    <3>5. d \in Nat /\ s = d + rest /\ SumQ(dropped') = Bump(d) + rest
      BY <1>0, <2>1, <3>2, <3>4 DEF g
    <3>6. b \in Nat /\ SumQ(Lens(queues')) = b
      BY <1>3, <2>1, <3>1
    <3> HIDE DEF rx, t, s, b, d
    <3>7. rx % CounterModulus = ((t + (d + rest)) + b) % CounterModulus
      BY <1>2, <3>5
    <3>8. (rx + 1) % CounterModulus = ((t + (Bump(d) + rest)) + b) % CounterModulus
      BY <1>0, <3>5, <3>6, <3>7, TailBook
    <3>9. metrics'.rx % CounterModulus
            = ((metrics'.tx + Sum(dropped')) + Backlog') % CounterModulus
      BY <1>1, <2>2, <3>5, <3>6, <3>8
    <3> QED BY <3>9 DEF SchedulerRight
  <2>5. CASE Q!Accept(i, pkt.size)
    <3>1. dropped' = dropped /\ queues' = [queues EXCEPT ![i] = Append(queues[i], pkt.size)]
      BY <2>5 DEF Q!Accept
    <3>2. /\ Len(queues'[i]) = Len(queues[i]) + 1
          /\ \A j \in Q!Queues : j # i => queues'[j] = queues[j]
      <4>1. pkt.size \in Sizes
        BY <1>10, PacketSize DEF Enqueue
      <4> DEFINE z == pkt.size
      <4>2. z \in Sizes /\ queues' = [queues EXCEPT ![i] = Append(queues[i], z)]
        BY <3>1, <4>1
      <4> HIDE DEF z
      <4>3. Len(Append(queues[i], z)) = Len(queues[i]) + 1
        BY <1>0, <2>1, <4>2
      <4> QED BY <2>1, <4>2, <4>3 DEF Q!TypeOK
    <3> DEFINE f == Lens(queues)
               g == Lens(queues')
    <3>3. /\ \A j \in Q!Queues : f[j] \in Nat /\ g[j] \in Nat
          /\ \A j \in Q!Queues : j # i => g[j] = f[j]
          /\ g[i] = f[i] + 1 /\ f[i] \in Nat
      BY <1>0, <2>1, <3>2 DEF Lens
    <3> HIDE DEF f, g
    <3>4. PICK rest \in Nat : SumQ(f) = f[i] + rest /\ SumQ(g) = g[i] + rest
      BY <2>1, <3>3, SumOfClasses
    <3>5. SumQ(g) = SumQ(f) + 1
      BY <3>3, <3>4
    <3>6. s \in Nat /\ b \in Nat /\ SumQ(dropped') = s /\ SumQ(Lens(queues')) = b + 1
      BY <1>3, <2>1, <3>1, <3>5 DEF f, g
    <3> HIDE DEF rx, t, s, b
    <3>7. (rx + 1) % CounterModulus = ((t + s) + (b + 1)) % CounterModulus
      <4>1. rx \in Nat /\ t \in Nat /\ s \in Nat /\ b \in Nat
        BY <1>0, <3>6
      <4> QED BY <1>2, <4>1, AcceptBook
    <3>8. metrics'.rx % CounterModulus
            = ((metrics'.tx + Sum(dropped')) + Backlog') % CounterModulus
      BY <1>1, <2>2, <3>6, <3>7
    <3> QED BY <3>8 DEF SchedulerRight
  <2> QED BY <2>3, <2>4, <2>5
<1>11. CASE Transmit \/ TransmitNothing
  <2>0. loop_count \in Nat
    BY DataPathAssumption DEF PlaceTyped
  <2>1. metrics'.rx = rx /\ (Transmit => metrics'.tx = Bump(t))
        /\ (TransmitNothing => metrics'.tx = t)
    BY <1>11, <2>0, TransmitSteps
  <2>2. CASE TransmitNothing
    <3>1. UNCHANGED <<dropped, queues>>
      BY <2>2 DEF TransmitNothing, Q!DequeueNothing, Q!statVars
    <3> QED BY <1>5, <2>1, <2>2, <3>1
  <2>3. CASE Transmit
    <3>1. PICK i \in Q!Queues : queues[i] # << >> /\ Q!Serve(i)
      BY <2>3, ServesOne
    <3>2. dropped' = dropped /\ queues' = [queues EXCEPT ![i] = Tail(queues[i])]
      BY <3>1 DEF Q!Serve
    <3>3. /\ Len(queues[i]) = Len(queues'[i]) + 1
          /\ \A j \in Q!Queues : j # i => queues'[j] = queues[j]
      <4>1. Len(queues[i]) = Len(Tail(queues[i])) + 1
        BY <1>0, <3>1
      <4> QED BY <3>2, <4>1 DEF Q!TypeOK
    <3> DEFINE f == Lens(queues)
               g == Lens(queues')
    <3>4. /\ \A j \in Q!Queues : f[j] \in Nat /\ g[j] \in Nat
          /\ \A j \in Q!Queues : j # i => g[j] = f[j]
          /\ f[i] = g[i] + 1 /\ g[i] \in Nat
      BY <1>0, <3>3 DEF Lens
    <3> HIDE DEF f, g
    <3>5. (\E rest \in Nat : SumQ(f) = f[i] + rest /\ SumQ(g) = g[i] + rest) /\ SumQ(g) \in Nat
      BY <3>4, SumOfClasses
    <3>6. SumQ(f) = SumQ(g) + 1
      BY <3>4, <3>5
    <3> DEFINE c == SumQ(g)
    <3>7. s \in Nat /\ c \in Nat /\ SumQ(dropped') = s /\ SumQ(Lens(queues')) = c /\ b = c + 1
      BY <1>3, <3>2, <3>5, <3>6 DEF f, g
    <3> HIDE DEF rx, t, s, b, c
    <3>8. rx % CounterModulus = ((t + s) + (c + 1)) % CounterModulus
      BY <1>2, <3>7
    <3>9. ((Bump(t) + s) + c) % CounterModulus = ((t + s) + (c + 1)) % CounterModulus
      BY <1>0, <3>7, SentBook
    <3>10. metrics'.rx % CounterModulus
             = ((metrics'.tx + Sum(dropped')) + Backlog') % CounterModulus
      BY <1>1, <2>1, <2>3, <3>7, <3>8, <3>9
    <3> QED BY <3>10 DEF SchedulerRight
  <2> QED BY <1>11, <2>2, <2>3
<1> QED BY <1>6, <1>7, <1>8, <1>9, <1>10, <1>11, QuietSteps

-----------------------------------------------------------------------------
(* What was transmitted is in the ring of wlan0 or was dropped there. *)

\* What was transmitted the device has sent or dropped.
DeviceRight == metrics.tx = (wlan0.tx_packets + wlan0.tx_drops) % CounterModulus

\* The result of enqueue_tx is ignored, but one of its two counters moves.
LEMMA DeviceStep ==
  ASSUME PlaceTyped, PacketTyped, CountersTyped, RatesRight, LoopRight, DeviceRight, [Next]_vars
  PROVE  DeviceRight'
<1>1. ASSUME UNCHANGED wlan0, metrics'.tx = metrics.tx PROVE DeviceRight'
  BY <1>1 DEF DeviceRight
<1>2. ASSUME NEW f \in Frames, XdpHook(ParseHeaders(f)) PROVE DeviceRight'
  BY <1>1, <1>2, HookSteps DEF XdpHook
<1>3. CASE FilterDrop
  BY <1>1, <1>3, FilterSteps DEF FilterDrop
<1>4. CASE Classify
  <2>1. class' \in Classes
    BY PacketStep DEF PacketTyped
  <2> QED BY <1>1, <1>4, <2>1, ClassifySteps DEF Classify
<1>5. CASE Enqueue
  <2>1. pkt.size \in Nat
    BY <1>5, PacketSize DEF Enqueue
  <2> QED BY <1>1, <1>5, <2>1, EnqueueSteps DEF Enqueue
<1>6. CASE Quiet
  BY <1>1, <1>6 DEF Quiet
<1>7. CASE Transmit \/ TransmitNothing
  <2>0. loop_count \in Nat
    BY DataPathAssumption DEF PlaceTyped
  <2> DEFINE t == metrics.tx
             p == wlan0.tx_packets
             d == wlan0.tx_drops
  <2>1. /\ TransmitNothing => metrics'.tx = t /\ wlan0' = wlan0
        /\ Transmit =>
             /\ metrics'.tx = Bump(t)
             /\ \/ wlan0'.tx_packets = Bump(p) /\ wlan0'.tx_drops = d
                \/ wlan0'.tx_drops = Bump(d) /\ wlan0'.tx_packets = p
    BY <1>7, <2>0, TransmitSteps
  <2>2. p \in Nat /\ d \in Nat
    BY BumpTyped DEF CountersTyped, DeviceType
  <2>3. t = (p + d) % CounterModulus
    BY DEF DeviceRight
  <2>4. CASE TransmitNothing
    BY <1>1, <2>1, <2>4
  <2>5. CASE Transmit
    <3> HIDE DEF t, p, d
    <3>1. Bump(t) = ((p + d) + 1) % CounterModulus
      <4>1. p + d \in Nat
        BY <2>2
      <4>2. Bump((p + d) % CounterModulus) = ((p + d) + 1) % CounterModulus
        BY <4>1, BumpSum
      <4> QED BY <2>3, <4>2
    <3>2. (Bump(p) + d) % CounterModulus = ((p + d) + 1) % CounterModulus
      BY <2>2, BumpSum
    <3>3. (p + Bump(d)) % CounterModulus = ((p + d) + 1) % CounterModulus
      <4>1. (p + Bump(d)) % CounterModulus = ((d + p) + 1) % CounterModulus
        BY <2>2, BumpSum
      <4>2. (d + p) + 1 = (p + d) + 1
        BY <2>2
      <4> QED BY <4>1, <4>2
    <3> QED BY <2>1, <2>5, <3>1, <3>2, <3>3 DEF DeviceRight
  <2> QED BY <1>7, <2>4, <2>5
<1> QED BY <1>2, <1>3, <1>4, <1>5, <1>6, <1>7, QuietSteps

-----------------------------------------------------------------------------
(* Each class received what the scheduler accepted or dropped for it. *)

\* The packet classified as c that has not reached its queue yet.
Classified(c) == IF at = "enqueue" /\ class = c THEN 1 ELSE 0

\* What was counted for a class was enqueued or dropped there, or is on its way.
ClassesRight ==
  \A c \in Classes :
    metrics.class_counts[c] = ((enqueued[c] + dropped[c]) + Classified(c)) % CounterModulus

\* The classifier counts what the next stage hands to the scheduler.
LEMMA ClassesStep ==
  ASSUME PlaceTyped, PacketTyped, CountersTyped, RatesRight, LoopRight, ClassesRight,
         Q!TypeOK, [Next]_vars
  PROVE  ClassesRight'
<1>0. ASSUME NEW c \in Classes
      PROVE  /\ c \in Q!Queues /\ enqueued[c] \in Nat /\ dropped[c] \in Nat
             /\ metrics.class_counts[c] \in Nat
  <2>1. c \in Q!Queues
    BY QueueOfClass
  <2>2. enqueued[c] \in Counter /\ dropped[c] \in Counter /\ metrics.class_counts[c] \in Counter
    BY <2>1 DEF Q!TypeOK, Counter, CountersTyped, MetricsType
  <2> QED BY <2>1, <2>2, BumpTyped
<1>1. ASSUME UNCHANGED <<enqueued, dropped>>, metrics'.class_counts = metrics.class_counts,
             at # "enqueue", at' # "enqueue"
      PROVE  ClassesRight'
  BY <1>1 DEF ClassesRight, Classified
<1>2. ASSUME NEW f \in Frames, XdpHook(ParseHeaders(f)) PROVE ClassesRight'
  <2>1. UNCHANGED qosVars /\ at = "loop" /\ at' # "enqueue"
    BY <1>2 DEF XdpHook
  <2> QED BY <1>1, <1>2, <2>1, HookSteps DEF qosVars
<1>3. CASE FilterDrop
  <2>1. UNCHANGED qosVars /\ at = "filter" /\ at' # "enqueue"
    BY <1>3 DEF FilterDrop
  <2> QED BY <1>1, <1>3, <2>1, FilterSteps DEF qosVars
<1>4. CASE Classify
  <2> DEFINE k == class'
  <2>1. k \in Classes
    BY PacketStep DEF PacketTyped
  <2>2. \A c \in Classes : metrics'.class_counts[c] =
          IF c = k THEN Bump(metrics.class_counts[c]) ELSE metrics.class_counts[c]
    BY <1>4, <2>1, ClassifySteps
  <2>3. /\ enqueued' = enqueued /\ dropped' = dropped /\ at = "classify" /\ at' = "enqueue"
        /\ class' = k
    BY <1>4 DEF Classify, qosVars
  <2> HIDE DEF k
  <2> SUFFICES ASSUME NEW c \in Classes
               PROVE  metrics'.class_counts[c]
                        = ((enqueued[c] + dropped[c]) + Classified(c)') % CounterModulus
    BY <2>3 DEF ClassesRight
  <2> DEFINE a == enqueued[c] + dropped[c]
  <2>4. a \in Nat /\ a + 0 = a
    BY <1>0
  <2>5. metrics.class_counts[c] = (a + 0) % CounterModulus
    BY <2>3 DEF ClassesRight, Classified
  <2> HIDE DEF a
  <2>6. CASE c = k
    <3>1. Bump(a % CounterModulus) = (a + 1) % CounterModulus
      BY <2>4, BumpSum
    <3>2. metrics'.class_counts[c] = (a + 1) % CounterModulus
      BY <2>2, <2>4, <2>5, <2>6, <3>1
    <3>3. Classified(c)' = 1
      BY <2>3, <2>6 DEF Classified
    <3> QED BY <3>2, <3>3 DEF a
  <2>7. CASE c # k
    <3>1. Classified(c)' = 0
      BY <2>3, <2>7 DEF Classified
    <3> QED BY <2>2, <2>5, <2>7, <3>1 DEF a
  <2> QED BY <2>6, <2>7
<1>5. CASE Enqueue
  <2>1. at = "enqueue" /\ at' = "dequeue"
    BY <1>5 DEF Enqueue
  <2>2. metrics'.class_counts = metrics.class_counts
    BY <1>5, <2>1, PacketSize, EnqueueSteps
  <2>3. class \in Classes /\ Q!QueueIndex(class) = class /\ class \in Q!Queues
    BY QueueOfClass DEF PacketTyped
  <2>4. \/ dropped' = [dropped EXCEPT ![class] = Bump(dropped[class])] /\ enqueued' = enqueued
        \/ enqueued' = [enqueued EXCEPT ![class] = Bump(enqueued[class])] /\ dropped' = dropped
    BY <1>5, <2>3 DEF Enqueue, Q!Enqueue, Q!TailDrop, Q!Accept, Q!Bump, Bump
  <2> SUFFICES ASSUME NEW c \in Classes
               PROVE  metrics'.class_counts[c]
                        = ((enqueued'[c] + dropped'[c]) + 0) % CounterModulus
    BY <2>1 DEF ClassesRight, Classified
  <2> DEFINE e == enqueued[c]
             d == dropped[c]
  <2>5. e \in Nat /\ d \in Nat /\ c \in Q!Queues
    BY <1>0
  <2>6. metrics'.class_counts[c] = ((e + d) + Classified(c)) % CounterModulus
    BY <2>2 DEF ClassesRight
  <2>7. CASE c # class
    <3>1. enqueued'[c] = e /\ dropped'[c] = d
      BY <2>3, <2>4, <2>5, <2>7 DEF Q!TypeOK
    <3>2. Classified(c) = 0
      BY <2>7 DEF Classified
    <3> QED BY <2>6, <3>1, <3>2
  <2>8. CASE c = class
    <3>1. \/ enqueued'[c] = e /\ dropped'[c] = Bump(d)
          \/ enqueued'[c] = Bump(e) /\ dropped'[c] = d
      BY <2>3, <2>4, <2>5, <2>8 DEF Q!TypeOK
    <3>2. Classified(c) = 1
      BY <2>1, <2>8 DEF Classified
    <3> HIDE DEF e, d
    <3>3. metrics'.class_counts[c] = ((e + d) + 1) % CounterModulus
      BY <2>6, <3>2
    <3>4. /\ (Bump(e) + d) % CounterModulus = ((e + d) + 1) % CounterModulus
          /\ Bump(e) \in Nat /\ Bump(d) \in Nat
      BY <2>5, BumpSum
    <3>5. (e + Bump(d)) % CounterModulus = ((d + e) + 1) % CounterModulus
      BY <2>5, BumpSum
    <3>6. (d + e) + 1 = (e + d) + 1
      BY <2>5
    <3>7. (e + Bump(d)) + 0 = e + Bump(d) /\ (Bump(e) + d) + 0 = Bump(e) + d
      BY <2>5, <3>4
    <3>8. ((e + Bump(d)) + 0) % CounterModulus = ((e + d) + 1) % CounterModulus
      BY <3>5, <3>6, <3>7
    <3>9. ((Bump(e) + d) + 0) % CounterModulus = ((e + d) + 1) % CounterModulus
      BY <3>4, <3>7
    <3> QED BY <3>1, <3>3, <3>8, <3>9
  <2> QED BY <2>7, <2>8
<1>6. CASE Transmit \/ TransmitNothing
  <2>0. loop_count \in Nat
    BY DataPathAssumption DEF PlaceTyped
  <2>1. metrics'.class_counts = metrics.class_counts /\ at = "dequeue" /\ at' # "enqueue"
    BY <1>6, <2>0, TransmitSteps
  <2>2. UNCHANGED <<enqueued, dropped>>
    <3>1. CASE Transmit
      BY <3>1, ServesOne DEF Q!Serve
    <3>2. CASE TransmitNothing
      BY <3>2 DEF TransmitNothing, Q!DequeueNothing, Q!statVars
    <3> QED BY <1>6, <3>1, <3>2
  <2> QED BY <1>1, <2>1, <2>2
<1>7. CASE Quiet
  <2>1. /\ UNCHANGED <<enqueued, dropped>> /\ metrics' = metrics
        /\ \A c : Classified(c)' = Classified(c)
    BY <1>7 DEF Quiet, qosVars, Classified
  <2> QED BY <2>1 DEF ClassesRight
<1> QED BY <1>2, <1>3, <1>4, <1>5, <1>6, <1>7, QuietSteps

-----------------------------------------------------------------------------
(* The invariant and what follows from it. *)

\* All parts together: the types, ...
TypeInv == Q!TypeOK /\ PlaceTyped /\ PacketTyped /\ TablesTyped /\ CountersTyped

\* ... the counters of the stages against each other, ...
BooksInv ==
  /\ HookRight /\ LoopRight /\ SchedulerRight /\ DeviceRight /\ ClassesRight
  /\ Q!PacketsAccounted /\ RatesRight

\* ... the tables against each other, and voice before the rest.
DataInv == TypeInv /\ BooksInv /\ TablesRight /\ VoiceRight

\* Nothing has happened yet.
LEMMA DataInit == Init => DataInv
<1> SUFFICES ASSUME Init PROVE DataInv
  OBVIOUS
<1>1. Q!TypeOK /\ Q!PacketsAccounted
  <2>1. Sched!Init
    BY DEF Init, Q!Init, Sched!Init, Q!Queues, Sched!Queues, Q!NoQueue, Sched!NoQueue
  <2> QED BY <2>1, SchedulerAssumed, SameStates, Sched!InitTyped, Sched!InitAccount
<1>2. /\ 0 \in Counter /\ 0 \in 0 .. CountCap /\ 0 \in 0 .. TxRingSize /\ 0 \in 0 .. LoopLimit
      /\ 0 < LoopLimit /\ 0 % TelemetryEvery = 0 /\ 0 % CounterModulus = 0
      /\ << >> \in Seq(ProgramType) /\ << >> \in Seq(RuleType)
      /\ CounterModulus \in Nat \ {0} /\ BestEffort \in Classes
  BY DataPathAssumption, BumpTyped
<1>3. PlaceTyped
  BY <1>2 DEF Init, PlaceTyped
<1>4. PacketTyped
  BY <1>2 DEF Init, PacketTyped, Verdicts
<1>5. TablesTyped
  BY <1>2 DEF Init, TablesTyped, NewConnection
<1>6. CountersTyped
  <2>1. xdp \in HookType /\ wlan0 \in DeviceType
    BY <1>2 DEF Init, NewHook, NewDevice, HookType, DeviceType
  <2>2. metrics \in MetricsType
    BY <1>2 DEF Init, NewMetrics, MetricsType
  <2>3. reported \in [rx : Nat, bytes : Nat]
    BY DEF Init
  <2> QED BY <2>1, <2>2, <2>3 DEF CountersTyped
<1>7. HookRight /\ LoopRight /\ DeviceRight /\ RatesRight
  BY <1>2 DEF Init, HookRight, LoopRight, DeviceRight, RatesRight, InFlight, NewHook, NewMetrics,
              NewDevice
<1>8. ClassesRight
  <2>1. \A c \in Classes : enqueued[c] = 0 /\ dropped[c] = 0 /\ metrics.class_counts[c] = 0
    BY QueueOfClass DEF Init, Q!Init, NewMetrics
  <2>2. \A c \in Classes : Classified(c) = 0
    BY DEF Init, Classified
  <2> QED BY <1>2, <2>1, <2>2 DEF ClassesRight
<1>9. SchedulerRight
  <2>1. /\ metrics.rx = 0 /\ metrics.tx = 0
        /\ dropped = [i \in Q!Queues |-> 0] /\ queues = [i \in Q!Queues |-> << >>]
    BY DEF Init, Q!Init, NewMetrics
  <2>2. IsFiniteSet(Q!Queues)
    BY QueuesFinite
  <2>3. Sum(dropped) = 0 /\ Backlog = 0
    <3>1. ASSUME NEW f, DOMAIN f = Q!Queues, \A i \in Q!Queues : f[i] = 0 PROVE Sum(f) = 0
      <4>1. SumFunctionOnSet(f, Q!Queues) = 0
        BY <2>2, <3>1, SumZero
      <4>2. Sum(f) = SumFunction(f)
        BY DEF Sum, FoldFunction, SumFunction, SumFunctionOnSet, FoldFunctionOnSet,
               MapThenFoldSet
      <4> QED BY <3>1, <4>1, <4>2 DEF SumFunction
    <3>2. DOMAIN dropped = Q!Queues /\ \A i \in Q!Queues : dropped[i] = 0
      BY <2>1
    <3>3. DOMAIN Lens(queues) = Q!Queues /\ \A i \in Q!Queues : Lens(queues)[i] = 0
      BY <2>1 DEF Lens
    <3>4. Backlog = Sum(Lens(queues))
      BY DEF Backlog, Lens
    <3> QED BY <3>1, <3>2, <3>3, <3>4
  <2> QED BY <2>1, <2>3 DEF SchedulerRight
<1>10. TablesRight
  BY DataPathAssumption DEF Init, TablesRight, NewConnection
<1>11. VoiceRight
  <2>1. 0 \in Q!Queues
    <3>1. NumQueues \in Nat \ {0}
      BY SchedulerAssumption DEF Q!QoSAssumption
    <3> QED BY <3>1 DEF Q!Queues
  <2> QED BY <2>1 DEF Init, Q!Init, VoiceRight
<1> QED BY <1>1, <1>3, <1>4, <1>5, <1>6, <1>7, <1>8, <1>9, <1>10, <1>11
     DEF DataInv, TypeInv, BooksInv

\* Every step keeps all of it.
LEMMA DataStep == DataInv /\ [Next]_vars => DataInv'
<1> SUFFICES ASSUME DataInv, [Next]_vars PROVE DataInv'
  OBVIOUS
<1> USE DEF DataInv, TypeInv, BooksInv
<1>1. Q!TypeOK' /\ Q!PacketsAccounted'
  <2>1. Sched!TypeOK /\ Sched!PacketsAccounted /\ [Sched!Next]_(Sched!vars)
    BY SameStates, SchedulerSteps
  <2>2. Sched!TypeOK' /\ Sched!PacketsAccounted'
    BY <2>1, SchedulerAssumed, Sched!TypeStep, Sched!AccountStep
  <2> QED BY <2>2, SameNextStates
<1>2. PlaceTyped' /\ PacketTyped'
  BY PlaceStep, PacketStep
<1>3. TablesTyped' /\ TablesRight'
  BY TablesStep
<1>4. CountersTyped' /\ RatesRight' /\ LoopRight'
  BY CountersStep
<1>5. HookRight' /\ DeviceRight'
  BY HookStep, DeviceStep
<1>6. ClassesRight' /\ SchedulerRight'
  BY <1>1, ClassesStep, SchedulerStep
<1>7. VoiceRight'
  BY VoiceStep
<1> QED BY <1>1, <1>2, <1>3, <1>4, <1>5, <1>6, <1>7

\* The invariant of the pipeline, for every configuration of its stages.
THEOREM DataInvariant == Spec => []DataInv
BY DataInit, DataStep, PTL DEF Spec

\* The books of the six components balance between iterations, whatever is dropped
\* on the way and whichever counters have wrapped.
THEOREM BooksAlwaysBalance == Spec => []BooksBalance
<1>1. DataInv => BooksBalance
  <2> SUFFICES ASSUME DataInv PROVE BooksBalance
    OBVIOUS
  <2> USE DEF DataInv, TypeInv, BooksInv
  <2>1. TypeOK
    <3>1. pkt \in Headers \cup {NoPacket} /\ verd \in Verdicts /\ class \in Classes
      BY DEF PacketTyped
    <3>2. wlan0 \in [tx_depth : 0 .. TxRingSize, tx_packets : Counter, tx_drops : Counter]
      BY DEF CountersTyped, DeviceType
    <3> QED BY <3>1, <3>2 DEF TypeOK, PlaceTyped, TablesTyped
  <2> SUFFICES ASSUME at = "loop" PROVE BooksBalance
    BY <2>1 DEF BooksBalance
  <2>2. /\ metrics.rx \in Nat /\ metrics.drop \in Nat
        /\ \A c \in Classes : enqueued[c] \in Nat /\ dropped[c] \in Nat
    <3>1. metrics.rx \in Nat /\ metrics.drop \in Nat
      BY BumpTyped DEF CountersTyped, MetricsType
    <3>2. \A c \in Classes : enqueued[c] \in Counter /\ dropped[c] \in Counter
      BY QueueOfClass DEF Q!TypeOK, Counter
    <3> QED BY <3>1, <3>2, BumpTyped
  <2>3. xdp.processed = (metrics.rx + metrics.drop) % CounterModulus
    <3>1. (metrics.rx + metrics.drop) + 0 = metrics.rx + metrics.drop
      BY <2>2
    <3>2. xdp.processed = ((metrics.rx + metrics.drop) + 0) % CounterModulus
      BY DEF HookRight, InFlight
    <3> QED BY <3>1, <3>2
  <2>4. metrics.rx = loop_count
    BY DEF LoopRight, PlaceTyped
  <2>5. ASSUME NEW c \in Classes
        PROVE  metrics.class_counts[c] = (enqueued[c] + dropped[c]) % CounterModulus
    <3> DEFINE a == enqueued[c] + dropped[c]
    <3>1. a + 0 = a
      BY <2>2
    <3>2. metrics.class_counts[c] = (a + 0) % CounterModulus
      BY DEF ClassesRight, Classified
    <3> HIDE DEF a
    <3>3. metrics.class_counts[c] = a % CounterModulus
      BY <3>1, <3>2
    <3> QED BY <3>3 DEF a
  <2>6. reported = [rx |-> metrics.last_rx, bytes |-> metrics.last_bytes]
        /\ metrics.last_rx = loop_count - (loop_count % TelemetryEvery)
    BY DEF RatesRight
  <2> QED BY <2>1, <2>3, <2>4, <2>5, <2>6 DEF BooksBalance, SchedulerRight, DeviceRight
<1> QED BY <1>1, DataInvariant, PTL

\* Between packets, connection tracking and the flow table agree on every flow.
THEOREM TablesAlwaysAgree == Spec => []TablesAgree
<1>1. DataInv => TablesAgree
  BY DEF DataInv, TablesRight, TablesAgree
<1> QED BY <1>1, DataInvariant, PTL

\* No voice or control packet is left behind by an iteration.
THEOREM VoiceNeverLeftWaiting == Spec => []VoiceNeverWaits
<1>1. DataInv => VoiceNeverWaits
  BY DEF DataInv, VoiceRight, VoiceNeverWaits
<1> QED BY <1>1, DataInvariant, PTL

-----------------------------------------------------------------------------
(* The flow classifier. *)

CONSTANTS Gaps, Micro, Window

VARIABLES flow, step, stats, past

\* FlowClassifier on its own, for the flows and packet sizes of the pipeline.
C == INSTANCE FlowClassifier WITH Flows <- Headers, at <- step

\* The entry of the flow table as a record.
Entry(s) ==
  s = [packet_count |-> s.packet_count, iats |-> s.iats, sizes |-> s.sizes,
       burst |-> s.burst, mean |-> s.mean, predicted |-> s.predicted]

\* Positions by which the intervals lag behind the packets: the first packet of a
\* flow has none, until it leaves the window.
Lag(n) == IF n \in 1 .. Window THEN 1 ELSE 0

\* The windows hold the last packets, and the features belong to the windows.
WindowsRight ==
  /\ Entry(stats)
  /\ stats.packet_count \in 0 .. CountCap
  /\ past \in Seq([iat : Int, size : Sizes])
  /\ Len(past) = IF stats.packet_count < Window THEN stats.packet_count ELSE Window
  /\ stats.sizes \in Seq(Sizes) /\ Len(stats.sizes) = Len(past)
  /\ \A i \in 1 .. Len(past) : stats.sizes[i] = past[i].size
  /\ \A i \in 1 .. Len(past) :
       past[i].iat = C!None <=> i = 1 /\ stats.packet_count <= Window
  /\ stats.iats \in Seq(Int) /\ Len(stats.iats) = Len(past) - Lag(stats.packet_count)
  /\ \A i \in 1 .. Len(stats.iats) :
       stats.iats[i] = past[i + Lag(stats.packet_count)].iat

\* The features follow from the windows, the burstiness once there is a ratio to look at.
FeaturesRight ==
  /\ stats.burst \in Burstiness(stats.packet_count)
  /\ stats.packet_count < 2 => stats.mean = [sum |-> 0, of |-> 1]
  /\ stats.packet_count >= 2 =>
       stats.mean = [sum |-> C!Total(stats.sizes), of |-> Len(stats.sizes)]
  /\ C!HasRatio(stats.iats) => stats.burst = C!BurstinessOf(stats.iats)

\* The inductive invariant: a flow waiting for packets has the class of its features.
ClassifierInv ==
  /\ step \in {"track", "classify"} /\ flow \in Headers
  /\ WindowsRight /\ FeaturesRight
  /\ step = "track" /\ stats.packet_count > 0 =>
       stats.predicted = C!ClassifyFlow(flow, stats.packet_count, stats.mean, stats.burst)

\* A window of w elements after one more.
LEMMA SlideWindow ==
  ASSUME NEW S, NEW q \in Seq(S), NEW x \in S, Len(q) <= Window, Window \in Nat \ {0}
  PROVE  /\ C!Slide(q, x) \in Seq(S)
         /\ Len(C!Slide(q, x)) = IF Len(q) < Window THEN Len(q) + 1 ELSE Window
         /\ C!Slide(q, x)[Len(C!Slide(q, x))] = x
         /\ \A i \in 1 .. Len(C!Slide(q, x)) - 1 :
              C!Slide(q, x)[i] = IF Len(q) < Window THEN q[i] ELSE q[i + 1]
<1>1. CASE Len(q) < Window
  BY <1>1 DEF C!Slide
<1>2. CASE Len(q) = Window
  <2> DEFINE t == Tail(q)
  <2>1. /\ t \in Seq(S) /\ Len(t) = Window - 1
        /\ \A i \in 1 .. Window - 1 : t[i] = q[i + 1]
    BY <1>2
  <2>2. C!Slide(q, x) = Append(t, x)
    BY <1>2 DEF C!Slide
  <2> HIDE DEF t
  <2>3. /\ Append(t, x) \in Seq(S) /\ Len(Append(t, x)) = Window
        /\ Append(t, x)[Window] = x
        /\ \A i \in 1 .. Window - 1 : Append(t, x)[i] = t[i]
    BY <2>1
  <2> QED BY <1>2, <2>1, <2>2, <2>3
<1>3. Len(q) < Window \/ Len(q) = Window
  OBVIOUS
<1> QED BY <1>1, <1>2, <1>3, Zenon

\* The window of the model and those of the program slide alike.
LEMMA PastSlides ==
  ASSUME NEW p, Window \in Nat \ {0}, Len(past) <= Window, Len(past) \in Nat
  PROVE  Append(IF Len(past) < Window THEN past ELSE Tail(past), p) = C!Slide(past, p)
BY DEF C!Slide

\* How many ratios are reached is a burstiness.
LEMMA RatiosTyped ==
  ASSUME NEW s, NEW n
  PROVE  C!RatiosReached(s, n) \in Burstinesses
<1> DEFINE R == {i \in DOMAIN C!Ratios :
                   10000 * Len(s) * C!Deviation(s) >= C!Ratios[i] ^ 2 * n * C!Total(s) ^ 2}
<1>1. C!RatiosReached(s, n) = Cardinality(R)
  <2>1. C!RatiosReached(s, n) = C!Cardinality(R)
    BY DEF C!RatiosReached
  <2> HIDE DEF R
  <2>2. C!Cardinality(R) = Cardinality(R)
    BY Zenon DEF C!Cardinality, Cardinality, C!IsFiniteSet, IsFiniteSet
  <2> QED BY <2>1, <2>2
<1>2. R \subseteq 1 .. 3 /\ Len(Ratios) = 3
  BY DEF Ratios, C!Ratios
<1> HIDE DEF R
<1>3. IsFiniteSet(1 .. 3) /\ Cardinality(1 .. 3) = 3
  <2>1. 1 \in Int /\ 3 \in Int
    OBVIOUS
  <2>2. Cardinality(1 .. 3) = IF 1 > 3 THEN 0 ELSE 3 - 1 + 1
    BY <2>1, FS_Interval
  <2>3. IsFiniteSet(1 .. 3)
    BY <2>1, FS_Interval
  <2> QED BY <2>2, <2>3
<1>4. Cardinality(R) \in Nat /\ Cardinality(R) <= 3
  BY <1>2, <1>3, FS_Subset, FS_CardinalityType
<1> QED BY <1>1, <1>2, <1>4 DEF Burstinesses

\* What is assumed of the classifier's parameters, in its own words.
LEMMA ClassifierTyped ==
  ASSUME C!ClassifierAssumption
  PROVE  /\ Window \in Nat \ {0, 1} /\ Micro \in Nat \ {0} /\ Gaps \subseteq Int
         /\ Sizes \subseteq Nat \ {0} /\ CountCap \in Nat
         /\ CountCap > VideoAfter /\ CountCap > Window
BY DEF C!ClassifierAssumption

\* An interval is a number of microseconds, never the mark of a first packet.
LEMMA IntervalTyped ==
  ASSUME C!ClassifierAssumption, NEW gap \in Gaps
  PROVE  C!InterArrival(gap) \in Nat /\ C!InterArrival(gap) # C!None /\ C!None \in Int
<1>1. gap \in Int /\ Micro \in Nat \ {0}
  BY ClassifierTyped
<1>2. C!InterArrival(gap) \in Nat
  BY <1>1 DEF C!InterArrival
<1> QED BY <1>2 DEF C!None

\* The fields of an entry after a further packet.
LEMMA NextEntry ==
  ASSUME Entry(stats), NEW gap, NEW size, C!TrackNext(gap, size)
  PROVE  /\ Entry(stats')
         /\ stats.packet_count > 0
         /\ stats'.packet_count =
              IF stats.packet_count < CountCap THEN stats.packet_count + 1 ELSE stats.packet_count
         /\ stats'.iats = C!Slide(stats.iats, C!InterArrival(gap))
         /\ stats'.sizes = C!Slide(stats.sizes, size)
         /\ stats'.burst = IF C!HasRatio(stats'.iats) THEN C!BurstinessOf(stats'.iats) ELSE stats.burst
         /\ stats'.mean = [sum |-> C!Total(stats'.sizes), of |-> Len(stats'.sizes)]
<1> DEFINE a == IF stats.packet_count < CountCap THEN stats.packet_count + 1 ELSE stats.packet_count
           b == C!Slide(stats.iats, C!InterArrival(gap))
           c == C!Slide(stats.sizes, size)
           d == IF C!HasRatio(b) THEN C!BurstinessOf(b) ELSE stats.burst
           e == [sum |-> C!Total(c), of |-> Len(c)]
           tracked == [packet_count |-> a, iats |-> b, sizes |-> c, burst |-> stats.burst,
                       mean |-> stats.mean, predicted |-> stats.predicted]
<1>1. [stats EXCEPT !.packet_count = IF @ < CountCap THEN @ + 1 ELSE @,
                    !.iats = C!Slide(@, C!InterArrival(gap)),
                    !.sizes = C!Slide(@, size)] = tracked
  <2> DEFINE counted == [packet_count |-> a, iats |-> stats.iats, sizes |-> stats.sizes,
                         burst |-> stats.burst, mean |-> stats.mean,
                         predicted |-> stats.predicted]
             timed == [packet_count |-> a, iats |-> b, sizes |-> stats.sizes,
                       burst |-> stats.burst, mean |-> stats.mean,
                       predicted |-> stats.predicted]
  <2>1. [stats EXCEPT !.packet_count = a] = counted
    <3> HIDE DEF a, b, c
    <3> QED BY DEF Entry
  <2>2. [counted EXCEPT !.iats = b] = timed
    <3> HIDE DEF a, b, c
    <3> QED OBVIOUS
  <2>3. [timed EXCEPT !.sizes = c] = tracked
    <3> HIDE DEF a, b, c
    <3> QED OBVIOUS
  <2>4. [stats EXCEPT !.packet_count = a, !.iats = b, !.sizes = c] = tracked
    <3> HIDE DEF a, b, c, counted, timed, tracked
    <3> QED BY <2>1, <2>2, <2>3, Zenon
  <2> QED BY <2>4, Zenon
<1>2. C!ComputeFeatures(tracked) =
        [packet_count |-> a, iats |-> b, sizes |-> c, burst |-> d, mean |-> e,
         predicted |-> stats.predicted]
  <2>1. tracked.iats = b /\ tracked.sizes = c /\ tracked.burst = stats.burst
    OBVIOUS
  <2>2. C!ComputeFeatures(tracked) = [tracked EXCEPT !.burst = d, !.mean = e]
    <3> HIDE DEF tracked, a
    <3> QED BY <2>1, Zenon DEF C!ComputeFeatures
  <2> DEFINE bursty == [packet_count |-> a, iats |-> b, sizes |-> c, burst |-> d,
                        mean |-> stats.mean, predicted |-> stats.predicted]
             computed == [packet_count |-> a, iats |-> b, sizes |-> c, burst |-> d,
                          mean |-> e, predicted |-> stats.predicted]
  <2> HIDE DEF a, b, c, d, e
  <2>3. [tracked EXCEPT !.burst = d] = bursty
    OBVIOUS
  <2>4. [bursty EXCEPT !.mean = e] = computed
    OBVIOUS
  <2>5. [tracked EXCEPT !.burst = d, !.mean = e] = computed
    <3> HIDE DEF tracked, bursty, computed
    <3> QED BY <2>3, <2>4, Zenon
  <2> QED BY <2>2, <2>5, Zenon
<1>3. stats' = C!ComputeFeatures(tracked) /\ stats.packet_count > 0
  BY <1>1 DEF C!TrackNext
<1>4. stats' = [packet_count |-> a, iats |-> b, sizes |-> c, burst |-> d, mean |-> e,
                predicted |-> stats.predicted]
  BY <1>2, <1>3
<1> HIDE DEF a, b, c, d, e
<1>5. /\ Entry(stats') /\ stats'.packet_count = a /\ stats'.iats = b
      /\ stats'.sizes = c /\ stats'.burst = d /\ stats'.mean = e
  BY <1>4 DEF Entry
<1>6. d = IF C!HasRatio(stats'.iats) THEN C!BurstinessOf(stats'.iats) ELSE stats.burst
  BY <1>5, Zenon DEF d
<1>7. e = [sum |-> C!Total(stats'.sizes), of |-> Len(stats'.sizes)]
  BY <1>5, Zenon DEF e
<1> QED BY <1>3, <1>5, <1>6, <1>7 DEF a, b, c

\* The windows slide together.
LEMMA WindowsStep ==
  ASSUME C!ClassifierAssumption, WindowsRight, NEW gap \in Gaps, NEW size \in Sizes,
         C!TrackNext(gap, size)
  PROVE  WindowsRight'
<1> DEFINE n == stats.packet_count
           m == stats'.packet_count
           iat == C!InterArrival(gap)
           p == [iat |-> iat, size |-> size]
<1>0. size \in Sizes
  OBVIOUS
<1>1. /\ Window \in Nat \ {0, 1} /\ CountCap \in Nat /\ CountCap > Window
      /\ iat \in Int /\ iat # C!None /\ p \in [iat : Int, size : Sizes]
  BY ClassifierTyped, IntervalTyped
<1>2. /\ Entry(stats') /\ n > 0 /\ m = IF n < CountCap THEN n + 1 ELSE n
      /\ stats'.iats = C!Slide(stats.iats, iat) /\ stats'.sizes = C!Slide(stats.sizes, size)
  BY NextEntry DEF WindowsRight
<1>3. /\ n \in 0 .. CountCap /\ Len(past) \in Nat
      /\ past \in Seq([iat : Int, size : Sizes])
      /\ stats.sizes \in Seq(Sizes) /\ Len(stats.sizes) = Len(past)
      /\ stats.iats \in Seq(Int) /\ Len(stats.iats) = Len(past) - Lag(n)
      /\ Len(past) = IF n < Window THEN n ELSE Window
  BY DEF WindowsRight
<1>4. past' = C!Slide(past, p)
  <2>1. past' = Append(IF Len(past) < Window THEN past ELSE Tail(past), p)
    BY DEF C!TrackNext, p, iat
  <2>2. Len(past) \in Nat /\ Len(past) <= Window /\ Window \in Nat \ {0}
    BY <1>1, <1>3
  <2>3. past \in Seq([iat : Int, size : Sizes])
    BY <1>3
  <2> HIDE DEF p
  <2> QED BY <2>1, <2>2, <2>3, PastSlides
<1>5. p.iat = iat /\ p.size = size
  OBVIOUS
<1> HIDE DEF n, m, iat, p
<1> DEFINE k == Len(past)
           j == Len(past')
<1>6. /\ past' \in Seq([iat : Int, size : Sizes])
      /\ j = IF k < Window THEN k + 1 ELSE Window
      /\ past'[j] = p
      /\ \A i \in 1 .. j - 1 : past'[i] = IF k < Window THEN past[i] ELSE past[i + 1]
  <2> DEFINE R == [iat : Int, size : Sizes]
             q == C!Slide(past, p)
  <2>1. past \in Seq(R) /\ p \in R /\ Len(past) <= Window /\ Window \in Nat \ {0}
    BY <1>1, <1>3
  <2> HIDE DEF R
  <2>2. /\ q \in Seq(R)
        /\ Len(q) = IF Len(past) < Window THEN Len(past) + 1 ELSE Window
        /\ q[Len(q)] = p
        /\ \A i \in 1 .. Len(q) - 1 : q[i] = IF Len(past) < Window THEN past[i] ELSE past[i + 1]
    BY <2>1, SlideWindow
  <2>3. past' = q
    BY <1>4
  <2> HIDE DEF q
  <2> QED BY <2>2, <2>3 DEF R
<1>7. /\ stats'.sizes \in Seq(Sizes) /\ Len(stats'.sizes) = j
      /\ stats'.sizes[j] = size
      /\ \A i \in 1 .. j - 1 :
           stats'.sizes[i] = IF k < Window THEN stats.sizes[i] ELSE stats.sizes[i + 1]
  <2>1. Len(stats.sizes) = k /\ Len(stats.sizes) <= Window
    BY <1>1, <1>3
  <2> DEFINE q == C!Slide(stats.sizes, size)
  <2>0. /\ C!Slide(stats.sizes, size) \in Seq(Sizes)
        /\ Len(C!Slide(stats.sizes, size)) = IF k < Window THEN k + 1 ELSE Window
        /\ C!Slide(stats.sizes, size)[Len(C!Slide(stats.sizes, size))] = size
        /\ \A i \in 1 .. Len(C!Slide(stats.sizes, size)) - 1 :
             C!Slide(stats.sizes, size)[i] = IF k < Window THEN stats.sizes[i] ELSE stats.sizes[i + 1]
    <3> DEFINE t == stats.sizes
    <3>1. t \in Seq(Sizes) /\ size \in Sizes /\ Len(t) <= Window /\ Window \in Nat \ {0}
      BY <1>0, <1>1, <1>3, <2>1
    <3> HIDE DEF q, t
    <3>2. /\ C!Slide(t, size) \in Seq(Sizes)
          /\ Len(C!Slide(t, size)) = IF Len(t) < Window THEN Len(t) + 1 ELSE Window
          /\ C!Slide(t, size)[Len(C!Slide(t, size))] = size
      BY <3>1, SlideWindow
    <3>3. \A i \in 1 .. Len(C!Slide(t, size)) - 1 :
             C!Slide(t, size)[i] = IF Len(t) < Window THEN t[i] ELSE t[i + 1]
      BY <3>1, SlideWindow
    <3> QED BY <2>1, <3>2, <3>3 DEF t
  <2>2. /\ q \in Seq(Sizes) /\ Len(q) = IF k < Window THEN k + 1 ELSE Window
        /\ q[Len(q)] = size
        /\ \A i \in 1 .. Len(q) - 1 :
             q[i] = IF k < Window THEN stats.sizes[i] ELSE stats.sizes[i + 1]
    BY <2>0 DEF q
  <2> HIDE DEF q
  <2> QED BY <1>2, <1>6, <2>2 DEF q
<1> DEFINE l == Len(stats.iats)
           h == Len(stats'.iats)
<1>8. /\ stats'.iats \in Seq(Int) /\ h = IF l < Window THEN l + 1 ELSE Window
      /\ stats'.iats[h] = iat
      /\ \A i \in 1 .. h - 1 :
           stats'.iats[i] = IF l < Window THEN stats.iats[i] ELSE stats.iats[i + 1]
  <2>1. Len(stats.iats) <= Window /\ Len(stats.iats) = l
    BY <1>1, <1>3 DEF Lag
  <2> DEFINE q == C!Slide(stats.iats, iat)
  <2>0. /\ C!Slide(stats.iats, iat) \in Seq(Int)
        /\ Len(C!Slide(stats.iats, iat)) = IF l < Window THEN l + 1 ELSE Window
        /\ C!Slide(stats.iats, iat)[Len(C!Slide(stats.iats, iat))] = iat
        /\ \A i \in 1 .. Len(C!Slide(stats.iats, iat)) - 1 :
             C!Slide(stats.iats, iat)[i] = IF l < Window THEN stats.iats[i] ELSE stats.iats[i + 1]
    <3> DEFINE t == stats.iats
               I == Int
    <3>1. t \in Seq(I) /\ iat \in I /\ Len(t) <= Window /\ Window \in Nat \ {0}
      BY <1>0, <1>1, <1>3, <2>1
    <3> HIDE DEF q, t, I
    <3>2. /\ C!Slide(t, iat) \in Seq(I)
          /\ Len(C!Slide(t, iat)) = IF Len(t) < Window THEN Len(t) + 1 ELSE Window
          /\ C!Slide(t, iat)[Len(C!Slide(t, iat))] = iat
      BY <3>1, SlideWindow
    <3>3. \A i \in 1 .. Len(C!Slide(t, iat)) - 1 :
             C!Slide(t, iat)[i] = IF Len(t) < Window THEN t[i] ELSE t[i + 1]
      BY <3>1, SlideWindow
    <3> QED BY <2>1, <3>2, <3>3 DEF t, I
  <2>2. /\ q \in Seq(Int) /\ Len(q) = IF l < Window THEN l + 1 ELSE Window
        /\ q[Len(q)] = iat
        /\ \A i \in 1 .. Len(q) - 1 :
             q[i] = IF l < Window THEN stats.iats[i] ELSE stats.iats[i + 1]
    BY <2>0 DEF q
  <2> HIDE DEF q
  <2> QED BY <1>2, <2>2 DEF q
<1>9. /\ \A i \in 1 .. k : stats.sizes[i] = past[i].size
      /\ \A i \in 1 .. k : past[i].iat = C!None <=> i = 1 /\ n <= Window
      /\ \A i \in 1 .. l : stats.iats[i] = past[i + Lag(n)].iat
  BY DEF WindowsRight, n
<1> HIDE DEF k, j, l, h
<1>10. /\ k \in Nat /\ k = (IF n < Window THEN n ELSE Window) /\ l = k - Lag(n)
       /\ n \in Nat /\ n > 0 /\ n <= CountCap /\ m \in 0 .. CountCap
       /\ j = IF m < Window THEN m ELSE Window
       /\ (m = n + 1 \/ (n > Window /\ m = n))
       /\ j \in Nat /\ j > 0
  <2>1. k \in Nat /\ k = (IF n < Window THEN n ELSE Window) /\ l = k - Lag(n) /\ n \in Nat
    BY <1>3 DEF k, l
  <2>2. n > 0 /\ n <= CountCap /\ m \in 0 .. CountCap /\ (m = n + 1 \/ (n > Window /\ m = n))
    <3>1. n \in 0 .. CountCap /\ n > 0 /\ m = IF n < CountCap THEN n + 1 ELSE n
      BY <1>2, <1>3
    <3>2. CountCap \in Nat /\ Window \in Nat /\ CountCap > Window
      BY <1>1
    <3> QED BY <3>1, <3>2
  <2>3. j = IF k < Window THEN k + 1 ELSE Window
    BY <1>6
  <2> QED BY <1>1, <2>1, <2>2, <2>3
<1>11. /\ Lag(n) = (IF n <= Window THEN 1 ELSE 0)
       /\ Lag(m) = (IF m <= Window THEN 1 ELSE 0)
  BY <1>1, <1>10 DEF Lag
<1>12. h = j - Lag(m) /\ h \in Nat
  BY <1>1, <1>6, <1>8, <1>10, <1>11
<1>13. ASSUME NEW i \in 1 .. j PROVE stats'.sizes[i] = past'[i].size
  <2>1. CASE i = j
    BY <1>5, <1>6, <1>7, <2>1
  <2>2. CASE i # j
    <3>1. i \in 1 .. j - 1 /\ i \in 1 .. k /\ (k = Window => i + 1 \in 1 .. k)
      BY <1>1, <1>6, <1>10, <2>2
    <3>2. CASE k < Window
      <4>1. stats'.sizes[i] = stats.sizes[i] /\ past'[i] = past[i]
        BY <1>6, <1>7, <3>1, <3>2
      <4>2. stats.sizes[i] = past[i].size
        BY <1>9, <3>1
      <4> QED BY <4>1, <4>2
    <3>3. CASE ~(k < Window)
      <4>1. stats'.sizes[i] = stats.sizes[i + 1] /\ past'[i] = past[i + 1]
        BY <1>6, <1>7, <3>1, <3>3
      <4>2. k = Window
        BY <1>1, <1>10, <3>3
      <4>3. stats.sizes[i + 1] = past[i + 1].size
        BY <1>9, <3>1, <4>2
      <4> QED BY <4>1, <4>3
    <3> QED BY <3>2, <3>3
  <2> QED BY <2>1, <2>2
<1>14. ASSUME NEW i \in 1 .. j PROVE past'[i].iat = C!None <=> i = 1 /\ m <= Window
  <2>1. CASE i = j
    BY <1>1, <1>5, <1>6, <1>10, <2>1
  <2>2. CASE i # j
    <3>1. i \in 1 .. j - 1 /\ i \in 1 .. k /\ (k = Window => i + 1 \in 1 .. k)
      BY <1>1, <1>6, <1>10, <2>2
    <3>2. CASE k < Window
      <4>1. past'[i] = past[i] /\ (past[i].iat = C!None <=> i = 1 /\ n <= Window)
        BY <1>6, <1>9, <3>1, <3>2
      <4>2. n <= Window /\ m <= Window
        BY <1>1, <1>10, <3>2
      <4> QED BY <4>1, <4>2
    <3>3. CASE ~(k < Window)
      <4>1. past'[i] = past[i + 1] /\ i + 1 \in 1 .. k /\ i + 1 # 1 /\ m > Window
        <5>1. k = Window /\ j = Window /\ m > Window
          BY <1>1, <1>10, <3>3
        <5>2. i + 1 \in 1 .. k /\ i + 1 # 1
          BY <3>1, <5>1
        <5>3. past'[i] = past[i + 1]
          BY <1>6, <3>1, <3>3
        <5> QED BY <5>1, <5>2, <5>3
      <4>2. past[i + 1].iat # C!None
        BY <1>9, <4>1
      <4>3. ~(m <= Window)
        BY <1>1, <1>10, <4>1
      <4> QED BY <4>1, <4>2, <4>3, Zenon
    <3> QED BY <3>2, <3>3
  <2> QED BY <2>1, <2>2
<1>15. ASSUME NEW i \in 1 .. h PROVE stats'.iats[i] = past'[i + Lag(m)].iat
  <2>1. CASE i = h
    <3>1. i + Lag(m) = j
      BY <1>10, <1>11, <1>12, <2>1
    <3> QED BY <1>5, <1>6, <1>8, <2>1, <3>1
  <2>2. CASE i # h
    <3>1. i \in 1 .. h - 1 /\ i + Lag(m) \in 1 .. j - 1
      BY <1>10, <1>11, <1>12, <2>2
    <3>2. CASE k < Window
      <4>1. /\ Lag(n) = 1 /\ Lag(m) = 1 /\ l < Window /\ i \in 1 .. l
            /\ past'[i + Lag(m)] = past[i + Lag(n)] /\ stats'.iats[i] = stats.iats[i]
        <5>1. n < Window /\ k = n /\ m = n + 1 /\ j = m
          BY <1>1, <1>10, <3>2
        <5>2. Lag(n) = 1 /\ Lag(m) = 1 /\ l = n - 1 /\ h = n
          BY <1>1, <1>10, <1>11, <1>12, <5>1
        <5>3. l < Window /\ i \in 1 .. l
          BY <1>1, <1>10, <3>1, <5>1, <5>2
        <5>4. past'[i + Lag(m)] = past[i + Lag(n)]
          BY <1>6, <3>1, <3>2, <5>2
        <5>5. stats'.iats[i] = stats.iats[i]
          BY <1>8, <3>1, <5>3
        <5> QED BY <5>2, <5>3, <5>4, <5>5
      <4> QED BY <1>9, <4>1
    <3>3. CASE k = Window /\ n = Window
      <4>1. /\ Lag(n) = 1 /\ Lag(m) = 0 /\ l < Window /\ i \in 1 .. l
            /\ past'[i + Lag(m)] = past[i + Lag(n)] /\ stats'.iats[i] = stats.iats[i]
        <5>1. m = n + 1 /\ j = Window /\ ~(k < Window)
          BY <1>1, <1>10, <3>3
        <5>2. Lag(n) = 1 /\ Lag(m) = 0 /\ l = Window - 1 /\ h = Window
          BY <1>1, <1>10, <1>11, <1>12, <3>3, <5>1
        <5>3. l < Window /\ i \in 1 .. l /\ i + 0 = i
          BY <1>1, <1>10, <3>1, <5>1, <5>2
        <5>4. past'[i + Lag(m)] = past[i + Lag(n)]
          BY <1>6, <3>1, <5>1, <5>2, <5>3
        <5>5. stats'.iats[i] = stats.iats[i]
          BY <1>8, <3>1, <5>3
        <5> QED BY <5>2, <5>3, <5>4, <5>5
      <4> QED BY <1>9, <4>1
    <3>4. CASE k = Window /\ n # Window
      <4>1. /\ Lag(n) = 0 /\ Lag(m) = 0 /\ l = Window /\ i + 1 \in 1 .. l
            /\ past'[i + Lag(m)] = past[i + 1] /\ stats'.iats[i] = stats.iats[i + 1]
        <5>1. n > Window /\ m > Window /\ j = Window /\ ~(k < Window)
          BY <1>1, <1>10, <3>4
        <5>2. Lag(n) = 0 /\ Lag(m) = 0 /\ l = Window /\ h = Window
          BY <1>1, <1>10, <1>11, <1>12, <3>4, <5>1
        <5>3. ~(l < Window) /\ i + 1 \in 1 .. l /\ i + 0 = i
          BY <1>1, <1>10, <3>1, <5>1, <5>2
        <5>4. past'[i + Lag(m)] = past[i + 1]
          BY <1>6, <3>1, <5>1, <5>2, <5>3
        <5>5. stats'.iats[i] = stats.iats[i + 1]
          BY <1>8, <3>1, <5>3
        <5> QED BY <5>2, <5>3, <5>4, <5>5
      <4>2. stats.iats[i + 1] = past[(i + 1) + Lag(n)].iat /\ (i + 1) + Lag(n) = i + 1
        BY <1>9, <4>1
      <4> QED BY <4>1, <4>2
    <3> QED BY <1>1, <1>10, <3>2, <3>3, <3>4
  <2> QED BY <2>1, <2>2
<1> QED BY <1>2, <1>6, <1>7, <1>8, <1>10, <1>12, <1>13, <1>14, <1>15
        DEF WindowsRight, m, j, h

\* The features follow the windows; two intervals are known from the third packet on.
LEMMA FeaturesStep ==
  ASSUME C!ClassifierAssumption, WindowsRight, WindowsRight', FeaturesRight,
         NEW gap \in Gaps, NEW size \in Sizes, C!TrackNext(gap, size)
  PROVE  FeaturesRight'
<1>1. /\ stats.packet_count > 0
      /\ stats'.packet_count =
           IF stats.packet_count < CountCap THEN stats.packet_count + 1 ELSE stats.packet_count
      /\ stats'.burst = IF C!HasRatio(stats'.iats) THEN C!BurstinessOf(stats'.iats) ELSE stats.burst
      /\ stats'.mean = [sum |-> C!Total(stats'.sizes), of |-> Len(stats'.sizes)]
  BY NextEntry DEF WindowsRight
<1>2. /\ stats.packet_count \in 0 .. CountCap /\ Window \in Nat \ {0, 1}
      /\ CountCap \in Nat /\ CountCap > Window
  BY ClassifierTyped DEF WindowsRight
<1>3. stats'.packet_count >= 2 /\ stats'.packet_count >= stats.packet_count
      /\ stats'.packet_count \in Nat
  BY <1>1, <1>2
<1>4. stats'.burst \in Burstiness(stats'.packet_count)
  <2>1. CASE C!HasRatio(stats'.iats)
    <3>1. stats'.packet_count >= 3
      <4>1. Len(stats'.iats) >= 2
        BY <2>1 DEF C!HasRatio
      <4>2. /\ Len(stats'.iats) = Len(past') - Lag(stats'.packet_count)
            /\ Len(past') = IF stats'.packet_count < Window THEN stats'.packet_count ELSE Window
        BY DEF WindowsRight
      <4> QED BY <1>2, <1>3, <4>1, <4>2 DEF Lag
    <3>2. stats'.burst \in Burstinesses
      BY <1>1, <2>1, RatiosTyped DEF C!BurstinessOf
    <3> QED BY <1>3, <3>1, <3>2 DEF Burstiness
  <2>2. CASE ~C!HasRatio(stats'.iats)
    <3>1. stats'.burst = stats.burst /\ stats.burst \in Burstiness(stats.packet_count)
      BY <1>1, <2>2 DEF FeaturesRight
    <3>2. 0 \in Burstinesses
      BY DEF Burstinesses, Ratios
    <3> QED BY <1>2, <1>3, <3>1, <3>2 DEF Burstiness
  <2> QED BY <2>1, <2>2
<1>5. C!HasRatio(stats'.iats) => stats'.burst = C!BurstinessOf(stats'.iats)
  BY <1>1
<1>6. stats'.packet_count < 2 => stats'.mean = [sum |-> 0, of |-> 1]
  BY <1>3
<1> QED BY <1>1, <1>4, <1>5, <1>6 DEF FeaturesRight

\* The first packet of a flow makes an entry without features.
LEMMA FirstStep ==
  ASSUME C!ClassifierAssumption, WindowsRight, FeaturesRight, NEW size \in Sizes,
         C!TrackFirst(size)
  PROVE  WindowsRight' /\ FeaturesRight'
<1>1. /\ stats.packet_count = 0 /\ past' = <<[iat |-> C!None, size |-> size]>>
      /\ stats' = [stats EXCEPT !.packet_count = 1, !.sizes = <<size>>]
  BY DEF C!TrackFirst
<1>2. /\ Window \in Nat \ {0, 1} /\ CountCap \in Nat /\ CountCap > Window
  BY ClassifierTyped
<1>3. /\ Entry(stats) /\ stats.iats \in Seq(Int) /\ Len(stats.iats) = 0
      /\ stats.burst = 0 /\ stats.mean = [sum |-> 0, of |-> 1]
  BY <1>1, <1>2 DEF WindowsRight, FeaturesRight, Lag, Burstiness
<1>4. stats' = [packet_count |-> 1, iats |-> stats.iats, sizes |-> <<size>>,
                burst |-> stats.burst, mean |-> stats.mean, predicted |-> stats.predicted]
  <2> DEFINE c == <<size>>
             counted == [packet_count |-> 1, iats |-> stats.iats, sizes |-> stats.sizes,
                         burst |-> stats.burst, mean |-> stats.mean,
                         predicted |-> stats.predicted]
             tracked == [packet_count |-> 1, iats |-> stats.iats, sizes |-> c,
                         burst |-> stats.burst, mean |-> stats.mean,
                         predicted |-> stats.predicted]
  <2> HIDE DEF c
  <2>1. [stats EXCEPT !.packet_count = 1] = counted
    BY <1>3 DEF Entry
  <2>2. [counted EXCEPT !.sizes = c] = tracked
    OBVIOUS
  <2>3. [stats EXCEPT !.packet_count = 1, !.sizes = c] = tracked
    <3> HIDE DEF counted, tracked
    <3> QED BY <2>1, <2>2, Zenon
  <2> QED BY <1>1, <2>3, Zenon DEF c
<1> DEFINE p == [iat |-> C!None, size |-> size]
<1>5. /\ p \in [iat : Int, size : Sizes] /\ p.iat = C!None /\ p.size = size
  BY DEF C!None
<1> HIDE DEF p
<1>6. /\ past' \in Seq([iat : Int, size : Sizes]) /\ Len(past') = 1 /\ past'[1] = p
  <2> DEFINE R == [iat : Int, size : Sizes]
  <2>1. past' = <<p>> /\ p \in R
    BY <1>1, <1>5 DEF p
  <2> HIDE DEF R
  <2>2. past' \in Seq(R) /\ Len(past') = 1 /\ past'[1] = p
    BY <2>1
  <2> QED BY <2>2 DEF R
<1>7. <<size>> \in Seq(Sizes) /\ Len(<<size>>) = 1 /\ <<size>>[1] = size
  OBVIOUS
<1>8. /\ Entry(stats') /\ stats'.packet_count = 1 /\ stats'.iats = stats.iats
      /\ stats'.sizes = <<size>> /\ stats'.burst = 0 /\ stats'.mean = [sum |-> 0, of |-> 1]
  BY <1>3, <1>4 DEF Entry
<1>9. WindowsRight'
  <2>1. Lag(1) = 1 /\ 1 .. 1 = {1}
    BY <1>2 DEF Lag
  <2>2. \A i \in 1 .. Len(past') : i = 1
    BY <1>6, <2>1
  <2>3. \A i \in 1 .. Len(past') : stats'.sizes[i] = past'[i].size
    BY <1>5, <1>6, <1>7, <1>8, <2>2
  <2>4. \A i \in 1 .. Len(past') :
          past'[i].iat = C!None <=> i = 1 /\ stats'.packet_count <= Window
    BY <1>2, <1>5, <1>6, <1>8, <2>2
  <2>5. \A i \in 1 .. Len(stats'.iats) : FALSE
    BY <1>3, <1>8
  <2>6. /\ stats'.packet_count \in 0 .. CountCap
        /\ Len(past') = IF stats'.packet_count < Window THEN stats'.packet_count ELSE Window
        /\ Len(stats'.iats) = Len(past') - Lag(stats'.packet_count)
    BY <1>2, <1>3, <1>6, <1>8, <2>1
  <2> QED BY <1>3, <1>6, <1>7, <1>8, <2>3, <2>4, <2>5, <2>6 DEF WindowsRight
<1>10. FeaturesRight'
  <2>1. ~C!HasRatio(stats'.iats)
    BY <1>3, <1>8 DEF C!HasRatio
  <2> QED BY <1>8, <2>1 DEF FeaturesRight, Burstiness
<1> QED BY <1>9, <1>10

\* classify_flow writes the prediction and nothing else.
LEMMA ClassifiedStep ==
  ASSUME WindowsRight, FeaturesRight, C!Classify
  PROVE  /\ WindowsRight' /\ FeaturesRight'
         /\ stats'.predicted =
              C!ClassifyFlow(flow, stats'.packet_count, stats'.mean, stats'.burst)
<1> DEFINE p == C!ClassifyFlow(flow, stats.packet_count, stats.mean, stats.burst)
<1>1. stats' = [stats EXCEPT !.predicted = p] /\ past' = past
  BY DEF C!Classify
<1> HIDE DEF p
<1>2. Entry(stats)
  BY DEF WindowsRight
<1>3. stats' = [packet_count |-> stats.packet_count, iats |-> stats.iats,
                sizes |-> stats.sizes, burst |-> stats.burst, mean |-> stats.mean,
                predicted |-> p]
  BY <1>1, <1>2 DEF Entry
<1>4. /\ Entry(stats') /\ stats'.packet_count = stats.packet_count
      /\ stats'.iats = stats.iats /\ stats'.sizes = stats.sizes
      /\ stats'.burst = stats.burst /\ stats'.mean = stats.mean /\ stats'.predicted = p
  BY <1>3 DEF Entry
<1>5. WindowsRight'
  BY <1>1, <1>4 DEF WindowsRight
<1>6. FeaturesRight'
  BY <1>4 DEF FeaturesRight
<1>7. stats'.predicted = C!ClassifyFlow(flow, stats'.packet_count, stats'.mean, stats'.burst)
  <2>1. p = C!ClassifyFlow(flow, stats'.packet_count, stats'.mean, stats'.burst)
    BY <1>4, Zenon DEF p
  <2> QED BY <1>4, <2>1
<1> QED BY <1>5, <1>6, <1>7

\* A new entry has empty windows.
LEMMA ClassifierInit == C!ClassifierAssumption /\ C!Init => ClassifierInv
<1> SUFFICES ASSUME C!ClassifierAssumption, C!Init PROVE ClassifierInv
  OBVIOUS
<1>1. stats = [packet_count |-> 0, iats |-> << >>, sizes |-> << >>, burst |-> 0,
               mean |-> [sum |-> 0, of |-> 1], predicted |-> C!BestEffort]
  BY DEF C!Init, C!NewStats
<1>2. /\ Entry(stats) /\ stats.packet_count = 0 /\ stats.iats = << >> /\ stats.sizes = << >>
      /\ stats.burst = 0 /\ stats.mean = [sum |-> 0, of |-> 1]
  BY <1>1 DEF Entry
<1>3. past = << >> /\ flow \in Headers /\ step = "track"
  BY DEF C!Init
<1>4. /\ Window \in Nat \ {0, 1} /\ CountCap \in Nat /\ Lag(0) = 0
  BY ClassifierTyped DEF Lag
<1>5. /\ << >> \in Seq([iat : Int, size : Sizes]) /\ << >> \in Seq(Sizes)
      /\ << >> \in Seq(Int) /\ Len(<< >>) = 0 /\ 1 .. 0 = {}
  OBVIOUS
<1>6. WindowsRight
  BY <1>2, <1>3, <1>4, <1>5 DEF WindowsRight
<1>7. FeaturesRight
  BY <1>2 DEF FeaturesRight, Burstiness, C!HasRatio
<1> QED BY <1>2, <1>3, <1>6, <1>7 DEF ClassifierInv

\* The entry follows the packets of the flow through tracking and classifying.
LEMMA ClassifierStep ==
  C!ClassifierAssumption /\ ClassifierInv /\ [C!Next]_(C!vars) => ClassifierInv'
<1> SUFFICES ASSUME C!ClassifierAssumption, ClassifierInv, [C!Next]_(C!vars)
             PROVE  ClassifierInv'
  OBVIOUS
<1>1. CASE C!Classify
  <2>1. step' = "track" /\ flow' = flow
    BY <1>1 DEF C!Classify
  <2>2. /\ WindowsRight' /\ FeaturesRight'
        /\ stats'.predicted =
             C!ClassifyFlow(flow, stats'.packet_count, stats'.mean, stats'.burst)
    BY <1>1, ClassifiedStep DEF ClassifierInv
  <2> QED BY <2>1, <2>2 DEF ClassifierInv
<1>2. ASSUME NEW gap \in Gaps, NEW size \in Sizes, C!TrackAndUpdate(gap, size)
      PROVE  ClassifierInv'
  <2>1. step' = "classify" /\ flow' = flow
    BY <1>2 DEF C!TrackAndUpdate
  <2>2. WindowsRight' /\ FeaturesRight'
    <3>1. CASE C!TrackFirst(size)
      BY <3>1, FirstStep DEF ClassifierInv
    <3>2. CASE C!TrackNext(gap, size)
      <4>1. WindowsRight'
        BY <3>2, WindowsStep DEF ClassifierInv
      <4>2. FeaturesRight'
        BY <3>2, <4>1, FeaturesStep DEF ClassifierInv
      <4> QED BY <4>1, <4>2
    <3> QED BY <1>2, <3>1, <3>2 DEF C!TrackAndUpdate
  <2> QED BY <2>1, <2>2 DEF ClassifierInv
<1>3. CASE UNCHANGED C!vars
  <2>1. UNCHANGED <<flow, step, stats, past>>
    BY <1>3 DEF C!vars
  <2> QED BY <2>1 DEF ClassifierInv, WindowsRight, FeaturesRight
<1> QED BY <1>1, <1>2, <1>3 DEF C!Next

\* The windows the program keeps are those of the last packets.
LEMMA WindowsRecent ==
  ASSUME C!ClassifierAssumption, WindowsRight
  PROVE  stats.sizes = C!RecentSizes /\ stats.iats = C!RecentIats
<1> DEFINE n == stats.packet_count
           timed == IF past # << >> /\ Head(past).iat = C!None THEN Tail(past) ELSE past
<1>0. /\ Window \in Nat \ {0, 1} /\ CountCap \in Nat
  BY ClassifierTyped
<1>1. /\ past \in Seq([iat : Int, size : Sizes]) /\ n \in Nat
      /\ Len(past) = IF n < Window THEN n ELSE Window
      /\ stats.sizes \in Seq(Sizes) /\ Len(stats.sizes) = Len(past)
      /\ \A i \in 1 .. Len(past) : stats.sizes[i] = past[i].size
      /\ \A i \in 1 .. Len(past) : past[i].iat = C!None <=> i = 1 /\ n <= Window
      /\ stats.iats \in Seq(Int) /\ Len(stats.iats) = Len(past) - Lag(n)
      /\ \A i \in 1 .. Len(stats.iats) : stats.iats[i] = past[i + Lag(n)].iat
  BY <1>0 DEF WindowsRight
<1> HIDE DEF n
<1>2. DOMAIN past = 1 .. Len(past) /\ Len(past) \in Nat
  BY <1>1
<1>3. stats.sizes = C!RecentSizes
  <2>1. C!RecentSizes = [i \in 1 .. Len(past) |-> past[i].size]
    BY <1>2 DEF C!RecentSizes
  <2>2. stats.sizes = [i \in 1 .. Len(past) |-> stats.sizes[i]]
    BY <1>1
  <2> QED BY <1>1, <2>1, <2>2
<1>4. /\ timed \in Seq([iat : Int, size : Sizes]) /\ Len(timed) = Len(stats.iats)
      /\ \A i \in 1 .. Len(timed) : timed[i] = past[i + Lag(n)]
  <2> DEFINE R == [iat : Int, size : Sizes]
  <2>1. past \in Seq(R)
    BY <1>1
  <2> HIDE DEF R
  <2>2. CASE n \in 1 .. Window
    <3>1. Len(past) >= 1 /\ Lag(n) = 1
      BY <1>0, <1>1, <2>2 DEF Lag
    <3>2. past # << >> /\ Head(past) = past[1] /\ 1 \in 1 .. Len(past)
      BY <2>1, <3>1
    <3>3. past[1].iat = C!None
      BY <1>0, <1>1, <2>2, <3>2
    <3>4. timed = Tail(past)
      BY <3>2, <3>3
    <3> HIDE DEF timed
    <3>5. /\ timed \in Seq(R) /\ Len(timed) = Len(past) - 1
          /\ \A i \in 1 .. Len(timed) : timed[i] = past[i + 1]
      BY <2>1, <3>2, <3>4
    <3> QED BY <1>1, <3>1, <3>5 DEF R
  <2>3. CASE n \notin 1 .. Window
    <3>1. Lag(n) = 0 /\ (n = 0 \/ n > Window)
      BY <1>0, <1>1, <2>3 DEF Lag
    <3>2. past # << >> => Head(past) = past[1] /\ 1 \in 1 .. Len(past) /\ n > Window
      BY <1>0, <1>1, <2>1, <3>1
    <3>3. past # << >> => Head(past).iat # C!None
      BY <1>0, <1>1, <3>2
    <3>4. timed = past
      BY <3>3
    <3> HIDE DEF timed
    <3>5. \A i \in 1 .. Len(past) : i + 0 = i
      BY <1>2
    <3> QED BY <1>1, <1>2, <2>1, <3>1, <3>4, <3>5 DEF R
  <2> QED BY <2>2, <2>3
<1>5. C!RecentIats = [i \in DOMAIN timed |-> timed[i].iat]
  BY DEF C!RecentIats
<1> HIDE DEF timed
<1>6. stats.iats = C!RecentIats
  <2> DEFINE m == Len(stats.iats)
  <2>1. DOMAIN timed = 1 .. m /\ stats.iats = [i \in 1 .. m |-> stats.iats[i]]
    BY <1>1, <1>4
  <2>2. \A i \in 1 .. m : stats.iats[i] = timed[i].iat
    BY <1>1, <1>4
  <2> HIDE DEF m
  <2> QED BY <1>5, <2>1, <2>2
<1> QED BY <1>3, <1>6

\* What the classifier predicts for a flow is what the features of its last packets
\* ask for, for any windows, packet sizes and times between packets.
THEOREM PredictionsRecent ==
  ASSUME C!ClassifierAssumption PROVE C!Spec => []C!PredictsRecent
<1>1. C!Init => ClassifierInv
  BY ClassifierInit
<1>2. ClassifierInv /\ [C!Next]_(C!vars) => ClassifierInv'
  BY ClassifierStep
<1>3. ClassifierInv => C!PredictsRecent
  <2> SUFFICES ASSUME ClassifierInv PROVE C!PredictsRecent
    OBVIOUS
  <2>1. stats.sizes = C!RecentSizes /\ stats.iats = C!RecentIats
    BY WindowsRecent DEF ClassifierInv
  <2>2. /\ step \in {"track", "classify"} /\ stats.packet_count \in 0 .. CountCap
        /\ stats.burst \in Burstiness(stats.packet_count)
        /\ Len(stats.sizes) = Len(past)
    BY DEF ClassifierInv, WindowsRight, FeaturesRight
  <2>3. C!Burstiness(stats.packet_count) = Burstiness(stats.packet_count)
    BY DEF C!Burstiness, Burstiness, C!Burstinesses, Burstinesses, C!Ratios, Ratios
  <2>4. ASSUME step = "track", C!HasRatio(stats.iats)
        PROVE  stats.predicted = C!ClassifyFlow(flow, stats.packet_count,
                                   [sum |-> C!Total(stats.sizes), of |-> Len(past)],
                                   C!BurstinessOf(stats.iats))
    <3>1. stats.packet_count >= 2
      <4>1. Len(stats.iats) >= 2
        BY <2>4 DEF C!HasRatio
      <4>2. /\ Len(stats.iats) = Len(past) - Lag(stats.packet_count) /\ Len(past) \in Nat
            /\ Len(past) = IF stats.packet_count < Window THEN stats.packet_count ELSE Window
            /\ Window \in Nat /\ stats.packet_count \in Nat
        BY <2>2, ClassifierTyped DEF ClassifierInv, WindowsRight
      <4> QED BY <4>1, <4>2 DEF Lag
    <3>2. /\ stats.mean = [sum |-> C!Total(stats.sizes), of |-> Len(stats.sizes)]
          /\ stats.burst = C!BurstinessOf(stats.iats)
      BY <2>4, <3>1 DEF ClassifierInv, FeaturesRight
    <3>3. stats.packet_count > 0
      BY <2>2, <3>1
    <3>4. stats.predicted =
            C!ClassifyFlow(flow, stats.packet_count, stats.mean, stats.burst)
      BY <2>4, <3>3 DEF ClassifierInv
    <3> QED BY <2>2, <3>2, <3>4
  <2> QED BY <2>1, <2>2, <2>3, <2>4, Zenon DEF C!PredictsRecent
<1> QED BY <1>1, <1>2, <1>3, PTL DEF C!Spec

\* The packets of the flow all have the size that DataPath gives those of a flow ...
OneSize ==
  [][\A gap \in Gaps, size \in Sizes :
       C!TrackAndUpdate(gap, size) => size = flow.size]_(C!vars)

\* ... and the classifier does what the step Classify of DataPath says: it counts the
\* packet, and its answer is one of those left open there.
AsComposed ==
  /\ \A gap \in Gaps, size \in Sizes :
       C!TrackAndUpdate(gap, size) => stats'.packet_count = Tracked(stats.packet_count)
  /\ C!Classify =>
       LET n == stats.packet_count
       IN  n > 0 => \E burst \in Burstiness(n) :
                      stats'.predicted = ClassifyFlow(flow, n, MeanSize(flow, n), burst)

\* The total of equal numbers.
LEMMA TotalOfEqual ==
  ASSUME NEW x \in Int, NEW s \in Seq(Int), \A i \in 1 .. Len(s) : s[i] = x
  PROVE  C!Total(s) = Len(s) * x
<1> DEFINE l == Len(s)
           Sums(g) == g = [i \in 0 .. l |-> IF i = 0 THEN 0 ELSE g[i - 1] + s[i]]
           upto == CHOOSE g : Sums(g)
<1>0. l \in Nat
  OBVIOUS
<1>1. C!Total(s) = upto[l]
  BY DEF C!Total
<1>2. Sums([i \in 0 .. l |-> i * x])
  <2> DEFINE g == [i \in 0 .. l |-> i * x]
  <2>1. ASSUME NEW i \in 0 .. l
        PROVE  i * x = IF i = 0 THEN 0 ELSE g[i - 1] + s[i]
    <3>1. CASE i = 0
      BY <3>1
    <3>2. CASE i # 0
      <4>1. i - 1 \in 0 .. l /\ i \in 1 .. l
        BY <1>0, <3>2
      <4>2. g[i - 1] = (i - 1) * x /\ s[i] = x
        BY <4>1
      <4>3. (i - 1) * x + x = i * x
        OBVIOUS
      <4> HIDE DEF g
      <4> QED BY <3>2, <4>2, <4>3
    <3> QED BY <3>1, <3>2
  <2> QED BY <2>1
<1>3. Sums(upto)
  <2> HIDE DEF Sums
  <2> QED BY <1>2
<1> HIDE DEF upto
<1> DEFINE S == {n \in Nat : n <= l => upto[n] = n * x}
<1>4. 0 \in S
  BY <1>0, <1>3
<1>5. ASSUME NEW n \in Nat, n \in S PROVE n + 1 \in S
  <2> SUFFICES ASSUME n + 1 <= l PROVE upto[n + 1] = (n + 1) * x
    OBVIOUS
  <2>1. upto[n] = n * x
    BY <1>0, <1>5
  <2>2. n + 1 \in 0 .. l /\ n + 1 # 0 /\ (n + 1) - 1 = n /\ n + 1 \in 1 .. l
    BY <1>0
  <2>3. upto[n + 1] = upto[n] + s[n + 1]
    BY <1>3, <2>2
  <2>4. s[n + 1] = x
    BY <2>2
  <2>5. n * x + x = (n + 1) * x
    OBVIOUS
  <2> QED BY <2>1, <2>3, <2>4, <2>5
<1> HIDE DEF S
<1>6. l \in S
  BY <1>0, <1>4, <1>5, NatSetInduction
<1> QED BY <1>1, <1>6 DEF S

\* A sequence over a set is one over a larger set.
LEMMA WiderSeq ==
  ASSUME NEW S, NEW T, S \subseteq T, NEW s \in Seq(S) PROVE s \in Seq(T)
<1>1. Len(s) \in Nat /\ DOMAIN s = 1 .. Len(s) /\ s = [i \in 1 .. Len(s) |-> s[i]]
  OBVIOUS
<1>2. \A i \in 1 .. Len(s) : s[i] \in S
  OBVIOUS
<1> QED BY <1>1, <1>2

\* The classes do not tell the mean of equal sizes from one of them.
LEMMA SameMean ==
  ASSUME NEW h, NEW n, NEW burst, NEW l \in Nat \ {0}, NEW x \in Nat
  PROVE  C!ClassifyFlow(h, n, [sum |-> l * x, of |-> l], burst)
           = ClassifyFlow(h, n, [sum |-> x, of |-> 1], burst)
<1>0. Small \in Nat /\ Large \in Nat /\ Mtu \in Nat
  BY DataPathAssumption
<1>1. ASSUME NEW c \in Nat
      PROVE  /\ l * x < c * l <=> x < c * 1
             /\ l * x > c * l <=> x > c * 1
             /\ l * x >= c * l <=> x >= c * 1
  <2>1. c * l = l * c /\ c * 1 = c
    OBVIOUS
  <2>2. x < c => l * x < l * c
    <3> SUFFICES ASSUME x < c PROVE l * x < l * c
      OBVIOUS
    <3>1. c = x + (c - x) /\ c - x >= 1 /\ l * c = l * x + l * (c - x)
      OBVIOUS
    <3>2. l * (c - x) >= l /\ l * (c - x) \in Int
      BY <3>1
    <3> QED BY <3>1, <3>2
  <2>3. x > c => l * x > l * c
    <3> SUFFICES ASSUME x > c PROVE l * x > l * c
      OBVIOUS
    <3>1. x - c >= 1 /\ l * x = l * c + l * (x - c)
      OBVIOUS
    <3>2. l * (x - c) >= l /\ l * (x - c) \in Int
      BY <3>1
    <3> QED BY <3>1, <3>2
  <2>4. x = c => l * x = l * c
    OBVIOUS
  <2>5. l * x \in Int /\ l * c \in Int
    OBVIOUS
  <2> DEFINE a == l * x
             b == l * c
  <2> HIDE DEF a, b
  <2>6. /\ a < b <=> x < c
        /\ a > b <=> x > c
        /\ a >= b <=> x >= c
    BY <2>2, <2>3, <2>4, <2>5 DEF a, b
  <2> QED BY <2>1, <2>6 DEF a, b
<1>2. /\ l * x < Small * l <=> x < Small * 1
      /\ l * x > Large * l <=> x > Large * 1
      /\ l * x >= Mtu * l <=> x >= Mtu * 1
  BY <1>0, <1>1
<1> DEFINE p == l * x
<1>3. /\ p < Small * l <=> x < Small * 1
      /\ p > Large * l <=> x > Large * 1
      /\ p >= Mtu * l <=> x >= Mtu * 1
  BY <1>2
<1> HIDE DEF p
<1>4. C!ClassifyFlow(h, n, [sum |-> p, of |-> l], burst)
        = ClassifyFlow(h, n, [sum |-> x, of |-> 1], burst)
  BY <1>3 DEF C!ClassifyFlow, ClassifyFlow, C!ControlTraffic, ControlTraffic,
              C!Voice, C!Gaming, C!Video, C!Bulk, C!BestEffort,
              Voice, Gaming, Video, Bulk, BestEffort
<1> QED BY <1>4 DEF p

\* What DataPath leaves open of the classifier, FlowClassifier decides within.
THEOREM ClassifierFits ==
  ASSUME C!ClassifierAssumption PROVE C!Spec /\ OneSize => [][AsComposed]_(C!vars)
<1> DEFINE SameSize == \A i \in 1 .. Len(past) : past[i].size = flow.size
           OneSizeStep == \A gap \in Gaps, size \in Sizes :
                            C!TrackAndUpdate(gap, size) => size = flow.size
<1>1. C!Init => ClassifierInv
  BY ClassifierInit
<1>2. ClassifierInv /\ [C!Next]_(C!vars) => ClassifierInv'
  BY ClassifierStep
<1>3. C!Init => SameSize
  BY DEF C!Init
<1>4. ClassifierInv /\ SameSize /\ [C!Next]_(C!vars) /\ [OneSizeStep]_(C!vars) => SameSize'
  <2> SUFFICES ASSUME ClassifierInv, SameSize, [C!Next]_(C!vars), [OneSizeStep]_(C!vars)
               PROVE  SameSize'
    OBVIOUS
  <2>1. CASE UNCHANGED <<past, flow>>
    BY <2>1
  <2>2. ASSUME NEW gap \in Gaps, NEW size \in Sizes, C!TrackAndUpdate(gap, size)
        PROVE  SameSize'
    <3>1. flow' = flow /\ step # step'
      BY <2>2 DEF C!TrackAndUpdate
    <3>2. size = flow.size
      BY <2>2, <3>1 DEF C!vars
    <3> HIDE DEF OneSizeStep
    <3>3. CASE C!TrackFirst(size)
      <4>1. past' = <<[iat |-> C!None, size |-> size]>>
        BY <3>3 DEF C!TrackFirst
      <4> QED BY <3>1, <3>2, <4>1
    <3>4. CASE C!TrackNext(gap, size)
      <4> DEFINE p == [iat |-> C!InterArrival(gap), size |-> size]
                 R == [iat : Int, size : Sizes]
      <4>1. /\ Window \in Nat \ {0} /\ past \in Seq(R) /\ Len(past) \in Nat
            /\ Len(past) <= Window
        BY ClassifierTyped DEF ClassifierInv, WindowsRight
      <4>2. p \in R /\ p.size = size
        BY IntervalTyped
      <4>3. past' = C!Slide(past, p)
        <5>1. past' = Append(IF Len(past) < Window THEN past ELSE Tail(past), p)
          BY <3>4 DEF C!TrackNext
        <5> HIDE DEF p
        <5> QED BY <4>1, <5>1, PastSlides
      <4> HIDE DEF p, R
      <4> DEFINE q == C!Slide(past, p)
      <4>4. /\ q \in Seq(R)
            /\ Len(q) = IF Len(past) < Window THEN Len(past) + 1 ELSE Window
            /\ q[Len(q)] = p
            /\ \A i \in 1 .. Len(q) - 1 :
                 q[i] = IF Len(past) < Window THEN past[i] ELSE past[i + 1]
        BY <4>1, <4>2, SlideWindow
      <4> HIDE DEF q
      <4>5. ASSUME NEW i \in 1 .. Len(q) PROVE q[i].size = flow.size
        <5>1. CASE i = Len(q)
          BY <3>2, <4>2, <4>4, <5>1
        <5>2. CASE i # Len(q)
          <6>1. i \in 1 .. Len(q) - 1 /\ (Len(past) < Window => i \in 1 .. Len(past))
                /\ (~(Len(past) < Window) => i + 1 \in 1 .. Len(past))
            BY <4>1, <4>4, <5>2
          <6> QED BY <4>4, <6>1
        <5> QED BY <5>1, <5>2
      <4> QED BY <3>1, <4>3, <4>5 DEF q
    <3> QED BY <2>2, <3>3, <3>4 DEF C!TrackAndUpdate
  <2>3. C!Classify => UNCHANGED <<past, flow>>
    BY DEF C!Classify
  <2>4. UNCHANGED C!vars => UNCHANGED <<past, flow>>
    BY DEF C!vars
  <2> QED BY <2>1, <2>2, <2>3, <2>4 DEF C!Next
<1>5. ClassifierInv /\ SameSize /\ [C!Next]_(C!vars) => [AsComposed]_(C!vars)
  <2> SUFFICES ASSUME ClassifierInv, SameSize PROVE AsComposed
    OBVIOUS
  <2>1. ASSUME NEW gap \in Gaps, NEW size \in Sizes, C!TrackAndUpdate(gap, size)
        PROVE  stats'.packet_count = Tracked(stats.packet_count)
    <3>1. Entry(stats) /\ CountCap \in Nat /\ CountCap > Window /\ Window \in Nat \ {0}
      BY ClassifierTyped DEF ClassifierInv, WindowsRight
    <3>2. CASE C!TrackFirst(size)
      <4>1. stats.packet_count = 0 /\ stats'.packet_count = 1
        BY <3>1, <3>2 DEF C!TrackFirst, Entry
      <4> QED BY <3>1, <4>1 DEF Tracked, Saturated
    <3>3. CASE C!TrackNext(gap, size)
      BY <3>1, <3>3, NextEntry DEF Tracked, Saturated
    <3> QED BY <2>1, <3>2, <3>3 DEF C!TrackAndUpdate
  <2>2. ASSUME C!Classify, stats.packet_count > 0
        PROVE  \E burst \in Burstiness(stats.packet_count) :
                 stats'.predicted = ClassifyFlow(flow, stats.packet_count,
                                      MeanSize(flow, stats.packet_count), burst)
    <3> DEFINE n == stats.packet_count
               b == stats.burst
               l == Len(stats.sizes)
               x == flow.size
    <3>1. b \in Burstiness(n) /\ n \in Nat
      BY DEF ClassifierInv, FeaturesRight, WindowsRight
    <3>2. stats'.predicted = C!ClassifyFlow(flow, n, stats.mean, b)
      <4>1. stats'.predicted = C!ClassifyFlow(flow, stats'.packet_count, stats'.mean, stats'.burst)
        BY <2>2, ClassifiedStep DEF ClassifierInv
      <4>2. /\ stats'.packet_count = n /\ stats'.mean = stats.mean /\ stats'.burst = b
        BY <2>2 DEF C!Classify, ClassifierInv, WindowsRight, Entry
      <4> QED BY <4>1, <4>2
    <3>3. CASE n = 1
      <4>1. stats.mean = [sum |-> 1 * 0, of |-> 1] /\ MeanSize(flow, n) = [sum |-> 0, of |-> 1]
        BY <3>3 DEF ClassifierInv, FeaturesRight, MeanSize
      <4>2. C!ClassifyFlow(flow, n, [sum |-> 1 * 0, of |-> 1], b)
              = ClassifyFlow(flow, n, [sum |-> 0, of |-> 1], b)
        <5> HIDE DEF n, b
        <5> DEFINE one == 1
                   zero == 0
        <5>1. one \in Nat \ {0} /\ zero \in Nat /\ 1 * 0 = 0
          OBVIOUS
        <5>2. one * zero = 1 * 0 /\ one = 1 /\ zero = 0
          OBVIOUS
        <5> HIDE DEF one, zero
        <5>3. C!ClassifyFlow(flow, n, [sum |-> one * zero, of |-> one], b)
                = ClassifyFlow(flow, n, [sum |-> zero, of |-> 1], b)
          BY <5>1, SameMean
        <5> QED BY <5>2, <5>3, Zenon
      <4> HIDE DEF n, b
      <4> QED BY <3>1, <3>2, <4>1, <4>2 DEF n
    <3>4. CASE n # 1
      <4>1. /\ n >= 2 /\ l = Len(past) /\ l \in Nat \ {0}
            /\ stats.sizes \in Seq(Sizes)
            /\ \A i \in 1 .. l : stats.sizes[i] = past[i].size
        BY <2>2, <3>1, <3>4, ClassifierTyped DEF ClassifierInv, WindowsRight
      <4>2. \A i \in 1 .. l : stats.sizes[i] = x
        BY <4>1
      <4>3. stats.sizes[1] \in Sizes /\ Sizes \subseteq Nat
        <5>1. 1 \in 1 .. l
          BY <4>1
        <5>2. stats.sizes \in Seq(Sizes) /\ Len(stats.sizes) = l
          BY <4>1
        <5>3. stats.sizes[1] \in Sizes
          BY <5>1, <5>2
        <5> QED BY <5>3, ClassifierTyped
      <4>4. x \in Nat /\ stats.sizes \in Seq(Int)
        <5>1. 1 \in 1 .. l
          BY <4>1
        <5>2. stats.sizes[1] = x
          BY <4>2, <5>1
        <5>3. x \in Nat
          BY <4>3, <5>2
        <5> DEFINE t == stats.sizes
                   I == Int
        <5>4. t \in Seq(Sizes) /\ Sizes \subseteq I
          BY <4>1, <4>3
        <5> HIDE DEF t, I
        <5>5. t \in Seq(I)
          BY <5>4, WiderSeq
        <5>6. t \in Seq(Int)
          BY <5>5 DEF I
        <5> QED BY <5>3, <5>6 DEF t
      <4>5. C!Total(stats.sizes) = l * x
        <5> DEFINE t == stats.sizes
        <5>1. t \in Seq(Int) /\ x \in Int /\ Len(t) = l
          BY <4>4
        <5>2. \A i \in 1 .. Len(t) : t[i] = x
          BY <4>2
        <5> HIDE DEF t, x
        <5>3. C!Total(t) = Len(t) * x
          BY <5>1, <5>2, TotalOfEqual
        <5> QED BY <5>1, <5>3 DEF t
      <4>6. stats.mean = [sum |-> l * x, of |-> l]
        BY <4>1, <4>5 DEF ClassifierInv, FeaturesRight
      <4>7. MeanSize(flow, n) = [sum |-> x, of |-> 1]
        BY <3>4 DEF MeanSize
      <4> HIDE DEF n, b, l, x
      <4>8. C!ClassifyFlow(flow, n, [sum |-> l * x, of |-> l], b)
              = ClassifyFlow(flow, n, [sum |-> x, of |-> 1], b)
        <5>1. l \in Nat \ {0} /\ x \in Nat
          BY <4>1, <4>4
        <5> QED BY <5>1, SameMean
      <4> QED BY <3>1, <3>2, <4>6, <4>7, <4>8 DEF n
    <3> QED BY <3>3, <3>4
  <2> QED BY <2>1, <2>2 DEF AsComposed
<1> QED BY <1>1, <1>2, <1>3, <1>4, <1>5, PTL DEF C!Spec, OneSize

-----------------------------------------------------------------------------
(* One's complement arithmetic. *)

\* Full turns of an addition that carries around.
Turn == WordBase - 1

\* What it does not tell apart, zero aside.
Congruent(a, b) == \E k \in Int : a = b + k * Turn

\* The sizes of words and bytes.
LEMMA WordSizes ==
  /\ ByteBase \in Nat /\ ByteBase >= 2
  /\ WordBase \in Nat /\ WordBase >= 2 * ByteBase /\ WordBase >= 4
  /\ Turn \in Nat /\ Turn >= 3 /\ WordBase = Turn + 1
  /\ Word = 0 .. Turn
<1>1. ByteBase \in Nat /\ ByteBase >= 2
  BY ChecksumAssumption
<1>2. WordBase \in Nat /\ WordBase >= 2 * ByteBase
  BY <1>1 DEF WordBase
<1> QED BY <1>1, <1>2 DEF Turn, Word

\* Congruence relates every number to itself,
LEMMA CongruentRefl ==
  ASSUME NEW a \in Int PROVE Congruent(a, a)
<1>1. Turn \in Int /\ 0 * Turn = 0
  BY WordSizes
<1>2. a = a + 0 * Turn
  BY <1>1
<1> QED BY <1>2 DEF Congruent

\* is kept by sums and differences,
LEMMA CongruentAdd ==
  ASSUME NEW a \in Int, NEW b \in Int, NEW c \in Int, NEW d \in Int,
         Congruent(a, b), Congruent(c, d)
  PROVE  Congruent(a + c, b + d) /\ Congruent(a - c, b - d)
<1>1. PICK k \in Int : a = b + k * Turn
  BY DEF Congruent
<1>2. PICK l \in Int : c = d + l * Turn
  BY DEF Congruent
<1>3. Turn \in Int
  BY WordSizes
<1> HIDE DEF Turn
<1>4. /\ (k + l) * Turn = k * Turn + l * Turn
      /\ (k - l) * Turn = k * Turn - l * Turn
      /\ k * Turn \in Int /\ l * Turn \in Int
  BY <1>3
<1>5. a + c = (b + d) + (k + l) * Turn /\ a - c = (b - d) + (k - l) * Turn
  BY <1>1, <1>2, <1>4
<1>6. k + l \in Int /\ k - l \in Int
  OBVIOUS
<1> QED BY <1>5, <1>6 DEF Congruent

\* goes both ways
LEMMA CongruentSym ==
  ASSUME NEW a \in Int, NEW b \in Int, Congruent(a, b) PROVE Congruent(b, a)
<1>1. PICK k \in Int : a = b + k * Turn
  BY DEF Congruent
<1>2. Turn \in Int
  BY WordSizes
<1> HIDE DEF Turn
<1>3. (-k) * Turn = -(k * Turn) /\ k * Turn \in Int
  BY <1>2
<1>4. b = a + (-k) * Turn
  BY <1>1, <1>3
<1> QED BY <1>4 DEF Congruent

\* and reaches further.
LEMMA CongruentTrans ==
  ASSUME NEW a \in Int, NEW b \in Int, NEW c \in Int, Congruent(a, b), Congruent(b, c)
  PROVE  Congruent(a, c)
<1>1. PICK k \in Int : a = b + k * Turn
  BY DEF Congruent
<1>2. PICK l \in Int : b = c + l * Turn
  BY DEF Congruent
<1>3. Turn \in Int
  BY WordSizes
<1> HIDE DEF Turn
<1>4. (k + l) * Turn = k * Turn + l * Turn /\ k * Turn \in Int /\ l * Turn \in Int
  BY <1>3
<1>5. a = c + (k + l) * Turn
  BY <1>1, <1>2, <1>4
<1>6. k + l \in Int
  OBVIOUS
<1> QED BY <1>5, <1>6 DEF Congruent

\* Words that are congruent are equal, or the two zeros.
LEMMA CongruentWords ==
  ASSUME NEW a \in Word, NEW b \in Word, Congruent(a, b)
  PROVE  a = b \/ (a = 0 /\ b = Turn) \/ (a = Turn /\ b = 0)
<1>1. PICK k \in Int : a = b + k * Turn
  BY DEF Congruent
<1>2. Turn \in Nat /\ Turn >= 3 /\ a \in 0 .. Turn /\ b \in 0 .. Turn
  BY WordSizes
<1> HIDE DEF Turn
<1>3. CASE k >= 2
  <2>1. k * Turn >= 2 * Turn /\ k * Turn \in Int
    BY <1>2, <1>3
  <2> QED BY <1>1, <1>2, <2>1
<1>4. CASE k <= -2
  <2>1. (-k) * Turn >= 2 * Turn /\ k * Turn = -((-k) * Turn) /\ k * Turn \in Int
    <3>1. -k \in Nat /\ -k >= 2
      BY <1>4
    <3>2. (-k) * Turn >= 2 * Turn
      BY <1>2, <3>1
    <3> QED BY <1>2, <3>2
  <2> QED BY <1>1, <1>2, <2>1
<1>5. CASE k = 0
  BY <1>1, <1>2, <1>5
<1>6. CASE k = 1
  BY <1>1, <1>2, <1>6
<1>7. CASE k = -1
  BY <1>1, <1>2, <1>7
<1> QED BY <1>3, <1>4, <1>5, <1>6, <1>7

\* The word that a sum is folded to.
FoldsTo(s, w) == w \in Word /\ Congruent(w, s) /\ (w = 0 <=> s = 0)

\* Every sum is folded to one word, a word to itself.
LEMMA OneWord ==
  ASSUME NEW s \in Nat
  PROVE  /\ \E w : FoldsTo(s, w)
         /\ \A v, w : FoldsTo(s, v) /\ FoldsTo(s, w) => v = w
         /\ s \in Word => FoldsTo(s, s)
<1>0. Turn \in Nat /\ Turn >= 3 /\ Word = 0 .. Turn
  BY WordSizes
<1> HIDE DEF Turn
<1>1. CASE s = 0
  <2>1. FoldsTo(s, s)
    BY <1>0, <1>1, CongruentRefl DEF FoldsTo
  <2>2. \A w : FoldsTo(s, w) => w = 0
    BY <1>1 DEF FoldsTo
  <2> QED BY <2>1, <2>2
<1>2. CASE s # 0
  <2>1. s - 1 \in Nat /\ Turn \in Nat \ {0}
    BY <1>0, <1>2
  <2>2. PICK q \in Nat, r \in 0 .. Turn - 1 : s - 1 = q * Turn + r
    BY <2>1, Division
  <2>3. Congruent(r + 1, s)
    <3>1. q * Turn \in Int /\ (-q) * Turn = -(q * Turn)
      BY <1>0
    <3>2. r + 1 = s + (-q) * Turn
      BY <2>2, <3>1
    <3> QED BY <3>2 DEF Congruent
  <2>4. FoldsTo(s, r + 1)
    BY <1>0, <1>2, <2>3 DEF FoldsTo
  <2>5. ASSUME NEW v, NEW w, FoldsTo(s, v), FoldsTo(s, w) PROVE v = w
    <3>1. v \in Word /\ w \in Word /\ v # 0 /\ w # 0 /\ v \in Int /\ w \in Int
      BY <1>0, <1>2, <2>5 DEF FoldsTo
    <3>2. Congruent(v, s) /\ Congruent(w, s)
      BY <2>5 DEF FoldsTo
    <3>3. Congruent(v, w)
      <4>1. Congruent(s, w)
        BY <3>1, <3>2, CongruentSym
      <4> QED BY <3>1, <3>2, <4>1, CongruentTrans
    <3> QED BY <3>1, <3>3, CongruentWords
  <2>6. s \in Word => FoldsTo(s, s)
    BY CongruentRefl DEF FoldsTo
  <2> QED BY <2>4, <2>5, <2>6
<1> QED BY <1>1, <1>2

\* One round of the loop: the carries of s added in.
Carried(s) == (s % WordBase) + (s \div WordBase)

\* A round leaves a smaller sum that is folded to the same word.
LEMMA CarriedLess ==
  ASSUME NEW s \in Nat, ~(s < WordBase)
  PROVE  /\ Carried(s) \in Nat /\ Carried(s) < s /\ Carried(s) # 0
         /\ Congruent(Carried(s), s)
<1> DEFINE W == WordBase
<1>0. W \in Nat \ {0} /\ Turn \in Nat /\ Turn >= 3 /\ W = Turn + 1
  BY WordSizes
<1> HIDE DEF W, Turn
<1>1. PICK q \in Nat, r \in 0 .. W - 1 : s = q * W + r
  BY <1>0, Division
<1>2. s % W = r
  BY <1>0, <1>1, Turns
<1>3. s \div W = q
  <2>1. (q * W + r) \div W = q
    BY <1>0
  <2> QED BY <1>1, <2>1
<1>4. q # 0
  <2>1. ~(s < W)
    BY DEF W
  <2>2. q = 0 => s = r
    BY <1>0, <1>1
  <2> QED BY <1>0, <2>1, <2>2
<1>5. q * W = q * Turn + q /\ q * Turn \in Nat /\ (-q) * Turn = -(q * Turn)
  BY <1>0
<1>6. q * Turn >= 3
  <2>1. q >= 1 /\ Turn >= 3 /\ Turn \in Nat /\ q \in Nat
    BY <1>0, <1>4
  <2> QED BY <2>1
<1>7. Carried(s) = r + q
  BY <1>2, <1>3 DEF Carried, W
<1>8. s = q * Turn + (r + q)
  BY <1>0, <1>1, <1>5
<1>9. Congruent(r + q, s)
  <2>1. r + q = s + (-q) * Turn
    BY <1>0, <1>5, <1>8
  <2> QED BY <2>1 DEF Congruent
<1>10. r + q \in Nat /\ r + q < s /\ r + q # 0
  BY <1>0, <1>4, <1>5, <1>6, <1>8
<1> QED BY <1>7, <1>9, <1>10

\* f satisfies the equation of Folded.
IsFold(f) == f = [s \in Nat |-> IF s < WordBase THEN s ELSE f[Carried(s)]]

\* There is such a function: the loop ends for every sum.
LEMMA FoldExists == IsFold(Folded)
<1> DEFINE f == [s \in Nat |-> CHOOSE w : FoldsTo(s, w)]
<1>1. ASSUME NEW s \in Nat PROVE FoldsTo(s, f[s])
  BY OneWord
<1> HIDE DEF f
<1>2. ASSUME NEW s \in Nat PROVE f[s] = IF s < WordBase THEN s ELSE f[Carried(s)]
  <2>1. CASE s < WordBase
    <3>1. s \in Word
      BY <2>1, WordSizes DEF Word
    <3>2. FoldsTo(s, s)
      BY <3>1, OneWord
    <3> QED BY <1>1, <2>1, <3>2, OneWord
  <2>2. CASE ~(s < WordBase)
    <3> DEFINE c == Carried(s)
    <3>1. c \in Nat /\ c # 0 /\ Congruent(c, s)
      BY <2>2, CarriedLess
    <3> HIDE DEF c
    <3>2. FoldsTo(c, f[c])
      BY <1>1, <3>1
    <3>3. f[c] \in Word /\ Congruent(f[c], c) /\ f[c] # 0 /\ f[c] \in Int
      BY <3>1, <3>2, WordSizes DEF FoldsTo
    <3>4. Congruent(f[c], s)
      BY <3>1, <3>3, CongruentTrans
    <3>5. s # 0
      BY <2>2, WordSizes
    <3>6. FoldsTo(s, f[c])
      BY <3>3, <3>4, <3>5 DEF FoldsTo
    <3>7. f[s] = f[c]
      BY <1>1, <3>6, OneWord
    <3> QED BY <2>2, <3>7 DEF c
  <2> QED BY <2>1, <2>2
<1>3. IsFold(f)
  <2>1. f = [s \in Nat |-> f[s]]
    BY DEF f
  <2> QED BY <1>2, <2>1 DEF IsFold
<1>4. Folded = CHOOSE g : IsFold(g)
  BY DEF Folded, IsFold, Carried
<1> QED BY <1>3, <1>4

\* The loop folds every sum to its word.
LEMMA FoldedWord ==
  ASSUME NEW s \in Nat PROVE FoldsTo(s, Folded[s])
<1> DEFINE S == {n \in Nat : \A t \in 0 .. n : FoldsTo(t, Folded[t])}
<1>0. ASSUME NEW t \in Nat PROVE Folded[t] = IF t < WordBase THEN t ELSE Folded[Carried(t)]
  BY FoldExists DEF IsFold
<1>1. ASSUME NEW t \in Nat, \A u \in 0 .. t : u < t => FoldsTo(u, Folded[u])
      PROVE  FoldsTo(t, Folded[t])
  <2>1. CASE t < WordBase
    <3>1. t \in Word
      BY <2>1, WordSizes DEF Word
    <3> QED BY <1>0, <2>1, <3>1, OneWord
  <2>2. CASE ~(t < WordBase)
    <3> DEFINE c == Carried(t)
    <3>1. c \in Nat /\ c # 0 /\ c < t /\ Congruent(c, t)
      BY <2>2, CarriedLess
    <3>2. Folded[t] = Folded[c]
      BY <1>0, <2>2
    <3> HIDE DEF c
    <3>3. FoldsTo(c, Folded[c])
      BY <1>1, <3>1
    <3> DEFINE w == Folded[c]
    <3>4. w \in Word /\ w \in Int /\ w # 0 /\ Congruent(w, c)
      BY <3>1, <3>3, WordSizes DEF FoldsTo
    <3> HIDE DEF w
    <3>5. Congruent(w, t)
      BY <3>1, <3>4, CongruentTrans
    <3>6. t # 0
      BY <3>1
    <3> QED BY <3>2, <3>4, <3>5, <3>6 DEF FoldsTo, w
  <2> QED BY <2>1, <2>2
<1>2. 0 \in S
  <2>1. FoldsTo(0, Folded[0])
    BY <1>1
  <2> QED BY <2>1
<1>3. ASSUME NEW n \in Nat, n \in S PROVE n + 1 \in S
  <2>1. \A t \in 0 .. n : FoldsTo(t, Folded[t])
    BY <1>3
  <2>2. FoldsTo(n + 1, Folded[n + 1])
    <3>1. \A u \in 0 .. n + 1 : u < n + 1 => u \in 0 .. n
      OBVIOUS
    <3> QED BY <1>1, <2>1, <3>1
  <2> QED BY <2>1, <2>2
<1> HIDE DEF S
<1>4. s \in S
  BY <1>2, <1>3, NatSetInduction
<1> QED BY <1>4 DEF S

-----------------------------------------------------------------------------
(* The sum of the words of data. *)

\* What the loops over the data add up.
Added(data) == SumOf(Words(data))

\* Two bytes are a word, and a word is two bytes.
LEMMA BytesOfWord ==
  /\ \A a, b \in Byte : a + ByteBase * b \in Word /\ (a + ByteBase * b = 0 => a = 0 /\ b = 0)
  /\ \A v \in Word : /\ v % ByteBase \in Byte /\ v \div ByteBase \in Byte
                     /\ (v % ByteBase) + ByteBase * (v \div ByteBase) = v
<1> DEFINE B == ByteBase
<1>0. B \in Nat \ {0} /\ B >= 2 /\ WordBase = B * B /\ Byte = 0 .. B - 1 /\ Word = 0 .. WordBase - 1
  BY WordSizes DEF WordBase, Byte, Word
<1> HIDE DEF B
<1>1. ASSUME NEW a \in Byte, NEW b \in Byte
      PROVE  a + B * b \in Word /\ (a + B * b = 0 => a = 0 /\ b = 0)
  <2>1. a \in Nat /\ b \in Nat /\ a <= B - 1 /\ b <= B - 1 /\ a \in Int /\ b \in Int
    BY <1>0
  <2>2. B * b \in Nat /\ B * B \in Nat
    BY <1>0, <2>1
  <2>3. B * b <= B * B - B
    <3>1. b + 1 <= B /\ b + 1 \in Nat
      BY <1>0, <2>1
    <3>2. B * (b + 1) <= B * B
      BY <1>0, <3>1
    <3>3. B * (b + 1) = B * b + B
      BY <1>0, <2>1
    <3> QED BY <1>0, <2>2, <3>2, <3>3
  <2>4. b # 0 => B * b # 0
    BY <1>0, <2>1
  <2> QED BY <1>0, <2>1, <2>2, <2>3, <2>4
<1>2. ASSUME NEW v \in Word
      PROVE  v % B \in Byte /\ v \div B \in Byte /\ (v % B) + B * (v \div B) = v
  <2>1. v \in Nat /\ v < B * B /\ B * B \in Nat
    BY <1>0
  <2>2. PICK q \in Nat, r \in 0 .. B - 1 : v = q * B + r
    BY <1>0, <2>1, Division
  <2>3. v % B = r
    BY <1>0, <2>2, Turns
  <2>4. v \div B = q
    <3>1. (q * B + r) \div B = q
      BY <1>0
    <3> QED BY <2>2, <3>1
  <2>5. q < B
    <3>1. CASE q >= B
      <4>1. q * B >= B * B /\ q * B \in Nat
        BY <1>0, <3>1
      <4> QED BY <1>0, <2>1, <2>2, <4>1
    <3> QED BY <1>0, <3>1
  <2>6. B * q = q * B
    BY <1>0
  <2> QED BY <1>0, <2>2, <2>3, <2>4, <2>5, <2>6
<1> QED BY <1>1, <1>2 DEF B

\* Number and positions of the words.
LEMMA WordPlaces ==
  ASSUME NEW n \in Nat
  PROVE  /\ (n + 1) \div 2 \in Nat /\ n \div 2 \in Nat
         /\ \A i \in 1 .. (n + 1) \div 2 : 2 * i - 1 \in 1 .. n /\ i \in Nat
         /\ \A i \in 1 .. n \div 2 : i \in 1 .. (n + 1) \div 2 /\ 2 * i \in 1 .. n
         /\ \A j \in 1 .. n : \E i \in 1 .. (n + 1) \div 2 : j = 2 * i - 1 \/ j = 2 * i
<1>1. \A j \in 1 .. n : \E i \in 1 .. (n + 1) \div 2 : j = 2 * i - 1 \/ j = 2 * i
  <2> SUFFICES ASSUME NEW j \in 1 .. n
               PROVE  \E i \in 1 .. (n + 1) \div 2 : j = 2 * i - 1 \/ j = 2 * i
    OBVIOUS
  <2> DEFINE i == (j + 1) \div 2
  <2>1. i \in 1 .. (n + 1) \div 2 /\ (j = 2 * i - 1 \/ j = 2 * i)
    OBVIOUS
  <2> QED BY <2>1
<1> QED BY <1>1

\* Data are words, and their sum is a number.
LEMMA WordsTyped ==
  ASSUME NEW data \in Seq(Byte)
  PROVE  /\ Len(data) \in Nat /\ (Len(data) + 1) \div 2 \in Nat
         /\ DOMAIN Words(data) = 1 .. (Len(data) + 1) \div 2
         /\ IsFiniteSet(DOMAIN Words(data))
         /\ \A i \in DOMAIN Words(data) :
              /\ Words(data)[i] = data[2 * i - 1] + ByteBase * (IF 2 * i <= Len(data) THEN data[2 * i] ELSE 0)
              /\ Words(data)[i] \in Word /\ Words(data)[i] \in Nat
         /\ Added(data) = SumFunctionOnSet(Words(data), DOMAIN Words(data))
         /\ Added(data) \in Nat
<1> DEFINE m == (Len(data) + 1) \div 2
<1>1. Len(data) \in Nat /\ m \in Nat /\ DOMAIN data = 1 .. Len(data)
  BY LenProperties, WordPlaces
<1>2. DOMAIN Words(data) = 1 .. m
  BY DEF Words
<1>3. IsFiniteSet(1 .. m)
  BY <1>1, FiniteLength
<1>4. ASSUME NEW i \in 1 .. m
      PROVE  /\ Words(data)[i] = data[2 * i - 1] + ByteBase * (IF 2 * i <= Len(data) THEN data[2 * i] ELSE 0)
             /\ Words(data)[i] \in Word /\ Words(data)[i] \in Nat
  <2> DEFINE a == data[2 * i - 1]
             b == IF 2 * i <= Len(data) THEN data[2 * i] ELSE 0
  <2>1. ByteBase * 0 = 0 /\ 0 \in Byte /\ Byte \subseteq Nat /\ Word \subseteq Nat
    BY WordSizes DEF Byte, Word
  <2>2. 2 * i - 1 \in 1 .. Len(data) /\ i \in Nat
    BY <1>1, WordPlaces
  <2>3. a \in Byte /\ b \in Byte
    <3>1. a \in Byte
      BY <2>2, ElementOfSeq
    <3>2. CASE 2 * i <= Len(data)
      <4>1. 2 * i \in 1 .. Len(data)
        BY <1>1, <2>2, <3>2
      <4> QED BY <3>2, <4>1, ElementOfSeq
    <3>3. CASE ~(2 * i <= Len(data))
      BY <2>1, <3>3
    <3> QED BY <3>1, <3>2, <3>3
  <2>4. Words(data)[i] = a + ByteBase * b
    BY <1>2, <2>1 DEF Words
  <2> HIDE DEF a, b
  <2>5. a + ByteBase * b \in Word
    BY <2>3, BytesOfWord
  <2> QED BY <2>1, <2>4, <2>5 DEF a, b
<1>5. Added(data) = SumFunctionOnSet(Words(data), DOMAIN Words(data))
  BY DEF Added, SumOf, SumFunction
<1> DEFINE w == Words(data)
           T == 1 .. m
<1>6. \A i \in T : w[i] \in Nat
  BY <1>4
<1> HIDE DEF m, w, T
<1>7. SumFunctionOnSet(w, T) \in Nat
  BY <1>3, <1>6, SumNat DEF T
<1> QED BY <1>1, <1>2, <1>3, <1>4, <1>5, <1>7 DEF m, w, T

\* A sum is at least each of its words.
LEMMA AddedBound ==
  ASSUME NEW data \in Seq(Byte), NEW i \in DOMAIN Words(data)
  PROVE  Words(data)[i] <= Added(data)
<1> DEFINE w == Words(data)
           T == DOMAIN Words(data)
           rest == SumFunctionOnSet(w, T \ {i})
<1>1. IsFiniteSet(T) /\ i \in T /\ IsFiniteSet(T \ {i})
  BY WordsTyped, FS_Subset
<1>2. \A j \in T : w[j] \in Nat /\ w[j] \in Int
  BY WordsTyped
<1>3. Added(data) = SumFunctionOnSet(w, T)
  BY WordsTyped
<1> HIDE DEF w, T
<1>4. SumFunctionOnSet(w, T) = w[i] + rest
  BY <1>1, <1>2, SumOut
<1>5. rest \in Nat
  <2>1. \A j \in T \ {i} : w[j] \in Nat
    BY <1>2
  <2> QED BY <1>1, <2>1, SumNat
<1>6. w[i] \in Nat
  BY <1>1, <1>2
<1> HIDE DEF rest
<1>7. w[i] <= Added(data)
  BY <1>3, <1>4, <1>5, <1>6
<1> QED BY <1>7 DEF w

\* Only zeros add up to zero.
LEMMA AddedZero ==
  ASSUME NEW data \in Seq(Byte)
  PROVE  Added(data) = 0 <=> \A j \in DOMAIN data : data[j] = 0
<1>0. DOMAIN data = 1 .. Len(data) /\ Len(data) \in Nat
  BY LenProperties
<1>1. ASSUME \A j \in DOMAIN data : data[j] = 0 PROVE Added(data) = 0
  <2> DEFINE w == Words(data)
             T == DOMAIN Words(data)
  <2>1. \A i \in T : w[i] = 0
    <3> SUFFICES ASSUME NEW i \in T PROVE w[i] = 0
      OBVIOUS
    <3>1. 2 * i - 1 \in 1 .. Len(data) /\ i \in Nat
      BY <1>0, WordsTyped, WordPlaces
    <3>2. 2 * i <= Len(data) => 2 * i \in 1 .. Len(data)
      BY <1>0, <3>1
    <3>3. data[2 * i - 1] = 0 /\ (IF 2 * i <= Len(data) THEN data[2 * i] ELSE 0) = 0
      BY <1>0, <1>1, <3>1, <3>2
    <3>4. w[i] = data[2 * i - 1] + ByteBase * (IF 2 * i <= Len(data) THEN data[2 * i] ELSE 0)
      BY WordsTyped
    <3>5. 0 + ByteBase * 0 = 0
      BY WordSizes
    <3> QED BY <3>3, <3>4, <3>5
  <2>2. IsFiniteSet(T) /\ Added(data) = SumFunctionOnSet(w, T)
    BY WordsTyped
  <2> HIDE DEF w, T
  <2> QED BY <2>1, <2>2, SumZero
<1>2. ASSUME Added(data) = 0, NEW j \in DOMAIN data PROVE data[j] = 0
  <2>1. PICK i \in 1 .. (Len(data) + 1) \div 2 : j = 2 * i - 1 \/ j = 2 * i
    BY <1>0, WordPlaces
  <2>2. i \in DOMAIN Words(data)
    BY WordsTyped
  <2>3. Words(data)[i] = 0
    <3>1. Words(data)[i] <= 0 /\ Words(data)[i] \in Nat
      BY <1>2, <2>2, AddedBound, WordsTyped
    <3> QED BY <3>1
  <2> DEFINE a == data[2 * i - 1]
             b == IF 2 * i <= Len(data) THEN data[2 * i] ELSE 0
  <2>4. a + ByteBase * b = 0
    BY <2>2, <2>3, WordsTyped
  <2>5. a \in Byte /\ b \in Byte
    <3>1. 2 * i - 1 \in 1 .. Len(data) /\ i \in Nat
      BY <1>0, WordPlaces
    <3>2. 0 \in Byte
      BY WordSizes DEF Byte
    <3>3. 2 * i <= Len(data) => 2 * i \in 1 .. Len(data)
      BY <1>0, <3>1
    <3> QED BY <3>1, <3>2, <3>3, ElementOfSeq
  <2>6. a = 0 /\ b = 0
    <3> HIDE DEF a, b
    <3> QED BY <2>4, <2>5, BytesOfWord
  <2> QED BY <1>0, <2>1, <2>6
<1> QED BY <1>1, <1>2

\* Rewriting a word takes the old one out of the sum and puts the new one in.
LEMMA AddedRewritten ==
  ASSUME NEW data \in Seq(Byte), NEW i \in 1 .. Len(data) \div 2, NEW v \in Word
  PROVE  /\ Rewritten(data, i, v) \in Seq(Byte) /\ Len(Rewritten(data, i, v)) = Len(data)
         /\ i \in DOMAIN Words(data) /\ DOMAIN Words(Rewritten(data, i, v)) = DOMAIN Words(data)
         /\ Words(Rewritten(data, i, v))[i] = v
         /\ \A j \in DOMAIN Words(data) : j # i => Words(Rewritten(data, i, v))[j] = Words(data)[j]
         /\ Added(Rewritten(data, i, v)) = (Added(data) - Words(data)[i]) + v
<1> DEFINE d == Rewritten(data, i, v)
           low == v % ByteBase
           high == v \div ByteBase
<1>0. /\ Len(data) \in Nat /\ DOMAIN data = 1 .. Len(data)
      /\ DOMAIN Words(data) = 1 .. (Len(data) + 1) \div 2
  BY LenProperties, WordsTyped
<1>1. /\ low \in Byte /\ high \in Byte /\ low + ByteBase * high = v
  BY BytesOfWord
<1>2. i \in DOMAIN Words(data) /\ 2 * i \in DOMAIN data /\ 2 * i - 1 \in DOMAIN data /\ i \in Nat
  BY <1>0, WordPlaces
<1> HIDE DEF low, high
<1>3. d = [data EXCEPT ![2 * i - 1] = low, ![2 * i] = high]
  BY DEF Rewritten, low, high
<1>4. /\ DOMAIN d = DOMAIN data /\ d[2 * i - 1] = low /\ d[2 * i] = high
      /\ \A j \in DOMAIN data : j # 2 * i - 1 /\ j # 2 * i => d[j] = data[j]
  BY <1>2, <1>3
<1>5. d \in Seq(Byte) /\ Len(d) = Len(data)
  <2>1. \A j \in 1 .. Len(data) : d[j] \in Byte
    BY <1>0, <1>1, <1>4, ElementOfSeq
  <2>2. d = [j \in 1 .. Len(data) |-> d[j]]
    BY <1>0, <1>3
  <2> HIDE DEF d
  <2> QED BY <1>0, <1>4, <2>1, <2>2
<1> HIDE DEF d
<1>6. DOMAIN Words(d) = DOMAIN Words(data)
  BY <1>0, <1>5, WordsTyped
<1>7. Words(d)[i] = v
  <2>1. Words(d)[i] = d[2 * i - 1] + ByteBase * (IF 2 * i <= Len(d) THEN d[2 * i] ELSE 0)
    BY <1>2, <1>5, <1>6, WordsTyped
  <2>2. 2 * i <= Len(d)
    BY <1>0, <1>2, <1>5
  <2> QED BY <1>1, <1>4, <2>1, <2>2
<1>8. ASSUME NEW j \in DOMAIN Words(data), j # i PROVE Words(d)[j] = Words(data)[j]
  <2>1. Words(d)[j] = d[2 * j - 1] + ByteBase * (IF 2 * j <= Len(data) THEN d[2 * j] ELSE 0)
    BY <1>5, <1>6, WordsTyped
  <2>2. Words(data)[j] = data[2 * j - 1] + ByteBase * (IF 2 * j <= Len(data) THEN data[2 * j] ELSE 0)
    BY WordsTyped
  <2>3. 2 * j - 1 \in 1 .. Len(data) /\ j \in Nat
    BY <1>0, WordPlaces
  <2>4. d[2 * j - 1] = data[2 * j - 1]
    BY <1>0, <1>2, <1>4, <1>8, <2>3
  <2>5. 2 * j <= Len(data) => d[2 * j] = data[2 * j]
    BY <1>0, <1>2, <1>4, <1>8, <2>3
  <2> QED BY <2>1, <2>2, <2>4, <2>5
<1>9. Added(d) = (Added(data) - Words(data)[i]) + v
  <2> DEFINE f == Words(data)
             g == Words(d)
             T == DOMAIN Words(data)
  <2>1. /\ IsFiniteSet(T) /\ i \in T /\ \A j \in T : f[j] \in Int
        /\ Added(data) = SumFunctionOnSet(f, T)
    BY <1>2, WordsTyped
  <2>2. Added(d) = SumFunctionOnSet(g, T)
    BY <1>5, <1>6, WordsTyped
  <2>3. Agree(f, g, T \ {i})
    BY <1>8 DEF Agree
  <2>4. g[i] = v /\ g[i] \in Int
    BY <1>7, WordSizes
  <2> HIDE DEF f, g, T
  <2>5. SumFunctionOnSet(g, T) = (SumFunctionOnSet(f, T) - f[i]) + g[i]
    <3>1. IsFiniteSet(T) /\ i \in T /\ g[i] \in Int /\ \A j \in T : f[j] \in Int
      BY <2>1, <2>4
    <3> QED BY <2>3, <3>1, SumChange, Zenon
  <2> QED BY <2>1, <2>2, <2>4, <2>5 DEF f
<1> QED BY <1>2, <1>5, <1>6, <1>7, <1>8, <1>9 DEF d

-----------------------------------------------------------------------------
(* The properties. *)

\* Data up to a length are sequences of bytes, and their checksums words.
LEMMA DataTyped ==
  ASSUME NEW n \in Nat, NEW data \in DataUpTo(n)
  PROVE  data \in Seq(Byte) /\ Len(data) \in 0 .. n /\ DOMAIN data = 1 .. Len(data)
<1>1. PICK k \in 0 .. n : data \in [1 .. k -> Byte]
  BY DEF DataUpTo
<1>2. data \in Seq(Byte)
  BY <1>1
<1> QED BY <1>1, <1>2, LenProperties

\* The complement of a word changes its sign.
LEMMA ComplementTurns ==
  ASSUME NEW w \in Word
  PROVE  /\ Complement(w) \in Word /\ Complement(w) = Turn - w /\ w \in Nat
         /\ Complement(Complement(w)) = w
BY WordSizes DEF Complement, Turn, Word

\* What a checksum says of the sum it was made of.
LEMMA ChecksumMeans ==
  ASSUME NEW data \in Seq(Byte), NEW csum
  PROVE  csum \in Checksums(data)
           <=> /\ csum \in Word /\ Congruent(Complement(csum), Added(data))
               /\ Complement(csum) = 0 => Added(data) = 0
<1> DEFINE s == Added(data)
           f == Folded[s]
<1>0. Turn \in Nat /\ Turn >= 3 /\ Word = 0 .. Turn /\ Word \subseteq Int
  BY WordSizes
<1>1. s \in Nat /\ FoldsTo(s, f)
  BY WordsTyped, FoldedWord
<1>2. f \in Word /\ Congruent(f, s) /\ (f = 0 <=> s = 0)
  BY <1>1 DEF FoldsTo
<1>3. Checksums(data) = {Complement(f)} \cup (IF s = 0 THEN {0} ELSE {})
  BY AddedZero DEF Checksums, ComputeChecksum, Added
<1> HIDE DEF s, f, Turn
<1>4. ASSUME csum \in Checksums(data)
      PROVE  csum \in Word /\ Congruent(Complement(csum), s) /\ (Complement(csum) = 0 => s = 0)
  <2>1. CASE csum = Complement(f)
    BY <1>2, <2>1, ComplementTurns
  <2>2. CASE csum # Complement(f)
    <3>1. csum = 0 /\ s = 0
      BY <1>3, <1>4, <2>2
    <3>2. csum \in Word
      BY <1>0, <3>1
    <3>3. Complement(csum) = Turn
      BY <1>0, <3>1, <3>2, ComplementTurns
    <3>4. Turn = 0 + 1 * Turn
      BY <1>0
    <3>5. Congruent(Turn, 0)
      BY <3>4 DEF Congruent
    <3> QED BY <3>1, <3>2, <3>3, <3>5
  <2> QED BY <2>1, <2>2
<1>5. ASSUME csum \in Word, Congruent(Complement(csum), s), Complement(csum) = 0 => s = 0
      PROVE  csum \in Checksums(data)
  <2> DEFINE w == Complement(csum)
  <2>1. w \in Word /\ csum = Complement(w) /\ w \in Int
    BY <1>0, <1>5, ComplementTurns
  <2>2. Congruent(w, s) /\ (w = 0 => s = 0)
    BY <1>5
  <2> HIDE DEF w
  <2>3. CASE w = f
    BY <1>3, <2>1, <2>3
  <2>4. CASE w # f
    <3>1. Congruent(w, f)
      <4>1. f \in Int /\ Congruent(s, f)
        BY <1>0, <1>1, <1>2, CongruentSym
      <4> QED BY <1>1, <2>1, <2>2, <4>1, CongruentTrans
    <3>2. (w = 0 /\ f = Turn) \/ (w = Turn /\ f = 0)
      BY <1>2, <2>1, <2>4, <3>1, CongruentWords
    <3>3. w = Turn /\ s = 0
      BY <1>0, <1>2, <2>2, <3>2
    <3>4. csum = 0
      BY <1>0, <2>1, <3>3, ComplementTurns
    <3> QED BY <1>3, <3>3, <3>4
  <2> QED BY <2>3, <2>4
<1> QED BY <1>4, <1>5 DEF s

\* An update of a checksum gives a checksum of the rewritten data.
LEMMA UpdateRight ==
  ASSUME NEW data \in Seq(Byte), NEW i \in 1 .. Len(data) \div 2, NEW v \in Word,
         NEW csum \in Checksums(data)
  PROVE  UpdateChecksum16(csum, Words(data)[i], v) \in Checksums(Rewritten(data, i, v))
<1> DEFINE s == Added(data)
           d == Rewritten(data, i, v)
           old == Words(data)[i]
           w == Complement(csum)
           o == Complement(old)
           t == w + o + v
           f == Folded[t]
<1>0. Turn \in Nat /\ Turn >= 3 /\ Word = 0 .. Turn /\ Word \subseteq Int
  BY WordSizes
<1>1. d \in Seq(Byte) /\ i \in DOMAIN Words(data) /\ Added(d) = (s - old) + v
  BY AddedRewritten
<1>2. s \in Nat /\ old \in Word /\ old <= s /\ old \in Nat
  BY <1>1, WordsTyped, AddedBound
<1>3. csum \in Word /\ Congruent(w, s) /\ (w = 0 => s = 0)
  BY ChecksumMeans
<1>4. w \in Word /\ w \in Nat /\ o \in Word /\ o = Turn - old /\ v \in Nat
  BY <1>0, <1>2, <1>3, ComplementTurns
<1>5. UpdateChecksum16(csum, old, v) = Complement(f)
  BY DEF UpdateChecksum16
<1> HIDE DEF s, d, old, w, o
<1>6. t \in Nat /\ t # 0
  BY <1>0, <1>2, <1>3, <1>4
<1>7. FoldsTo(t, f)
  BY <1>6, FoldedWord
<1>8. f \in Word /\ f \in Int /\ Congruent(f, t) /\ f # 0
  BY <1>0, <1>6, <1>7 DEF FoldsTo
<1>9. Congruent(t, (s - old) + v)
  <2>1. Congruent(w - old, s - old)
    BY <1>0, <1>2, <1>3, <1>4, CongruentRefl, CongruentAdd
  <2>2. Congruent(Turn + v, v)
    <3>1. Turn + v = v + 1 * Turn
      BY <1>0, <1>4
    <3> QED BY <3>1 DEF Congruent
  <2>3. Congruent((w - old) + (Turn + v), (s - old) + v)
    BY <1>0, <1>2, <1>4, <2>1, <2>2, CongruentAdd
  <2>4. t = (w - old) + (Turn + v)
    BY <1>0, <1>2, <1>4
  <2> QED BY <2>3, <2>4
<1> HIDE DEF t, f
<1>10. Congruent(f, Added(d))
  BY <1>1, <1>2, <1>4, <1>6, <1>8, <1>9, CongruentTrans
<1>11. Complement(f) \in Word /\ Complement(Complement(f)) = f
  BY <1>8, ComplementTurns
<1>12. Complement(f) \in Checksums(d)
  BY <1>1, <1>8, <1>10, <1>11, ChecksumMeans
<1> QED BY <1>5, <1>12 DEF d, old

\* A checksum put where zeros were counted makes the sum full.
LEMMA VerifyRight ==
  ASSUME NEW data \in Seq(Byte), NEW i \in 1 .. Len(data) \div 2
  PROVE  ComputeChecksum(Rewritten(data, i, ComputeChecksum(Rewritten(data, i, 0)))) = 0
<1> DEFINE d == Rewritten(data, i, 0)
           s == Added(d)
           f == Folded[s]
           c == ComputeChecksum(d)
           e == Rewritten(data, i, c)
           t == Added(e)
           g == Folded[t]
<1>0. Turn \in Nat /\ Turn >= 3 /\ Word = 0 .. Turn /\ Word \subseteq Int /\ 0 \in Word
  BY WordSizes
<1>1. d \in Seq(Byte) /\ s \in Nat /\ FoldsTo(s, f)
  BY <1>0, AddedRewritten, WordsTyped, FoldedWord
<1>2. f \in Word /\ Congruent(f, s) /\ (f = 0 <=> s = 0)
  BY <1>1 DEF FoldsTo
<1>3. c = Complement(f)
  BY DEF ComputeChecksum, Added
<1> HIDE DEF f, c
<1>4. c \in Word /\ c = Turn - f /\ f \in Int /\ c \in Int
  BY <1>0, <1>2, <1>3, ComplementTurns
<1>5. e \in Seq(Byte) /\ t = s + c
  <2> DEFINE r == Added(data) - Words(data)[i]
  <2>1. s = r + 0 /\ e \in Seq(Byte) /\ t = r + c
    BY <1>0, <1>4, AddedRewritten
  <2>2. r \in Int
    BY <1>0, AddedRewritten, WordsTyped
  <2> HIDE DEF r, s, t, e
  <2> QED BY <2>1, <2>2, <1>4
<1>6. t \in Nat /\ t # 0 /\ FoldsTo(t, g)
  <2>1. t \in Nat /\ FoldsTo(t, g)
    BY <1>5, WordsTyped, FoldedWord
  <2> HIDE DEF s, t, e, g
  <2>2. t # 0
    BY <1>0, <1>1, <1>2, <1>4, <1>5
  <2> QED BY <2>1, <2>2
<1>7. g \in Word /\ g \in Int /\ Congruent(g, t) /\ g # 0
  BY <1>0, <1>6 DEF FoldsTo
<1>8. ComputeChecksum(e) = Complement(g)
  BY DEF ComputeChecksum, Added
<1> HIDE DEF s, d, t, e, g
<1>9. Congruent(t, Turn)
  <2>1. Congruent(s, f)
    BY <1>1, <1>2, <1>4, CongruentSym
  <2>2. Congruent(s + c, f + c)
    BY <1>1, <1>4, <2>1, CongruentRefl, CongruentAdd
  <2>3. f + c = Turn
    BY <1>0, <1>4
  <2> QED BY <1>5, <2>2, <2>3
<1>10. Congruent(g, Turn)
  BY <1>0, <1>6, <1>7, <1>9, CongruentTrans
<1>11. g = Turn
  BY <1>0, <1>7, <1>10, CongruentWords
<1>12. Complement(g) = 0
  BY <1>0, <1>7, <1>11, ComplementTurns
<1> QED BY <1>8, <1>12 DEF c, d, e

\* The same for an address: two words, one after the other.
LEMMA Update32Right ==
  ASSUME NEW data \in Seq(Byte), NEW i \in 1 .. Len(data) \div 2 - 1,
         NEW high \in Word, NEW low \in Word, NEW csum \in Checksums(data)
  PROVE  UpdateChecksum32(csum, Words(data)[i] * WordBase + Words(data)[i + 1],
                          high * WordBase + low)
           \in Checksums(Rewritten(Rewritten(data, i, high), i + 1, low))
<1> DEFINE n == Len(data) \div 2
           d == Rewritten(data, i, high)
           a == Words(data)[i]
           b == Words(data)[i + 1]
<1>0. n \in Nat
  BY LenProperties, WordPlaces
<1> HIDE DEF n
<1>1. i \in 1 .. n /\ i + 1 \in 1 .. n /\ i + 1 # i
  BY <1>0 DEF n
<1>2. i \in 1 .. Len(data) \div 2 /\ i + 1 \in 1 .. Len(data) \div 2
  BY <1>1 DEF n
<1>3. /\ d \in Seq(Byte) /\ Len(d) = Len(data) /\ i \in DOMAIN Words(data)
      /\ \A j \in DOMAIN Words(data) : j # i => Words(d)[j] = Words(data)[j]
  BY <1>2, AddedRewritten
<1>4. i + 1 \in DOMAIN Words(data)
  BY <1>2, WordSizes, AddedRewritten
<1>5. Words(d)[i + 1] = b /\ a \in Word /\ b \in Word
  BY <1>1, <1>3, <1>4, WordsTyped
<1>6. UpdateChecksum16(csum, a, high) \in Checksums(d)
  BY <1>2, UpdateRight
<1> HIDE DEF a, b, d
<1>7. \A x, y \in Word : (x * WordBase + y) \div WordBase = x /\ (x * WordBase + y) % WordBase = y
  <2> SUFFICES ASSUME NEW x \in Word, NEW y \in Word
               PROVE  (x * WordBase + y) \div WordBase = x /\ (x * WordBase + y) % WordBase = y
    OBVIOUS
  <2> DEFINE W == WordBase
  <2>1. W \in Nat \ {0} /\ x \in Int /\ y \in 0 .. W - 1
    BY WordSizes DEF Word
  <2> HIDE DEF W
  <2>2. (x * W + y) % W = y
    BY <2>1, Turns
  <2>3. (x * W + y) \div W = x
    BY <2>1
  <2> QED BY <2>2, <2>3 DEF W
<1>8. UpdateChecksum32(csum, a * WordBase + b, high * WordBase + low)
        = UpdateChecksum16(UpdateChecksum16(csum, a, high), b, low)
  BY <1>5, <1>7 DEF UpdateChecksum32
<1>9. i + 1 \in 1 .. Len(d) \div 2
  BY <1>2, <1>3
<1>10. UpdateChecksum16(UpdateChecksum16(csum, a, high), b, low) \in Checksums(Rewritten(d, i + 1, low))
  BY <1>3, <1>5, <1>6, <1>9, UpdateRight
<1> QED BY <1>8, <1>10 DEF a, b, d

\* Data after data of even length add up to the sum of both.
LEMMA AddedConcat ==
  ASSUME NEW u \in Seq(Byte), NEW v \in Seq(Byte), NEW k \in Nat, Len(u) = 2 * k
  PROVE  Added(u \o v) = Added(u) + Added(v)
<1> DEFINE d == u \o v
           f == Words(d)
           m == (Len(v) + 1) \div 2
<1>0. Len(u) \in Nat /\ Len(v) \in Nat
  BY LenProperties
<1>1. /\ d \in Seq(Byte) /\ Len(d) = 2 * k + Len(v)
      /\ \A j \in 1 .. 2 * k : d[j] = u[j]
      /\ \A j \in 1 .. Len(v) : d[2 * k + j] = v[j]
  <2>1. /\ d \in Seq(Byte) /\ Len(d) = Len(u) + Len(v)
        /\ \A j \in 1 .. Len(u) + Len(v) : d[j] = IF j <= Len(u) THEN u[j] ELSE v[j - Len(u)]
    BY ConcatProperties
  <2> HIDE DEF d
  <2>2. ASSUME NEW j \in 1 .. 2 * k PROVE d[j] = u[j]
    <3>1. j \in 1 .. Len(u) + Len(v) /\ j <= Len(u)
      BY <1>0
    <3> QED BY <2>1, <3>1
  <2>3. ASSUME NEW j \in 1 .. Len(v) PROVE d[2 * k + j] = v[j]
    <3>1. /\ 2 * k + j \in 1 .. Len(u) + Len(v) /\ ~(2 * k + j <= Len(u))
          /\ (2 * k + j) - Len(u) = j
      BY <1>0
    <3> QED BY <2>1, <3>1
  <2> QED BY <2>1, <2>2, <2>3
<1> HIDE DEF d
<1>2. m \in Nat /\ (Len(u) + 1) \div 2 = k /\ (Len(d) + 1) \div 2 = k + m
  <2> DEFINE a == Len(u)
             b == Len(v)
             c == Len(d)
  <2>1. a \in Nat /\ b \in Nat /\ a = 2 * k /\ c = 2 * k + b
    BY <1>0, <1>1
  <2> HIDE DEF a, b, c
  <2>2. (b + 1) \div 2 \in Nat /\ (a + 1) \div 2 = k /\ (c + 1) \div 2 = k + (b + 1) \div 2
    BY <2>1
  <2> QED BY <2>2 DEF a, b, c
<1>3. /\ DOMAIN f = 1 .. k + m /\ DOMAIN Words(u) = 1 .. k /\ DOMAIN Words(v) = 1 .. m
      /\ \A i \in 1 .. k + m : f[i] \in Int
  <2>1. \A x \in Seq(Byte) : DOMAIN Words(x) = 1 .. (Len(x) + 1) \div 2
    BY WordsTyped
  <2>2. \A i \in DOMAIN f : f[i] \in Nat
    BY <1>1, WordsTyped
  <2>3. DOMAIN f = 1 .. k + m /\ DOMAIN Words(u) = 1 .. k /\ DOMAIN Words(v) = 1 .. m
    BY <1>1, <1>2, <2>1
  <2> HIDE DEF f, m
  <2>4. \A i \in 1 .. k + m : f[i] \in Int
    BY <2>2, <2>3
  <2> QED BY <2>3, <2>4
<1>w. \A x \in Seq(Byte) : \A i \in DOMAIN Words(x) :
        Words(x)[i] = x[2 * i - 1] + ByteBase * (IF 2 * i <= Len(x) THEN x[2 * i] ELSE 0)
  BY WordsTyped
<1>4. ASSUME NEW i \in 1 .. k PROVE f[i] = Words(u)[i]
  <2>1. i \in 1 .. k + m /\ i \in DOMAIN f /\ i \in DOMAIN Words(u)
    BY <1>2, <1>3
  <2>2. 2 * i - 1 \in 1 .. 2 * k /\ 2 * i \in 1 .. 2 * k /\ 2 * i <= Len(d) /\ 2 * i <= Len(u)
    BY <1>0, <1>1
  <2>3. f[i] = d[2 * i - 1] + ByteBase * (IF 2 * i <= Len(d) THEN d[2 * i] ELSE 0)
    BY <1>1, <1>w, <2>1
  <2>4. Words(u)[i] = u[2 * i - 1] + ByteBase * (IF 2 * i <= Len(u) THEN u[2 * i] ELSE 0)
    BY <1>w, <2>1
  <2> QED BY <1>1, <2>2, <2>3, <2>4
<1>5. ASSUME NEW i \in 1 .. m PROVE Words(v)[i] = f[k + i]
  <2>1. k + i \in 1 .. k + m /\ k + i \in DOMAIN f /\ i \in DOMAIN Words(v) /\ i \in Nat
    BY <1>2, <1>3
  <2>2. 2 * i - 1 \in 1 .. Len(v)
    BY <1>0, WordPlaces
  <2>3. /\ 2 * (k + i) - 1 = 2 * k + (2 * i - 1) /\ 2 * (k + i) = 2 * k + 2 * i
        /\ (2 * (k + i) <= Len(d) <=> 2 * i <= Len(v))
        /\ (2 * i <= Len(v) => 2 * i \in 1 .. Len(v))
    BY <1>0, <1>1, <2>1
  <2>4. f[k + i] = d[2 * (k + i) - 1] + ByteBase * (IF 2 * (k + i) <= Len(d) THEN d[2 * (k + i)] ELSE 0)
    BY <1>1, <1>w, <2>1
  <2>5. Words(v)[i] = v[2 * i - 1] + ByteBase * (IF 2 * i <= Len(v) THEN v[2 * i] ELSE 0)
    BY <1>w, <2>1
  <2>6. d[2 * k + (2 * i - 1)] = v[2 * i - 1] /\ (2 * i <= Len(v) => d[2 * k + 2 * i] = v[2 * i])
    BY <1>1, <2>2, <2>3
  <2> QED BY <2>3, <2>4, <2>5, <2>6
<1> DEFINE g == Words(v)
           h == Words(u)
<1>6. /\ Added(d) = SumFunctionOnSet(f, 1 .. k + m) /\ Added(v) = SumFunctionOnSet(g, 1 .. m)
      /\ Added(u) = SumFunctionOnSet(h, 1 .. k)
  BY <1>1, <1>3, WordsTyped
<1> HIDE DEF f, g, h, m
<1>7. SumFunctionOnSet(f, 1 .. k + m) = SumFunctionOnSet(f, 1 .. k) + SumFunctionOnSet(g, 1 .. m)
  <2>1. \A i \in 1 .. m : g[i] = f[k + i]
    BY <1>5 DEF g
  <2>2. InTwoParts(f, g, k, m)
    BY <1>3, <2>1 DEF InTwoParts
  <2> QED BY <1>2, <2>2, SumInParts
<1>8. SumFunctionOnSet(f, 1 .. k) = SumFunctionOnSet(h, 1 .. k)
  <2> DEFINE T == 1 .. k
  <2>1. IsFiniteSet(T) /\ Agree(f, h, T)
    BY <1>4, FiniteLength DEF Agree, h
  <2> HIDE DEF T
  <2>2. SumFunctionOnSet(f, T) = SumFunctionOnSet(h, T)
    BY <2>1, SumCongruent
  <2> QED BY <2>2 DEF T
<1> QED BY <1>6, <1>7, <1>8 DEF d

\* A pseudo header is twelve bytes.
LEMMA PseudoHeaderTyped ==
  ASSUME NEW src \in [1 .. 4 -> Byte], NEW dst \in [1 .. 4 -> Byte],
         NEW proto \in Byte, NEW length \in Nat
  PROVE  /\ PseudoHeader(src, dst, proto, length) \in Seq(Byte)
         /\ Len(PseudoHeader(src, dst, proto, length)) = 12
<1> DEFINE B == ByteBase
           high == (length \div B) % B
           low == length % B
           tail == <<0, proto, high, low>>
<1>0. B \in Nat \ {0} /\ Byte = 0 .. B - 1 /\ 0 \in Byte
  BY WordSizes DEF Byte
<1> HIDE DEF B
<1>1. length \div B \in Nat
  BY <1>0
<1>2. high \in Byte /\ low \in Byte
  BY <1>0, <1>1, ModAdd
<1> HIDE DEF high, low
<1>3. tail \in Seq(Byte) /\ Len(tail) = 4
  BY <1>0, <1>2
<1>4. \A a \in [1 .. 4 -> Byte] : a \in Seq(Byte) /\ Len(a) = 4
  <2> SUFFICES ASSUME NEW a \in [1 .. 4 -> Byte] PROVE a \in Seq(Byte) /\ Len(a) = 4
    OBVIOUS
  <2>1. a \in Seq(Byte)
    BY SeqDef
  <2>2. Len(a) \in Nat /\ DOMAIN a = 1 .. Len(a) /\ DOMAIN a = 1 .. 4
    BY <2>1, LenProperties
  <2> QED BY <2>1, <2>2
<1> HIDE DEF tail
<1>5. src \o dst \in Seq(Byte) /\ Len(src \o dst) = 8
  <2>1. src \in Seq(Byte) /\ Len(src) = 4 /\ dst \in Seq(Byte) /\ Len(dst) = 4
    BY <1>4
  <2>2. src \o dst \in Seq(Byte) /\ Len(src \o dst) = Len(src) + Len(dst)
    BY <2>1, ConcatProperties
  <2> QED BY <2>1, <2>2
<1>6. (src \o dst) \o tail \in Seq(Byte) /\ Len((src \o dst) \o tail) = 12
  BY <1>3, <1>5, ConcatProperties
<1> QED BY <1>6 DEF PseudoHeader, tail, high, low, B

\* A segment's checksum is that of pseudo header and segment in one piece.
LEMMA TransportRight ==
  ASSUME NEW data \in Seq(Byte), NEW src \in [1 .. 4 -> Byte], NEW dst \in [1 .. 4 -> Byte],
         NEW proto \in Byte
  PROVE  TransportChecksum(src, dst, proto, data)
           = ComputeChecksum(PseudoHeader(src, dst, proto, Len(data)) \o data)
<1> DEFINE p == PseudoHeader(src, dst, proto, Len(data))
<1>1. p \in Seq(Byte) /\ Len(p) = 2 * 6
  BY LenProperties, PseudoHeaderTyped
<1>2. TransportChecksum(src, dst, proto, data) = Complement(Folded[Added(p) + Added(data)])
  BY DEF TransportChecksum, Added
<1>3. ComputeChecksum(p \o data) = Complement(Folded[Added(p \o data)])
  BY DEF ComputeChecksum, Added
<1> HIDE DEF p
<1>4. Added(p \o data) = Added(p) + Added(data)
  BY <1>1, AddedConcat
<1> QED BY <1>2, <1>3, <1>4 DEF p

\* All of this for data of any length, any bytes and any rewriting: incremental
\* updates give a checksum that computing anew could have given, a header with its
\* checksum in it verifies, a segment is summed as one piece with its pseudo header.
THEOREM ChecksumsOfAnyLength ==
  ASSUME NEW n \in Nat
  PROVE  UpdateAgrees(n) /\ Update32Agrees(n) /\ Verifies(n) /\ TransportIsOneSum(n)
<1>1. UpdateAgrees(n)
  <2> SUFFICES ASSUME NEW data \in DataUpTo(n), NEW i \in 1 .. Len(data) \div 2,
                      NEW word \in Word, NEW csum \in Checksums(data)
               PROVE  UpdateChecksum16(csum, Words(data)[i], word)
                        \in Checksums(Rewritten(data, i, word))
    BY DEF UpdateAgrees
  <2> QED BY DataTyped, UpdateRight
<1>2. Update32Agrees(n)
  <2> SUFFICES ASSUME NEW data \in DataUpTo(n), NEW i \in 1 .. Len(data) \div 2 - 1,
                      NEW high \in Word, NEW low \in Word, NEW csum \in Checksums(data)
               PROVE  UpdateChecksum32(csum, Words(data)[i] * WordBase + Words(data)[i + 1],
                                       high * WordBase + low)
                        \in Checksums(Rewritten(Rewritten(data, i, high), i + 1, low))
    BY DEF Update32Agrees
  <2> QED BY DataTyped, Update32Right
<1>3. Verifies(n)
  <2> SUFFICES ASSUME NEW data \in DataUpTo(n), NEW i \in 1 .. Len(data) \div 2
               PROVE  ComputeChecksum(Rewritten(data, i, ComputeChecksum(Rewritten(data, i, 0)))) = 0
    BY DEF Verifies
  <2> QED BY DataTyped, VerifyRight
<1>4. TransportIsOneSum(n)
  <2> SUFFICES ASSUME NEW data \in DataUpTo(n), NEW src \in [1 .. 4 -> {0, ByteBase - 1}],
                      NEW dst \in [1 .. 4 -> {0, ByteBase - 1}], NEW proto \in Byte
               PROVE  TransportChecksum(src, dst, proto, data)
                        = ComputeChecksum(PseudoHeader(src, dst, proto, Len(data)) \o data)
    BY DEF TransportIsOneSum
  <2>1. 0 \in Byte /\ ByteBase - 1 \in Byte
    BY WordSizes DEF Byte
  <2>2. src \in [1 .. 4 -> Byte] /\ dst \in [1 .. 4 -> Byte]
    BY <2>1
  <2> QED BY <2>2, DataTyped, TransportRight
<1> QED BY <1>1, <1>2, <1>3, <1>4

\* Checksums agree for data and segments up to the lengths of a run, whatever these
\* are: what the DataPath run checks for eight and five bytes.
THEOREM ChecksumsAlwaysAgree == Spec => []ChecksumsAgree
<1>1. DataLength \in Nat /\ SegmentLength \in Nat
  BY ChecksumAssumption
<1>2. ChecksumsAgree
  BY <1>1, ChecksumsOfAnyLength DEF ChecksumsAgree
<1> QED BY <1>2, PTL
=============================================================================
