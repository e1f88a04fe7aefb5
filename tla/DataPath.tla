------------------------------ MODULE DataPath ------------------------------
(***************************************************************************)
(* The packet pipeline of src/main.cpp: XDP hook, packet filter and        *)
(* connection tracking, flow classification, QoS scheduling and the        *)
(* transmit ring of wlan0, with the metrics every stage reports and the    *)
(* telemetry made of them.  It composes SmartQoSScheduler with the other   *)
(* stages; SIGINT and SIGTERM may arrive between any two of them.          *)
(*                                                                         *)
(* A packet is its metadata, which also identify its flow.  The generator  *)
(* at the top of the loop is replaced by any frame of Frames.  The packets *)
(* of a flow have one size; see FlowClassifier for what the classifier     *)
(* keeps of them.  The route found for a packet goes into its              *)
(* egress_ifindex, which no later stage reads, so it is left out.  No      *)
(* stage calls Checksum yet; ChecksumsAgree is about its operators.        *)
(***************************************************************************)
EXTENDS Integers, Sequences, SequencesExt, Packet, FlowClasses, Checksum

CONSTANTS
  \* SmartQoSScheduler
  NumQueues, Depth, Classes, Sizes, Weight, DefaultRate, Rates,
  BloatBytes, CounterModulus, DeficitHalf,
  Frames,            \* the frames that may arrive
  Programs,          \* programs to attach: each maps headers to XDP actions
  Rules,             \* rules to add: matched headers, verdict, assigned class
  EstablishedAfter,  \* packets of an established connection (3)
  CountCap,          \* flow packet counts saturate here, above it and VideoAfter
  TxRingSize,        \* TX_RING_SIZE
  TelemetryEvery,    \* iterations from one snapshot to the next (50000)
  LoopLimit          \* iterations of a run (200000)

VARIABLES
  queues, deficits, enqueued, dequeued, dropped, occupancy, link_rate, measured,
  bufferbloat_detected, served      \* qos_scheduler

Q == INSTANCE SmartQoSScheduler

VARIABLES
  g_running,
  at, pkt, verd, class, loop_count,  \* main: place, packet, verdict, its class
  attached_programs, xdp,            \* xdp: programs, counters
  rules, conntrack,                  \* netfilter: rules, connection per header
  packet_count,                      \* classifier: packets of a flow, 0 if absent
  wlan0,                             \* transmit ring and its counters
  metrics,                           \* MetricsCollector
  reported                           \* sums of the rates shown, times the time

qosVars == <<queues, deficits, enqueued, dequeued, dropped, occupancy, link_rate,
             measured, bufferbloat_detected, served>>
setupVars == <<attached_programs, rules>>
tableVars == <<conntrack, packet_count>>
metricVars == <<metrics, reported>>
vars == <<qosVars, g_running, at, pkt, verd, class, loop_count, setupVars, xdp,
          tableVars, wlan0, metricVars>>

\* What parse_headers makes of them.
Headers == {ParseHeaders(f) : f \in Frames}

NoPacket == [proto |-> "none", port |-> "none", size |-> 0]
Actions == {"ABORTED", "DROP", "PASS", "TX", "REDIRECT"}
Verdicts == {"ACCEPT", "DROP", "REJECT", "QOS_QUEUE"}

\* A program sees the packet; a rule is the packets it matches and what becomes of them.
ProgramType == [Headers -> Actions]
RuleType == [matches : SUBSET Headers, verdict : Verdicts, class : Classes]

ASSUME DataPathAssumption ==
  /\ Frames \subseteq FrameType(Sizes)
  /\ Programs \in Seq(ProgramType)
  /\ Rules \in Seq(RuleType)
  /\ Small \in Nat /\ Large \in Nat /\ Mtu \in Nat
  /\ VideoAfter \in Nat /\ EstablishedAfter \in Nat /\ CountCap \in Nat
  /\ CountCap > VideoAfter /\ CountCap > EstablishedAfter /\ CountCap >= 3
  /\ Classes = Q!Queues /\ {Voice, Gaming, Video, BestEffort, Bulk} \subseteq Classes
  /\ TxRingSize \in Nat
  /\ TelemetryEvery \in Nat \ {0} /\ LoopLimit \in Nat \ {0}

\* The scheduler's own.
ASSUME SchedulerAssumption == Q!QoSAssumption

Bump(n) == (n + 1) % CounterModulus
Saturated(n) == IF n < CountCap THEN n + 1 ELSE n

\* The first program that does not pass the packet decides.
ProcessPacket(h) ==
  LET i == SelectInSeq(attached_programs, LAMBDA prog : prog[h] # "PASS")
  IN IF i = 0 THEN "PASS" ELSE attached_programs[i][h]

\* The first rule that matches decides; the default policy is to accept.
Evaluate(h) ==
  LET i == SelectInSeq(rules, LAMBDA rule : h \in rule.matches)
  IN IF i = 0 THEN [verdict |-> "ACCEPT", class |-> BestEffort]
     ELSE [verdict |-> rules[i].verdict,
           class |-> IF rules[i].verdict = "QOS_QUEUE" THEN rules[i].class ELSE BestEffort]

\* The mean size of the packets of a flow; that of a new entry is 0.
MeanSize(h, n) == [sum |-> IF n = 1 THEN 0 ELSE h.size, of |-> 1]

-----------------------------------------------------------------------------
NewHook == [processed |-> 0, dropped |-> 0, redirected |-> 0]
NewConnection == [packets_forwarded |-> 0, is_established |-> FALSE]
NewDevice == [tx_depth |-> 0, tx_packets |-> 0, tx_drops |-> 0]
NewMetrics ==
  [rx |-> 0, bytes |-> 0, tx |-> 0, drop |-> 0, class_counts |-> [c \in Classes |-> 0],
   last_rx |-> 0, last_bytes |-> 0]

Init ==
  /\ Q!Init
  /\ g_running = TRUE
  /\ at = "setup" /\ pkt = NoPacket /\ verd = "ACCEPT" /\ class = BestEffort
  /\ loop_count = 0
  /\ attached_programs = << >> /\ xdp = NewHook
  /\ rules = << >> /\ conntrack = [h \in Headers |-> NewConnection]
  /\ packet_count = [h \in Headers |-> 0]
  /\ wlan0 = NewDevice
  /\ metrics = NewMetrics /\ reported = [rx |-> 0, bytes |-> 0]

\* signal_handler
Signal ==
  /\ g_running' = FALSE
  /\ UNCHANGED <<qosVars, at, pkt, verd, class, loop_count, setupVars, xdp, tableVars,
                 wlan0, metricVars>>

Setup(programs, chain) ==
  /\ at = "setup"
  /\ attached_programs' = programs /\ rules' = chain
  /\ UNCHANGED <<qosVars, g_running, at, pkt, verd, class, loop_count, xdp, tableVars,
                 wlan0, metricVars>>

AttachProgram ==
  /\ Len(attached_programs) < Len(Programs)
  /\ Setup(Append(attached_programs, Programs[Len(attached_programs) + 1]), rules)

DetachAll == Setup(<< >>, rules)

AddRule ==
  /\ Len(rules) < Len(Rules)
  /\ Setup(attached_programs, Append(rules, Rules[Len(rules) + 1]))

ClearRules == Setup(attached_programs, << >>)

Start ==
  /\ at = "setup" /\ at' = "loop"
  /\ UNCHANGED <<qosVars, g_running, pkt, verd, class, loop_count, setupVars, xdp,
                 tableVars, wlan0, metricVars>>

-----------------------------------------------------------------------------
\* Mutant of RecordDrop: nothing is recorded.
RecordNoDrop(m) == m

RecordDrop(m) == [m EXCEPT !.drop = Bump(@)]

\* Mutant of KeepsRunning: the signal is not looked at.
KeepsRunningDeaf == TRUE

KeepsRunning == g_running

\* The next packet goes through the XDP hook.  An aborted packet counts as dropped
\* by the hook, but only DROP stops it.
XdpHook(h) ==
  /\ at = "loop" /\ KeepsRunning
  /\ LET act == ProcessPacket(h) IN
       /\ xdp' = [processed |-> Bump(xdp.processed),
                  dropped |-> IF act \in {"DROP", "ABORTED"} THEN Bump(xdp.dropped)
                              ELSE xdp.dropped,
                  redirected |-> IF act = "REDIRECT" THEN Bump(xdp.redirected)
                                 ELSE xdp.redirected]
       /\ metrics' = IF act = "DROP" THEN RecordDrop(metrics) ELSE metrics
       /\ at' = IF act = "DROP" THEN "loop" ELSE "filter"
       /\ pkt' = IF act = "DROP" THEN NoPacket ELSE h
  /\ UNCHANGED <<qosVars, g_running, verd, class, loop_count, setupVars, tableVars,
                 wlan0, reported>>

FilterDrop ==
  /\ at = "filter"
  /\ Evaluate(pkt).verdict = "DROP"
  /\ metrics' = RecordDrop(metrics)
  /\ at' = "loop" /\ pkt' = NoPacket
  /\ UNCHANGED <<qosVars, g_running, verd, class, loop_count, setupVars, xdp, tableVars,
                 wlan0, reported>>

\* update_conntrack
Forward(c) ==
  [packets_forwarded |-> Saturated(c.packets_forwarded),
   is_established |-> c.is_established \/ Saturated(c.packets_forwarded) > EstablishedAfter]

\* Any other verdict, REJECT included, lets the packet on to update_conntrack.
FilterPass ==
  /\ at = "filter"
  /\ Evaluate(pkt).verdict # "DROP"
  /\ verd' = Evaluate(pkt).verdict
  /\ class' = Evaluate(pkt).class
  /\ conntrack' = [conntrack EXCEPT ![pkt] = Forward(@)]
  /\ at' = "classify"
  /\ UNCHANGED <<qosVars, g_running, pkt, loop_count, setupVars, xdp, packet_count, wlan0,
                 metricVars>>

\* Mutant of Tracked: flows whose class a rule has fixed are not tracked.
TrackedUnruled(n) == IF verd = "QOS_QUEUE" THEN n ELSE Saturated(n)

Tracked(n) == Saturated(n)

\* track_and_update, then classify_flow; a rule that queues overrides the class.
Classify ==
  /\ at = "classify"
  /\ packet_count' = [packet_count EXCEPT ![pkt] = Tracked(@)]
  /\ \E burst \in Burstiness(packet_count'[pkt]) :
       class' = IF verd = "QOS_QUEUE" THEN class
                ELSE LET n == packet_count'[pkt]
                     IN ClassifyFlow(pkt, n, MeanSize(pkt, n), burst)
  /\ metrics' = [metrics EXCEPT !.class_counts[class'] = Bump(@)]
  /\ at' = "enqueue"
  /\ UNCHANGED <<qosVars, g_running, pkt, verd, loop_count, setupVars, xdp, conntrack,
                 wlan0, reported>>

\* enqueue's result is ignored: a packet dropped at the tail counts as received.
Enqueue ==
  /\ at = "enqueue"
  /\ Q!Enqueue(class, pkt.size)
  /\ metrics' = [metrics EXCEPT !.rx = @ + 1, !.bytes = @ + pkt.size]
  /\ at' = "dequeue"
  /\ UNCHANGED <<g_running, pkt, verd, class, loop_count, setupVars, xdp, tableVars, wlan0,
                 reported>>

\* MetricsCollector::snapshot: what came since the one before, for the rates.
Snapshot(m) ==
  LET Since(now, last) == IF now >= last THEN now - last ELSE 0
  IN /\ metrics' = [m EXCEPT !.last_rx = m.rx, !.last_bytes = m.bytes]
     /\ reported' = [rx |-> reported.rx + Since(m.rx, m.last_rx),
                     bytes |-> reported.bytes + Since(m.bytes, m.last_bytes)]

\* The end of an iteration, m its metrics: telemetry now and then, and a limit.
EndIteration(m) ==
  /\ loop_count' = loop_count + 1
  /\ IF loop_count' % TelemetryEvery = 0 THEN Snapshot(m)
     ELSE metrics' = m /\ UNCHANGED reported
  /\ at' = IF loop_count' >= LoopLimit THEN "done" ELSE "loop"
  /\ pkt' = NoPacket /\ verd' = "ACCEPT" /\ class' = BestEffort

\* Mutant of EnqueueTx: it waits for room in the ring.
EnqueueTxWaiting ==
  /\ wlan0.tx_depth < TxRingSize
  /\ wlan0' = [wlan0 EXCEPT !.tx_depth = @ + 1, !.tx_packets = Bump(@)]

\* wlan0.enqueue_tx; its result is ignored, and nothing takes packets out of
\* the transmit ring.
EnqueueTx ==
  wlan0' = IF wlan0.tx_depth < TxRingSize
           THEN [wlan0 EXCEPT !.tx_depth = @ + 1, !.tx_packets = Bump(@)]
           ELSE [wlan0 EXCEPT !.tx_drops = Bump(@)]

\* Mutant of Dequeue: the strict class is served when no other can be.
DequeueLate ==
  \/ \E i \in Q!RoundRobin : queues[i] # << >> /\ Q!Serve(i) /\ UNCHANGED deficits
  \/ (\A i \in Q!RoundRobin : queues[i] = << >>) /\ Q!DequeueStrict

Dequeue == Q!DequeueStrict \/ \E i \in Q!RoundRobin : Q!DequeueRoundRobin(i)

Transmit ==
  /\ at = "dequeue"
  /\ Dequeue
  /\ EnqueueTx
  /\ EndIteration([metrics EXCEPT !.tx = Bump(@)])
  /\ UNCHANGED <<g_running, setupVars, xdp, tableVars>>

TransmitNothing ==
  /\ at = "dequeue"
  /\ Q!DequeueNothing
  /\ EndIteration(metrics)
  /\ UNCHANGED <<g_running, setupVars, xdp, tableVars, wlan0>>

Leave ==
  /\ at = "loop" /\ ~KeepsRunning
  /\ at' = "done"
  /\ UNCHANGED <<qosVars, g_running, pkt, verd, class, loop_count, setupVars, xdp,
                 tableVars, wlan0, metricVars>>

Step ==
  \/ \E f \in Frames : XdpHook(ParseHeaders(f))
  \/ FilterDrop \/ FilterPass \/ Classify \/ Enqueue \/ Transmit \/ TransmitNothing
  \/ Start \/ Leave

Done == at = "done" /\ UNCHANGED vars

Next == \/ AttachProgram \/ DetachAll \/ AddRule \/ ClearRules
        \/ Signal \/ Step \/ Done

Spec == Init /\ [][Next]_vars

\* The main thread runs.
FairSpec == Spec /\ WF_vars(Step)

-----------------------------------------------------------------------------
\* Types, part of BooksBalance.
Counter == 0 .. CounterModulus - 1

TypeOK ==
  /\ Q!TypeOK
  /\ g_running \in BOOLEAN
  /\ at \in {"setup", "loop", "filter", "classify", "enqueue", "dequeue", "done"}
  /\ pkt \in Headers \cup {NoPacket} /\ verd \in Verdicts /\ class \in Classes
  /\ loop_count \in 0 .. LoopLimit
  /\ conntrack \in [Headers -> [packets_forwarded : 0 .. CountCap, is_established : BOOLEAN]]
  /\ packet_count \in [Headers -> 0 .. CountCap]
  /\ wlan0 \in [tx_depth : 0 .. TxRingSize, tx_packets : Counter, tx_drops : Counter]

Sum(f) == FoldFunction(+, 0, f)
Backlog == Sum([i \in Q!Queues |-> Len(queues[i])])

\* Between iterations the books of six components balance, although three
\* results are ignored on the way: every packet the hook saw was received or
\* dropped; what was received, one packet in each full iteration, was transmitted,
\* dropped at the tail of its class or is queued; what counts as transmitted is in
\* the ring or a drop of wlan0; each class received what the scheduler accepted
\* or dropped for it, and what that accepted was served or is queued; and the rates
\* shown so far add up to all that came before the last snapshot.
BooksBalance ==
  /\ TypeOK
  /\ at = "loop" =>
    /\ xdp.processed = (metrics.rx + metrics.drop) % CounterModulus
    /\ metrics.rx = loop_count
    /\ metrics.rx % CounterModulus = (metrics.tx + Sum(dropped) + Backlog) % CounterModulus
    /\ metrics.tx = (wlan0.tx_packets + wlan0.tx_drops) % CounterModulus
    /\ \A c \in Classes :
         metrics.class_counts[c] = (enqueued[c] + dropped[c]) % CounterModulus
    /\ Q!PacketsAccounted
    /\ reported = [rx |-> metrics.last_rx, bytes |-> metrics.last_bytes]
    /\ metrics.last_rx = loop_count - (loop_count % TelemetryEvery)

\* Connection tracking and the flow table, filled at different stages and keyed
\* by different strings, agree on which flows exist and on their packets, and a
\* connection is established exactly when it has had enough of them.
TablesAgree ==
  at = "loop" =>
    \A h \in Headers :
      /\ conntrack[h].packets_forwarded = packet_count[h]
      /\ conntrack[h].is_established <=> packet_count[h] > EstablishedAfter

\* Voice and control packets never wait: one packet enters and one leaves per
\* iteration, and strict priority makes it the voice packet.
VoiceNeverWaits == at = "loop" => queues[0] = << >>

\* The parser works on every frame, see MetadataFromBuffer and TagTransparent, and
\* the flow classifier, whose answer replaces the class it gave an ARP packet,
\* comes to the same class.  This depends on no variable: the initial state, for
\* which it is stated, stands for all.
ParserSound ==
  Init =>
    /\ MetadataFromBuffer(Sizes)
    /\ TagTransparent(Sizes)
    /\ \A f \in FrameType(Sizes), n \in 1 .. CountCap, burst \in Burstinesses :
         MarkedVoice(f) =>
           LET h == ParseHeaders(f) IN ClassifyFlow(h, n, MeanSize(h, n), burst) = Voice

\* Incremental updates by a word and by an address agree with computing a checksum
\* anew, a header with its checksum in it sums up to zero, and pseudo header and
\* segment are summed like one piece of data; see Checksum.  As ParserSound it is
\* stated for the initial state.
ChecksumsAgree ==
  Init =>
    /\ UpdateAgrees(DataLength) /\ Update32Agrees(DataLength)
    /\ Verifies(DataLength) /\ TransportIsOneSum(SegmentLength)

\* A signal stops the loop, and not before the packet in it has gone through.
SignalStops == ~g_running ~> at = "done"

\* The run ends by itself, full transmit ring or not, unless packets are dropped
\* by hook and filter for ever: those do not count as iterations.
LoopEnds == <>(at = "done") \/ []<><<metrics'.drop # metrics.drop>>_vars
=============================================================================
