# AetherPlane: TLA+ models, model checks and proofs

AetherPlane is a user-space packet engine for wireless access points: lock-free
rings hand packets to worker cores, a pipeline of hook, filter, classifier and
router decides about each packet, and two schedulers share a slow link. This
directory models the engine in TLA+, checks the models with TLC on small
instances and proves the central results with TLAPS for all values of the
constants.

Paths below are relative to the repository.

- [1. The system](#1-the-system)
- [2. Modules](#2-modules)
- [3. How the models correspond to the code](#3-how-the-models-correspond-to-the-code)
- [4. Runs](#4-runs)
- [5. Fairness](#5-fairness)
- [6. Proofs](#6-proofs)
- [7. What the checks found](#7-what-the-checks-found)
- [8. Not modelled](#8-not-modelled)
- [9. Plan](#9-plan)

## 1. The system

| Part | State | Operations | Shared with | What makes it correct |
| --- | --- | --- | --- | --- |
| SPSC ring, `include/core/ring_buffer.hpp` | two free-running indices, slots | `push`, `pop`, `size` | one producer and one consumer thread, no lock | a bounded FIFO; no slot is written while it is read; indices may wrap and be seen late |
| Worker pool, `src/core/worker_pool.cpp`, with the RSS dispatcher, `src/core/rss_dispatcher.cpp` | running flag, threads, a ring and counters per core | `start`, `stop`, `dispatch_packet`, `worker_loop` | owner thread, producer thread, one worker per core | one consumer per ring; order within a connection; nothing accepted is lost; `stop` returns |
| QoS scheduler, `src/qos/smart_scheduler.cpp` | five queues, deficits, statistics, congestion estimate | `enqueue`, `dequeue`, `set_wireless_link_rate_mbps`, `get_stats` | one mutex | strict priority for class 0, no starvation among the rest, bounded credit, honest statistics and congestion flag |
| FQ-CoDel scheduler, `src/qos/fq_codel.cpp` | 1024 flow queues with deficit and CoDel state, lists of new and old flows, alarm | `enqueue`, `dequeue`, `set_link_rate_mbps` | one mutex | backlogged flows are listed, `dequeue` returns and misses nothing, fair turns, drops by the CoDel law |
| LPM trie, `src/core/lpm_trie.cpp` | binary trie, route count | insert, replace, delete, look up | not thread-safe | the longest matching prefix wins, whatever was inserted and deleted before |
| Main pipeline, `src/main.cpp` | the loop, its counter and its locals | set-up, then the stages in order | calls all of the following; signal handler | every packet is accounted for, voice never waits, a signal ends the loop, and so does its limit |
| XDP hook, `src/core/xdp_hook.cpp` | attached programs, three counters | attach, detach, `process_packet` | called by main | the first program that does not pass decides, every packet is counted |
| Filter, `src/core/filter_engine.cpp` | rules, connection table | add and clear rules, `evaluate`, `update_conntrack` | called by main | connections agree with the classifier's flows |
| Flow classifier, `src/qos/flow_classifier.cpp` | a table of flows with two windows and features each | `track_and_update`, `classify_flow` | a mutex; main keeps a reference beyond it | a prediction describes the recent packets, a steady flow settles |
| Metrics, `src/telemetry/metrics_collector.cpp` | atomic counters, what the last snapshot saw | `record_...`, `snapshot` | called by main | rates add up to the traffic |
| Virtual device, `src/core/virtual_netdev.cpp` | two rings, four plain counters | enqueue and dequeue, per direction | transmit side called by main | the counters tell what the rings took |
| Frame pool, `src/core/xsk_umem.cpp` | a memory area, five rings of frame addresses | allocate, free, ring operations | no caller in the repository | frames are neither lost nor handed out twice |
| Parser, `src/core/packet.cpp`; checksums, `src/core/checksum.cpp` | none | `parse_headers`; sums and incremental updates | parser: every packet; checksums: no caller | metadata only from bytes that are there; incremental update equals recomputation |
| Telemetry server and dashboard, `server/app.py`, `app.js` | one dictionary; the browser's copy | a daemon that ticks, HTTP handlers, polling and injection | two threads without a lock; overlapping fetches | what the dashboard shows follows what was injected |

Packets enter through rings, are dispatched by flow hash to a core, pass hook,
filter, connection tracking, classifier and route lookup in that order, enter
the QoS scheduler and leave through the transmit ring of `wlan0`. Only
`src/main.cpp` calls the pipeline's parts, on one thread; the worker pool,
FQ-CoDel, frame pool and checksum engine are library classes without a caller in
the repository, modelled from their own contract.

Where the difficulty lies:

- *Weak memory.* Ring indices are loaded with acquire semantics, so a thread
  may act on an old value of the other's index, and they wrap.
- *Interleaving.* Owner, producer and workers of the pool; a signal between any
  two stages of the main loop.
- *Call sequences.* FQ-CoDel announces a flow as new whenever it finds it empty,
  whatever lists it is still on; the trie keeps nodes after deletion; a QoS
  `dequeue` may return false with packets queued and have an effect all the same.
- *Stale values.* The congestion estimate and the alarm are refreshed at some
  operations only.
- *Ignored results.* Full queues and rings answer false to a caller that does
  not look.
- *Sliding windows.* Two windows filled at different packets, features computed
  with some packets and kept with others.
- *Boundaries.* Indices, counters and deficits with a width; lengths cut to
  eight bits; integer arithmetic under a drop schedule.

`PROJECT.json` lists each of these at its line under `hazards`, with the
property that watches it or the reason there is none.

## 2. Modules

| Module | Models | Uses |
| --- | --- | --- |
| `BoundedFifo` | what a ring promises: accept or refuse an offer, fetch, release | |
| `SPSCRing` | the ring at its atomic accesses | refines `BoundedFifo` |
| `SPSCRingProofs` | proofs: types, the inductive invariant, absence of slot races, refinement of `BoundedFifo`, `size()`, the device's counters | extends `VirtualNetDev` |
| `VirtualNetDev` | one direction of a device: a ring and the counters kept beside it | extends `SPSCRing` |
| `WorkerPool` | pool and RSS dispatcher, with rings at the level of `BoundedFifo` | |
| `WorkerPoolProofs` | proofs: one consumer per ring, order and completeness of a connection's packets, each ring used as `BoundedFifo` allows | `CountingLemmas`, `BoundedFifo` |
| `SmartQoSScheduler` | the QoS scheduler | |
| `SmartQoSSchedulerProofs` | proofs: types, statistics, bounded credit, the congestion flag | `CountingLemmas` |
| `FQCoDel` | FQ-CoDel, one action per iteration of `dequeue` | |
| `FQCoDelProofs` | proofs: types, lists, no forgotten backlog, meaning of false, deficits, byte counts, drops, deadlines, alarm | `CountingLemmas` |
| `RouteTable` | what longest-prefix matching means | |
| `LPMTrie` | the trie, look-up one bit per step | refines `RouteTable` |
| `TrieTelemetryProofs` | proofs: the trie's types, connectedness, count and refinement; the telemetry server's alarms | instantiates `TelemetryServer`; `CountingLemmas` |
| `Packet` | `parse_headers`: from a frame to its metadata | |
| `FlowClasses` | the traffic classes and the decision tree | |
| `FlowClassifier` | windows, features and prediction of a flow | extends `FlowClasses` |
| `DataPath` | set-up and main loop, with hook, filter, flow table, metrics, device | extends `Packet`, `FlowClasses` and `Checksum`, instantiates `SmartQoSScheduler` |
| `DataPathProofs` | proofs: the pipeline's books, tables and voice; its parser; its classifier; the checksums | instantiates `SmartQoSSchedulerProofs` and `FlowClassifier`; `CountingLemmas` |
| `XskUmem` | the frame pool and the threads that use it | instantiates `SPSCRing` |
| `XskUmemProofs` | proofs: no frame is lost, doubled or in two hands | instantiates `SPSCRingProofs` |
| `Checksum` | whole, transport and incremental checksums | |
| `TelemetryServer` | daemon, request handlers and the page that polls them | |
| `CountingLemmas` | proofs: induction on numbers, arithmetic of counters that wrap, sums over finite sets and queues | |
| `MC...` | values of constants for TLC | |

Definitions whose comment begins with "Mutant of" are slips the code does not
have; each property of a run is violated when one of them replaces the
definition it mutates.

## 3. How the models correspond to the code

`PROJECT.json` maps every definition to its lines. The main decisions:

**SPSCRing.** `push` and `pop` are four actions each: own index, other index,
slot, store. An acquire load returns any value between the one the thread saw
last and the current one (`Observable`), which is what coherence allows;
program order of slot access and release store is what the memory orders
guarantee. Indices are taken modulo `Modulus`, a multiple of `Capacity` larger
than it, as 2^64 is. `size()` is an operator, since it changes nothing, and
`DepthReadings` evaluates it in every state a thread that owns an end can call it.

**VirtualNetDev.** `enqueue_rx` is the producer's steps of `SPSCRing` and then one
step that counts what `push` returned; `dequeue_rx` is the consumer's steps.
`enqueue_tx` and `dequeue_tx` are the same code on the other ring and the other
counters. The counters are as wide as the indices, as in the code, and plain:
only the enqueueing thread may touch them, which is what the model lets it do.

**WorkerPool.** A ring is used by the actions of `BoundedFifo`, which `SPSCRing`
is proved to implement: between the producer's call and its answer, and between
the copy out of a slot and its release, every other thread may move. A refusal
is allowed at any time, because a ring may look full to a stale view, and so is a
`pop` that finds nothing (`Yield`), because it may look empty to one. The
sorting that makes the hash symmetric is in the model; the mixing of the sorted
tuple is the constant `Hash`, so the result does not depend on it. `sent` and
`done` number packets per connection and are history. `owner` is what the owner's
thread is doing inside `start` and `stop` and the thread it has got to; `push` is
the packet `dispatch_packet` is pushing and the core it goes to. `stop` joins the
threads one by one; only when all are joined is the list cleared.
`Start` has no guard against a running pool, as `start()` has none; that the pool's
user starts only a stopped one is the assumption `StartStopped`, which the next-state
relation names. A second start would give every ring two consumers, against the
ring's contract; what then happens is not modelled, and everything said of the pool
is said under this assumption.

**SmartQoSScheduler.** Every method holds the mutex for its whole body and is
one action. A queued packet is its size. `dequeue` is three actions: strict
service, deficit service of the first class that can afford its packet
(with the deficits of the classes scanned before it), and the scan that serves
nothing but leaves its deficits behind. `total_latency_ms_` and the flag are
functions of bytes and rate, so the pair last measured stands for them.
`update_congestion_state` is public and takes no lock: `Refresh` lets anyone call
it between two other calls, on the assumption that nobody does so during one.
`deficits_` is signed with a width, counters are unsigned with a width.

**FQCoDel.** `enqueue` is one action. `dequeue` holds the mutex but is a loop
whose length is the point of a property, so each iteration is an action and
`pc` says which list it processes; other calls wait for `pc = "idle"`. The clock
is read once per call, so it ticks between calls only. `control_law` is integer
division by a square root, computed as the largest `d` with
`d * d * n <= Interval * Interval`. The delay threshold that ends dropping
(5.0 ms) and the target of the drop decision are the same number in the code and
the same constant here. Which flow a packet hashes to is left open.

**LPMTrie.** A node is the path to it. `insert_route` and `delete_route` are
single actions, for the class is not meant for concurrent use; a look-up takes
a step per bit so that its loop and its early break can be compared with the
declarative `RouteTable`. The text overload keeps what its conversions do: text
that is no address is address 0, a length is cut to its last eight bits, and text
without a slash has the full length.

**FlowClassifier.** One flow is followed, any of those given: flows share the
table and the next id only. `track_and_update` and `classify_flow` are an action
each, called in turn as main does. Windows, and the two features the decision
tree reads, are the code's; the deviation over the mean is compared with the
tree's thresholds in exact integer arithmetic (`RatiosReached`) where the code
uses floating point, so a ratio within rounding of a threshold may fall on the
other side; the sum of squared differences is rewritten as `Deviation / Len`, so
that no quotient occurs. `past` keeps the last packets beside the windows, to say what they
should hold.

**DataPath.** First the set-up that `main` makes once, here in any order and
repeated: programs and rules are attached and removed until `Start`. Then one
action per stage of the loop; `SmartQoSScheduler` is instantiated, and the stages
call its actions. Hook programs and filter rules are sequences searched for the
first hit, as in the code; a program is a function from packets to actions, a
rule the set of packets it matches. The packets of a flow have one size here, so
the mean size the decision tree reads is that size, or 0 for a new entry; the
burstiness is left open among what the number of packets allows. A packet whose
XDP action or verdict is not DROP goes on, `REJECT` and `ABORTED` included.
`loop_count` is the code's: it counts full iterations, decides when a snapshot is
taken and ends the loop at `LoopLimit`. Of a snapshot the model keeps the
differences the rates are made of, summed up in `reported`. The generator is any
frame of a mix; the generator of the demonstration is one such choice. Routes are
looked up but nothing reads the result, so it is left out, and so is printing.

**Packet.** A frame is the stack of headers it was sent with and the number of
them that are wholly in the buffer; a header that is cut off must be as good as
absent, which is what the size checks of `parse_headers` amount to and what
`ParserSound` asks of every path through it. Frames reach the loop of `DataPath`
through `ParseHeaders`. Addresses only tell flows apart, so metadata stand for
flows.

**XskUmem.** `alloc_frame` is `pop` of the free ring and `free_frame` its
`push`, so their steps are those of `SPSCRing`, stale views included. The class
says nothing of threads; its rings admit one producer and one consumer each, so
a receive thread allocates, a transmit thread frees, and frames pass between
them with synchronisation, without which their contents could not. What the
taker has then seen of `head_` is kept with each frame passed on (`Take`): it is
this that makes the unchecked `push` safe. The other rings have one user each
and nobody at the other end, so they are sets. `Init` is the state after the
constructor's pushes.

**Checksum.** Operators over bytes of `ByteBase` values: the unrolled and the
plain loops of the code are one sum over little-endian words, the two transport
checksums differ in the protocol number. `Folded` repeats the fold as the code
does, which matters where a fold carries again. Nothing in the program calls the
class, so no action of a module does: `DataPath` extends `Checksum` only to state
`ChecksumsAgree` beside `ParserSound`, for data of up to `DataLength` bytes and
segments of up to `SegmentLength`.

**TelemetryServer.** The daemon's sum reads one queue per step and its verdict is
a step of its own; a handler makes one write per step; the server handles one
request at a time, as `socketserver.TCPServer` does, and answers with a snapshot,
because `json.dumps` is a single call into C code under the interpreter lock.
The page's requests are slots; they are taken up, answered and drawn in any
order. Losing a request before or after it was handled covers refusals, errors
and a page without a server. Of the page the model keeps the alarm that
`renderTelemetry` draws and the simulated state behind it.

## 4. Runs

Every passing run is exhaustive for its instance; the number of distinct states
is in brackets.

| Run | Instance | Checks |
| --- | --- | --- |
| `SPSCRing` [73 882] | a device with 2 slots, 8 index values, 2 items | `RingInv`, `NoSlotRace`, `DepthReadings`, `DeviceCounts`, refinement of `BoundedFifo`, `Delivery` |
| `WorkerPool` [316 992] | 2 cores, 2 slots, 3 kinds of packets on 2 connections, both directions | `OneConsumer`, `InOrder`, `StopReturns`, `Progress` |
| `SmartQoS` [138 684] | 3 classes of depth 2, frames shorter and longer than the weights, 2 rates and a class out of range | `DeficitBounded`, `NoHiddenBloat`, `NoStarvation`, `Drains` |
| `SmartQoSFalse` | 2 classes | the comment on `dequeue`'s false: violated |
| `FQCoDel` [317 931] | 2 flows, frames longer than a quantum, a clock of several intervals | `BackloggedListed`, `AlarmHasCause`, `DeficitBounded`, `BytesMatch`, `ScheduleNear`, `FalseMeansEmpty`, `DropLeavesBacklog`, `DequeueReturns`, `Drains`, `OldFlowsShare` |
| `FQCoDelSchedule` | 1 flow | the comment on the drop schedule: violated |
| `DataPath` [133 736] | 7 frames that meet every verdict, plain, tagged and cut off, 5 classes, a transmit ring of 1, 4 iterations, a snapshot every 2; checksums on data of up to 8 bytes of one bit | `BooksBalance`, `TablesAgree`, `VoiceNeverWaits`, `ParserSound`, `ChecksumsAgree`, `SignalStops`, `LoopEnds` |
| `FlowClassifier` [24 378] | a UDP and a TCP flow, windows of 4, packets late, together, 7 and 20 microseconds apart, small and large | `PredictsRecent`, `SettlesToGaming` |
| `FlowClassifierNew` | the same | the comment on the gaming branch: violated |
| `LPMTrie` [219 732] | addresses of 2 bits, text lengths that fit, are cut down and are missing | `Connected`, `CountExact`, refinement of `RouteTable` |
| `XskUmem` [10 052] | 2 frames, 8 index values | `FrameConservation`, `KeepsAllocating` |
| `TelemetryServer` [269 897] | 2 queues, 2 requests, 1 failure | `AlarmHasCause`, `AlarmLasts` |

Why the bounds are enough to be interesting:

- *Ring.* Two slots is the smallest ring in which order and slots differ; with
  eight index values the indices wrap while the ring is empty, half full and
  full. For larger rings there are the proofs.
- *Pool.* Two cores and two connections are enough for two workers, for two
  connections with different cores and for two directions that an asymmetric
  hash would separate. A ring of two plus a packet in hand makes three packets
  in flight, fewer than the four packet numbers.
- *QoS.* Deficit round robin needs two deficit classes for one to delay the
  other. Against weights of 2 and 1, a frame of 3 needs several scans and one of 1
  none: class 1 can be served by every scan and starve class 2, its deficit grows
  until it wraps, and class 2 keeps its bound all the same. That the precondition of
  `NoStarvation` is needed was tried: without it, or with frames as long as the
  weight let through, TLC finds class 2 starving. The statistics have a width
  of one value here; `DataPath` and the proofs count them.
- *FQ-CoDel.* Two flows and three list entries allow a flow to be on both lists
  and twice on one. Two packets per flow, each longer than a quantum, put a flow in
  debt over several rounds; three ticks with an interval of one allow entering,
  staying in and leaving the dropping state.
- *Trie.* With two bits routes of length 0, 1 and 2 nest, siblings exist, and a
  deleted inner route lies on the way to a longer one.
- *Data path.* The mix has a frame for each way through the stages: dropped by
  the hook; aborted by it and rejected by the filter, and forwarded all the same;
  redirected; put into the voice class by a rule, with and without a tag; ARP; a
  TCP frame; and one cut off behind a tag, so that it has no metadata and the
  filter drops it. Programs and rules may be there or not, so each frame also
  passes without them. A flow is new, tracked and established in turn. Four
  iterations fill the transmit ring, wrap the counters twice and take two
  snapshots. `ParserSound` and `ChecksumsAgree` are about operators, not about
  states: they are stated for the initial state, and there for every frame and
  for all short data. Eight bytes of one bit are four words of two, enough for a
  fold that carries again.
- *Classifier.* A window of four is the shortest in which deviations reach all
  three thresholds, and slides over packets of every kind; the gaps reach every
  branch, the one that keeps an old ratio included. Sizes lie on both sides of
  each threshold's mean.
- *Frame pool.* Two frames, so that one is in use while the other is free, and
  each can be in any place; the indices wrap. `passed` counts how far a view of
  `head_` is behind up to the number of frames, which no view exceeds.
- *Telemetry.* A burst and a half lift the queues over the threshold with or
  without the bulk queue, and the bulk queue can be fuller than an injection
  leaves it. Two requests suffice for one answer to overtake another; a failure
  sends the page into its simulation, and the next answer brings it back.

The type invariant of a module is a conjunct of one of its safety invariants
(`RingInv`, `InOrder`, `NoHiddenBloat`, `BytesMatch`, `Connected`, `BooksBalance`,
`PredictsRecent`, `FrameConservation`, `AlarmHasCause` of the server).

Bounds that are not in the code (`MaxPackets`, `MaxListed`, `MaxClock` in
`FQCoDel`; `CountCap` in `DataPath` and `FlowClassifier`, above which no threshold
lies; `MaxFailures` and the number of `Slots` in `TelemetryServer`) restrict
actions of the environment or saturate a count; no guard of a handler depends
on them. Counters and indices have the code's wrap-around at a smaller width;
the metrics `rx` and `bytes` are counted in full, up to `LoopLimit`.

`CHECK_DEADLOCK` is left on everywhere: the schedulers, the ring, the worker pool
and the trie can always be called again, the daemon ticks for ever, frames in the
two rings nobody serves leave `alloc_frame` to be tried in vain, and the end of `DataPath` is an explicit
stuttering step.

## 5. Fairness

- `SPSCRing`: the consumer polls (weak fairness), and a store to `tail_`
  becomes visible to a consumer that loads it again and again (strong fairness
  of loading the current value), as the C++ standard asks of implementations.
  The producer is under no obligation.
- `WorkerPool`: the operating system runs the owner inside `start` and `stop`
  and every worker (weak fairness). A `pop` may fail on a ring that has packets, but a
  worker that keeps trying succeeds in the end (strong fairness of `Finds`): this is
  what the visibility of stores to `tail_`, assumed for `SPSCRing`, gives a ring that
  only this worker empties. Without it `Progress` fails. Calls and packets may cease at any time.
- `SmartQoSScheduler`, `FQCoDel`: somebody keeps calling `dequeue`, as the
  transmit step of every iteration in `src/main.cpp` does, and a thread inside it keeps
  running. Nothing is assumed of arrivals; where a property needs them to cease
  it says so.
- `DataPath`: the main thread runs. A signal need not come; `LoopEnds` holds
  without one.
- `FlowClassifier`: packets keep coming and are classified when tracked.
- `XskUmem`: the class has no caller, so its fairness is that of a user who
  returns what he takes: the receive thread keeps calling `alloc_frame` and passes
  frames on between calls, the transmit thread takes and frees, and stores to
  `tail_` become visible. Nobody need hand frames to the kernel's rings.
- `TelemetryServer`: the daemon and the server thread run, the page's timer
  ticks, and an answer that is not lost is drawn in the end. Requests may be
  taken up in any order, one of them never. That failures end is `MaxFailures`:
  a page that cannot reach its server shows its simulation, and rightly so.

## 6. Proofs

`tlapm` proves the following for every value of the constants that satisfies the
named assumptions of the module (`RingAssumption`, `PoolAssumption`,
`QoSAssumption`, `FQCoDelAssumption`, `TrieAssumption`, `UmemAssumption` and
`FreeRingAssumption`, `DataPathAssumption` and `SchedulerAssumption`,
`ClassifierAssumption`, `ChecksumAssumption`, `TelemetryAssumption`). They say what kind of thing a constant is, that the ring's
capacity divides the range of its indices, that the main loop's five classes are
queues of the scheduler, that caps on counts lie above the thresholds, and that
a queue saturated by an injection is over the threshold of the alarm.
Together the theorems cover every safety property of the passing runs.

**CountingLemmas.** What several proofs need: induction over the naturals, stated
for a set closed under the successor and derived from well-foundedness; the
remainders of counters that wrap (`Division`, `ModAdd`); and what `SumFunction` of
the community modules computes: a sum over a finite set does not depend on the order
in which it picks the elements, changes by what one summand changes by
(`SumChange`), grows with its parts (`SumMonotone`), may be taken in two parts
(`SumInParts`), and over a queue it is the head and the sum of the tail (`SumQueue`).

**SPSCRingProofs.** `NoSlotRace` is not inductive: that the writer's slot and
the reader's differ follows from how far each thread's *view* of the other's
index can lag. `RingInv` says it: seen from `tail_`, the producer's view of
`head_` is at most `Capacity` behind and never ahead of the true `head_`; the
consumer's view of `tail_` lies between `head_` and `tail_`; and a thread past
its check still has the room, or the item, the check found. The proof
(`RingInvariant`) carries these through every access, with a small theory of
distances modulo `Modulus` (`DistanceVal`, `StaleHead`, `StaleTail`,
`AdvanceTail`, `AdvanceHead`). `NoRace` then uses that `Capacity` divides
`Modulus`: two indices less than `Capacity` apart, also across the wrap, have
different slots (`SlotsDiffer`). `RingIsFifo` is the refinement of `BoundedFifo`:
the abstract queue is the window of slots from `head_` to `tail_`; a write goes
outside it (`WriteOutside`), the store to `tail_` appends (`PublishAppends`), the
store to `head_` releases (`PublishReleases`), and every other access is a stutter.
`DepthIsConservative` reads `size()` off the same views. `DeviceUsesRing` shows that
`VirtualNetDev` only adds to the ring, so all of this holds inside a device;
`DeviceCountsRight` proves its counters, which lag by the packet being counted.

**XskUmemProofs.** The unchecked `push` of `free_frame` cannot fail, and no frame
is in two hands. `UmemInv` (`UmemInvariant`) takes `RingInv` from `SPSCRingProofs` (the free ring is
an instance) and adds where the frames are: each in exactly one place
(`OnePlace`). That alone is not inductive, since the transmit thread may believe
frames in the ring that have long left it: the frames in its *view* are all
different and none is among those it holds, queued or is freeing
(`DistinctInView`, `NotBeingFreed`), which survives taking a frame because the taker
has seen the store that released it (`PassedBehind`). `NumFrames` frames in
different places leave a slot for the one being freed. `FramesConserved` follows.

**WorkerPoolProofs.** `ThreadsInv`: the thread at place `t` serves core `t - 1`, and
there are as many threads as the owner has started and not cleared; this needs that
`Clear` finds every thread joined. `RingsHaveOneConsumer` follows. For
`PacketsStayInOrder` the invariant adds that a packet being copied out is still
at the head of its ring (`HandInv`), that a push goes to the core of its
connection (`PushInv`) and that the line of a core holds only its own connections,
each with its unbroken run of numbers (`OrderInv`); `PoolInvariant` is all of it. Acceptance adds to the
end of one run, the metrics take from its front; the lemmas on `Own` count how
many packets of a connection precede a position. Nothing is asked of `Hash`
but that it gives numbers. `RingsUsedAsPromised` justifies modelling a ring by its
promise: for the ring of every core (`Ring(c)`), a step of the pool offers, accepts,
refuses, fetches or releases as `BoundedFifo` says, or is none of its business. What is
offered is the push under way if it is bound for that core (`Offered`), what is fetched
the packet its worker has copied and not yet released (`Fetched`). The two-thread
discipline that `RingIsFifo` of SPSCRingProofs assumes thus survives every stop and
every start of a stopped pool.

**SmartQoSSchedulerProofs.** `TypeCorrect`; `StatisticsAccount`: enqueued equals
dequeued plus queued modulo the counters' width; `CreditBounded`: the deficit of a
class whose frames are at least as long as its weight (`FramesCover`) and fit
`int32_t` together with it (`CreditFits`) does not exceed the largest packet or go
below zero, so it never wraps, whatever the other classes carry. The two conditions
are part of `DeficitBounded`; the class checks neither. The weights of the deficit classes in the
code are at most 60, the length of a padded Ethernet frame, so such traffic meets
them; shorter buffers, which `enqueue` accepts, do not. `BloatNeverHidden`: the
flag and the delays belong to the bytes last measured, and since then bytes have
only been taken away (`MeasuredRight`); the delay of a backlog grows with it
(`BacklogMonotone`), so at the same rate what is queued now cannot exceed the
threshold unless what was measured did.

**FQCoDelProofs.** `Lists` (`ListsCorrect`) is the invariant by which `dequeue` navigates: the old
list is processed only when the new one is used up. From it and the guard of
`enqueue`, `BacklogListed`: a flow with packets is on a list. `FalseIsEmpty` is
its consequence for the return value, `DeficitsBounded` bounds credit and debt.
`TypeCorrect` includes the control law: the integer root exists and lies between
0 and `Interval` for every count (`RootExists`, `RootInInterval`), which is why
`DeadlinesNear` holds: a deadline moves by at most one interval, and only when it
has been reached. `BytesAlwaysMatch` relates the unsigned count to the queue, with
the candidate charged before CoDel looks; `DropsLeaveBacklog` follows, since what
remains when CoDel drops is at least a quantum. `AlarmCaused` follows each store
to the alarm. None depends on the bounds of the model.

**TrieTelemetryProofs.** Two components that share nothing with the others or with each
other. *The trie*: `IInv` adds to `Connected` (`TrieConnected`) what a look-up under way knows: its
node exists and `best_match` is the longest match among the prefixes passed so
far. With it `TrieImplementsTable` maps every step to a step of `RouteTable` or
to a stutter; the early break is right because beyond a missing child there is
no node, hence no route. `CountIsExact` counts entries of a finite set. *The
server's alarms*: `AlarmHasCause` is not inductive, since a daemon half way through
its sum holds a number that belongs to no moment. `SumCaused` says what it is worth:
what has been added up is at most what the queues read so far hold by now, unless
the queues are overloaded by now. A burst only adds to a queue (`OccupancyGrows`);
an injection may take away from the bulk queue, but what it leaves is over the
threshold by itself (`OneOverloads`), so overload, once there, stays. `HandlerRight` adds that
the handler in the middle of an injection has written the cause before the flag, and
that the request in hand has not been answered, failed or replaced meanwhile.
`AlarmsCaused` follows for any number of queues and requests. (`TelemetryServer` is
an instance there, with its assumption as the hypothesis of the theorem.)

**DataPathProofs.** *The parser*, for frames of every size: `ParserReadsBuffer` by
cases on where the frame is cut off, `ParserSkipsTag` by comparing the two frames
header by header, and `ParserAlwaysSound`, which adds that the classifier's answer
agrees. *The pipeline*: `DataInv` (`DataInvariant`) carries the books through the stages. Between two
iterations they balance, within one they do not, so the invariant says by
how much: the packet in flight the hook has counted and nobody else (`HookRight`),
the one received and not yet looped (`LoopRight`), the one classified and not
enqueued (`ClassesRight`), the flow that is in one table only (`TablesRight`), the one
voice packet in its queue (`VoiceRight`). The scheduler is the instance the model
uses, and what it contributes, types and accounts, is cited from
`SmartQoSSchedulerProofs`. `BooksAlwaysBalance`, `TablesAlwaysAgree` and
`VoiceNeverLeftWaiting` follow, for every set-up, mix of frames, limit and counter
width. *The classifier*, `FlowClassifier` instantiated for the pipeline's flows:
`WindowsRight` says what the two windows hold, the one of intervals a place behind
the one of sizes until the first packet leaves (`Lag`), and `FeaturesRight` that
the features belong to them; `PredictionsRecent` is `PredictsRecent`. `ClassifierFits`
justifies what `DataPath` leaves out: when all packets of a flow have one size, as
they do there, the detailed classifier counts as `DataPath` counts, and its
prediction is one that `DataPath` allows. *The checksums*, for data of any length and
bytes of any size (`ChecksumsOfAnyLength`, from which `ChecksumsAlwaysAgree`):
an addition that carries around does not change a sum modulo `WordBase - 1`
(`Congruent`), and gives zero for zero only. Each sum has exactly one word with these two
properties (`OneWord`), so the choice of it satisfies the equation of `Folded`: the
recursive function exists (`FoldExists`), and by induction on the sum it is this
choice (`FoldedWord`). A checksum is thereby known by what it is congruent to
(`ChecksumMeans`); rewriting a word takes the old one out of the sum and puts the
new one in (`AddedRewritten`), which is what the incremental update adds
(`UpdateRight`, and twice for an address: `Update32Right`); a checksum put where zeros
were counted makes the sum a full turn (`VerifyRight`); and a pseudo header is of
even length, so that no word straddles it and the data (`AddedConcat`).

Only model-checked:

- liveness under fairness (`Delivery`, `StopReturns`, `Progress`, `NoStarvation`,
  `Drains`, `DequeueReturns`, `OldFlowsShare`, `SignalStops`, `LoopEnds`,
  `SettlesToGaming`, `KeepsAllocating`, `AlarmLasts`), which is outside the prover's
  reach;
- the findings: a violation is shown by a behaviour, which is what TLC gives.

## 7. What the checks found

Three comments say what the code does not do:

- `src/qos/smart_scheduler.cpp:78`, "All queues empty": `dequeue` also returns
  false when no class can afford its first packet yet. Each such call raises the
  deficits, so a caller that goes on calling gets the packet (`Drains`). In the
  main loop such an iteration transmits nothing.
- `src/qos/fq_codel.cpp:50`, "Inverse square root drop schedule": the schedule is
  computed and only decides whether `count` grows. Once a flow has been above
  target for an interval every packet of it is dropped until it is back in
  control.
- `src/qos/flow_classifier.cpp:103`, "Small UDP packets": the first packet of a UDP
  flow is classified before any feature is computed, from a mean size of 0, and
  goes to the gaming queue whatever its size (`GamingIsSmall`). From the second
  packet on the prediction follows the window (`PredictsRecent`).

Other facts worth knowing, which contradict no text and so are not findings:
a class of the QoS scheduler with frames shorter than its weight saves up credit
until `int32_t` wraps (`DeficitBounded` excepts it), and one with frames no longer than
it is served on every call while it has any and starves the classes after it
(`NoStarvation` names this as the only way to starve; class 1 with frames of 60 bytes
is such a case); starting a running worker pool gives every ring a second consumer; a flow of FQ-CoDel may lose all
its turns to drops, and one flow's recovery switches off an alarm another still
causes; main's transmit counter includes packets `wlan0` dropped, and nothing
drains that ring; a packet the main loop drops does not advance the counter its
generator works from, so it would be generated again and the loop would not end by
its limit (`LoopEnds`); packets the scheduler drops at the tail are in its own
statistics but not in the metrics' drop counter; neither the connection nor the
flow table ever loses an entry; when every packet of a window came at the same
microsecond a flow keeps the burstiness of an earlier window; the device's counters
are not atomic, and `size` read by a third thread can return any value; frames given to the fill
and transmit rings of the pool never come back; an alarm just injected may be
gone from the next answer and back a second later; an update of a checksum may
leave +0 where recomputation gives -0. The classifier's comments name port 123
and a limit of 250 bytes (`src/qos/flow_classifier.cpp:94` and `:103`) where the code
has no such port and 300.

## 8. Not modelled

- Of the parser: addresses, payload size, string conversions; nothing modelled
  depends on them.
- Of the telemetry server: rates, latencies and core loads, which every tick
  redraws and nothing in the server reads back but the tick itself (an answer
  may mix those of two ticks); the total of drops; the lists of flows and packets,
  which never change. Of the dashboard: drawing, the chart, and the packet list,
  fetched once, with the selection in it. Server and page are "partly" modelled
  for this reason: what is left out decides none of what is kept.
- `get_stats`, `get_active_flows`, `ip_to_string` and their kind: they copy and
  format. The averages and percentages of `snapshot` are computed from the
  modelled counters for printing.
- Of the frame pool: the dequeues of the receive and completion rings, which
  nothing fills, so that they always return false.
- The structures of a two-level table in `lpm_trie.hpp`, which no code uses.
- The mixing of the RSS and FQ-CoDel hashes: any placement of flows is allowed.
- The generator of `main.cpp`: any frame may arrive. The `is_drop` mark, the cycle
  count of the hook and a route's egress interface are written and never read.
- Destructors, thread pinning, hugepages, alignment, time measurement.
- `ml/`, `benchmarks/`, `tests/`: offline scripts; the tests re-implement the
  algorithms in Python and do not run the engine.
- Pages, style sheets, build, container and CI files.

## 9. Plan

Done: every component with state is modelled and checked, and every safety property
that a passing run checks is proved, from the assumptions section 6 lists; so is
that the worker pool uses its rings as the ring's own proof requires.

Left: models of the rates of the telemetry server and of the packet list of the page.
