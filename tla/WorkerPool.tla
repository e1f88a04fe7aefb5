----------------------------- MODULE WorkerPool -----------------------------
(***************************************************************************)
(* The multi-core pipeline of src/core/worker_pool.cpp: a producer thread  *)
(* dispatches packets to per-core rings by a symmetric flow hash           *)
(* (src/core/rss_dispatcher.cpp), one worker thread per core drains its    *)
(* ring, and an owner thread starts and stops the workers.  Each ring is   *)
(* used as the BoundedFifo that SPSCRing implements: offer, then accept or *)
(* refuse; fetch, then release.                                            *)
(*                                                                         *)
(* The packets of a connection, in both directions, are numbered as they   *)
(* are accepted.  The numbers, sent and done are history: they make order  *)
(* and loss visible and the program does not have them.                    *)
(***************************************************************************)
EXTENDS Integers, Sequences, FiniteSets

CONSTANTS
  NumWorkers,     \* num_workers_, at least 1 whatever the constructor was given
  Capacity,       \* slots of a worker ring (1024)
  Headers,        \* the packets that may arrive: addresses, ports, protocol, size
  Hash(_),        \* the mixing steps of compute_rss_hash, on the sorted tuple
  Modulus         \* number of values of a metric (2^64) and of a packet number

Cores == 0 .. NumWorkers - 1

VARIABLES
  running_,
  threads,        \* worker_threads_: core, place in worker_loop, packet in hand
  owner,          \* the owner thread: what it is doing, and the next to spawn or to join
  rings,          \* worker_rings_
  push,           \* the push of dispatch_packet under way: core and header, or NoPush
  processed_packets, total_bytes,   \* metrics_
  sent, done      \* number of the next packet of a connection to be accepted, processed

ownerVars == <<running_, owner>>
metrics == <<processed_packets, total_bytes>>
vars == <<ownerVars, threads, rings, push, metrics, sent, done>>

\* Addresses and ports are sorted separately, so that both directions of a
\* connection hash alike.
Sorted(x, y) == IF x <= y THEN <<x, y>> ELSE <<y, x>>
OneWay(h) == <<h.src_ip, h.dest_ip, h.src_port, h.dest_port, h.l3_proto>>
Connection(h) ==
  Sorted(h.src_ip, h.dest_ip) \o Sorted(h.src_port, h.dest_port) \o <<h.l3_proto>>
Connections == {Connection(h) : h \in Headers}

ASSUME PoolAssumption ==
  /\ NumWorkers \in Nat \ {0} /\ Capacity \in Nat \ {0} /\ Modulus \in Nat \ {0}
  /\ Headers \subseteq [src_ip : Nat, dest_ip : Nat, src_port : Nat,
                        dest_port : Nat, l3_proto : Nat, size : Nat]
  /\ \A h \in Headers : Hash(Connection(h)) \in Nat

\* Mutant of DispatchCore: the hash of the tuple as it stands.
DispatchCoreOneWay(h) == Hash(OneWay(h)) % NumWorkers

DispatchCore(h) == Hash(Connection(h)) % NumWorkers

Packets == [header : Headers, number : 0 .. Modulus - 1]
NoPacket == << >>
NoPush == << >>
Idle == [doing |-> "idle", next |-> 0]
Bump(n, by) == (n + by) % Modulus

-----------------------------------------------------------------------------
Init ==
  /\ running_ = FALSE
  /\ threads = << >>
  /\ owner = Idle
  /\ rings = [c \in Cores |-> << >>]
  /\ push = NoPush
  /\ processed_packets = [c \in Cores |-> 0]
  /\ total_bytes = [c \in Cores |-> 0]
  /\ sent = [k \in Connections |-> 0]
  /\ done = [k \in Connections |-> 0]

\* Owner thread: start(), which does not look whether the pool is running.
Start ==
  /\ owner.doing = "idle"
  /\ running_' = TRUE
  /\ owner' = [doing |-> "spawn", next |-> 0]
  /\ UNCHANGED <<threads, rings, push, metrics, sent, done>>

\* emplace_back of a thread, which runs from now on.
Spawn ==
  /\ owner.doing = "spawn"
  /\ LET c == owner.next IN
       /\ threads' = Append(threads, [core |-> c, at |-> "test", pkt |-> NoPacket])
       /\ owner' = IF c + 1 < NumWorkers THEN [owner EXCEPT !.next = c + 1] ELSE Idle
  /\ UNCHANGED <<running_, rings, push, metrics, sent, done>>

Stop ==
  /\ owner.doing = "idle"
  /\ running_' = FALSE
  /\ owner' = [doing |-> "join", next |-> 1]
  /\ UNCHANGED <<threads, rings, push, metrics, sent, done>>

\* How the pool is used, not what the class enforces: a running pool is not started.
StartStopped == ~running_ /\ Start

Exited(t) == threads[t].at = "exited"

Join ==
  /\ owner.doing = "join" /\ owner.next <= Len(threads)
  /\ Exited(owner.next)
  /\ owner' = [owner EXCEPT !.next = @ + 1]
  /\ UNCHANGED <<running_, threads, rings, push, metrics, sent, done>>

\* Mutant of AllJoined: the threads are detached, not joined.
AllDetached == TRUE

AllJoined == owner.next > Len(threads)

\* worker_threads_.clear(); stop() returns.  Threads still in worker_loop would run on.
Clear ==
  /\ owner.doing = "join" /\ AllJoined
  /\ threads' = IF \A t \in DOMAIN threads : Exited(t) THEN << >> ELSE threads
  /\ owner' = Idle
  /\ UNCHANGED <<running_, rings, push, metrics, sent, done>>

Owner == Spawn \/ Join \/ Clear

\* Producer thread: dispatch_packet picks a core and calls push.
Dispatch(h) ==
  /\ push = NoPush
  /\ push' = [core |-> DispatchCore(h), header |-> h]
  /\ UNCHANGED <<ownerVars, threads, rings, metrics, sent, done>>

\* push returns true.
Accept ==
  /\ push # NoPush
  /\ LET c == push.core
         k == Connection(push.header)
     IN /\ Len(rings[c]) < Capacity
        /\ rings' = [rings EXCEPT ![c] =
                       Append(@, [header |-> push.header, number |-> sent[k]])]
        /\ sent' = [sent EXCEPT ![k] = Bump(@, 1)]
  /\ push' = NoPush
  /\ UNCHANGED <<ownerVars, threads, metrics, done>>

\* push returns false, and with it dispatch_packet; dropped_packets is not touched.
Refuse ==
  /\ push # NoPush
  /\ push' = NoPush
  /\ UNCHANGED <<ownerVars, threads, rings, metrics, sent, done>>

-----------------------------------------------------------------------------
\* Worker thread t in worker_loop.
At(t, from, to) ==
  /\ threads[t].at = from
  /\ threads' = [threads EXCEPT ![t].at = to]

\* while (running_)
Test(t) ==
  /\ At(t, "test", IF running_ THEN "pop" ELSE "exited")
  /\ UNCHANGED <<ownerVars, rings, push, metrics, sent, done>>

\* Mutant of OnEmpty: the loop ends with the first pop that fails.
OnEmptyExit == "exited"

\* Where a pop that fails sends the worker.
OnEmpty == "test"

\* pop returns false, on an empty ring or for a stale view of tail_.
Yield(t) ==
  /\ At(t, "pop", OnEmpty)
  /\ UNCHANGED <<ownerVars, rings, push, metrics, sent, done>>

\* pop copies the packet out of its slot ...
Fetch(t) ==
  /\ threads[t].at = "pop"
  /\ rings[threads[t].core] # << >>
  /\ threads' = [threads EXCEPT ![t].at = "release",
                                ![t].pkt = Head(rings[threads[t].core])]
  /\ UNCHANGED <<ownerVars, rings, push, metrics, sent, done>>

\* ... and releases the slot.
Release(t) ==
  /\ rings[threads[t].core] # << >>
  /\ At(t, "release", "count")
  /\ rings' = [rings EXCEPT ![threads[t].core] = Tail(@)]
  /\ UNCHANGED <<ownerVars, push, metrics, sent, done>>

CountPacket(t) ==
  /\ At(t, "count", "bytes")
  /\ processed_packets' = [processed_packets EXCEPT ![threads[t].core] = Bump(@, 1)]
  /\ UNCHANGED <<ownerVars, rings, push, total_bytes, sent, done>>

\* Mutant of OnCounted: straight to the next pop while there are packets.
OnCountedPop(t) == IF rings[threads[t].core] = << >> THEN "test" ELSE "pop"

\* Where a counted packet sends the worker.
OnCounted(t) == "test"

CountBytes(t) ==
  /\ At(t, "bytes", OnCounted(t))
  /\ LET h == threads[t].pkt.header IN
       /\ total_bytes' = [total_bytes EXCEPT ![threads[t].core] = Bump(@, h.size)]
       /\ done' = [done EXCEPT ![Connection(h)] = Bump(@, 1)]
  /\ UNCHANGED <<ownerVars, rings, push, processed_packets, sent>>

WorkerLoop(t) ==
  Test(t) \/ Yield(t) \/ Fetch(t) \/ Release(t) \/ CountPacket(t) \/ CountBytes(t)

Worker(c) == \E t \in DOMAIN threads : threads[t].core = c /\ WorkerLoop(t)

Next ==
  \/ StartStopped \/ Stop \/ Owner
  \/ \E h \in Headers : Dispatch(h)
  \/ Accept \/ Refuse
  \/ \E c \in Cores : Worker(c)

Spec == Init /\ [][Next]_vars

\* The worker of core c finds a packet.
Finds(c) == \E t \in DOMAIN threads : threads[t].core = c /\ Fetch(t)

\* The operating system runs every thread: workers are never blocked, and the
\* owner is blocked only in join.  A store to tail_ becomes visible in the end, so
\* a worker that keeps popping a ring with packets does not fail for ever.  Nobody
\* promises calls or packets.
FairSpec ==
  /\ Spec
  /\ WF_vars(Owner)
  /\ \A c \in Cores : WF_vars(Worker(c)) /\ SF_vars(Finds(c))

-----------------------------------------------------------------------------
Places == {"test", "pop", "release", "count", "bytes", "exited"}

\* Types, part of InOrder.
TypeOK ==
  /\ running_ \in BOOLEAN
  /\ threads \in Seq([core : Cores, at : Places, pkt : Packets \cup {NoPacket}])
  /\ owner \in [doing : {"idle", "spawn", "join"}, next : 0 .. NumWorkers + 1]
  /\ rings \in [Cores -> Seq(Packets)] /\ \A c \in Cores : Len(rings[c]) <= Capacity
  /\ push \in [core : Cores, header : Headers] \cup {NoPush}
  /\ processed_packets \in [Cores -> 0 .. Modulus - 1]
  /\ total_bytes \in [Cores -> 0 .. Modulus - 1]
  /\ sent \in [Connections -> 0 .. Modulus - 1]
  /\ done \in [Connections -> 0 .. Modulus - 1]

\* The rings are single-consumer, provided only a stopped pool is started (which the
\* class leaves to its user): wherever a stop meets the workers and however soon a
\* start follows, no two threads that have not left worker_loop drain the same ring.
OneConsumer ==
  \A t, u \in DOMAIN threads :
    threads[t].core = threads[u].core /\ ~Exited(t) /\ ~Exited(u) => t = u

\* What a core's worker holds beyond its ring, oldest first.
InHand(c) ==
  LET holding == {t \in DOMAIN threads :
                    threads[t].core = c /\ threads[t].at \in {"count", "bytes"}}
  IN IF holding = {} THEN << >> ELSE <<threads[CHOOSE t \in holding : TRUE].pkt>>

\* What core c has accepted and not processed, oldest first.
Line(c) == InHand(c) \o rings[c]

\* Which of the first n packets of line q belong to connection k.
Own(k, q, n) == {i \in 1 .. n : Connection(q[i].header) = k}

\* The packets of k in line q are numbered from done to sent without a gap.
Consecutive(k, q) ==
  /\ \A i \in Own(k, q, Len(q)) :
       q[i].number = Bump(done[k], Cardinality(Own(k, q, i - 1)))
  /\ sent[k] = Bump(done[k], Cardinality(Own(k, q, Len(q))))

\* Every accepted packet is processed exactly once and, within a connection
\* and counting both its directions, in the order of acceptance: a connection stays
\* on one core, where what is between dispatch and the metrics is the unbroken run of
\* numbers from done to sent.  Stopping and restarting the workers loses none of it.
InOrder ==
  /\ TypeOK
  /\ \A k \in Connections : \E c \in Cores :
       /\ Consecutive(k, Line(c))
       /\ \A d \in Cores \ {c} : Own(k, Line(d), Len(Line(d))) = {}

\* stop() returns, even while packets keep arriving.
StopReturns == (owner.doing = "join") ~> (owner.doing = "idle")

\* While the pool is left running, no accepted packet waits for ever, however often
\* a pop fails for a stale view of tail_.
Progress ==
  <>[]running_ =>
    \A k \in Connections :
      []<>(done[k] = sent[k]) \/ []<><<done[k]' # done[k]>>_vars
=============================================================================
