-------------------------- MODULE WorkerPoolProofs --------------------------
(***************************************************************************)
(* Proofs about WorkerPool, for every number of workers, every capacity,   *)
(* every set of headers and every hash of their connections; the last one  *)
(* ties the pool to BoundedFifo, which SPSCRing implements.                *)
(***************************************************************************)
EXTENDS WorkerPool, CountingLemmas, SequenceTheorems, FiniteSetTheorems, TLAPS

\* A thread, as a record.
ThreadType == [core : Cores, at : Places, pkt : Packets \cup {NoPacket}]

\* The threads are those of cores 0, 1, ...: all of them while the pool runs,
\* none while it rests, those spawned so far while it starts; while it stops,
\* those joined have left worker_loop.
ThreadsInv ==
  /\ \A t \in DOMAIN threads : threads[t].core = t - 1
  /\ Len(threads) <= NumWorkers
  /\ owner.doing = "idle" => IF running_ THEN Len(threads) = NumWorkers
                                         ELSE Len(threads) = 0
  /\ owner.doing = "spawn" => running_ /\ Len(threads) = owner.next /\ owner.next < NumWorkers
  /\ owner.doing = "join" =>
       /\ ~running_ /\ owner.next <= Len(threads) + 1
       /\ \A t \in DOMAIN threads : t < owner.next => Exited(t)

-----------------------------------------------------------------------------
(* Types. *)

\* A counter of the program, or a packet number, stays in its range.
LEMMA BumpType ==
  ASSUME NEW n \in Nat, NEW by \in Nat
  PROVE  Bump(n, by) \in 0 .. Modulus - 1
<1>1. n + by \in Int /\ Modulus \in Nat \ {0}
  BY PoolAssumption
<1> HIDE DEF Bump
<1> DEFINE x == n + by
<1>2. x \in Int
  BY <1>1
<1> HIDE DEF x
<1>3. x % Modulus \in 0 .. Modulus - 1
  BY <1>1, <1>2
<1> QED BY <1>3 DEF Bump, x

\* A header names a connection, a core and a size.
LEMMA CoreOf ==
  ASSUME NEW h \in Headers
  PROVE  /\ Connection(h) \in Connections
         /\ DispatchCore(h) \in Cores
         /\ h.size \in Nat
<1>1. Connection(h) \in Connections
  BY DEF Connections
<1>2. Hash(Connection(h)) \in Nat /\ NumWorkers \in Nat \ {0}
  BY PoolAssumption
<1> DEFINE x == Hash(Connection(h))
<1>3. x \in Nat
  BY <1>2
<1> HIDE DEF x
<1>4. x % NumWorkers \in 0 .. NumWorkers - 1
  BY <1>2, <1>3
<1>5. h.size \in Nat
  BY PoolAssumption
<1> QED BY <1>1, <1>4, <1>5 DEF DispatchCore, Cores, x

\* The parts of TypeOK.
OwnerTyped ==
  running_ \in BOOLEAN /\ owner \in [doing : {"idle", "spawn", "join"}, next : 0 .. NumWorkers + 1]
\* The threads are records, ...
ThreadsTyped == threads \in Seq(ThreadType)
\* ... the rings bounded queues of packets, ...
RingsTyped == rings \in [Cores -> Seq(Packets)] /\ \A c \in Cores : Len(rings[c]) <= Capacity
\* ... the push under way a packet for a core, ...
PushTyped == push \in [core : Cores, header : Headers] \cup {NoPush}
\* ... and counters and packet numbers within their width.
MetricsTyped == /\ processed_packets \in [Cores -> 0 .. Modulus - 1]
                /\ total_bytes \in [Cores -> 0 .. Modulus - 1]
NumbersTyped == /\ sent \in [Connections -> 0 .. Modulus - 1]
                /\ done \in [Connections -> 0 .. Modulus - 1]

\* All of them together.
TypeParts ==
  OwnerTyped /\ ThreadsTyped /\ RingsTyped /\ PushTyped /\ MetricsTyped /\ NumbersTyped

\* The type invariant is the conjunction of its parts.
LEMMA TypeIsItsParts == TypeOK <=> TypeParts
BY DEF TypeOK, TypeParts, OwnerTyped, ThreadsTyped, RingsTyped, PushTyped, MetricsTyped,
       NumbersTyped, ThreadType

\* The steps of the threads, one by one.
LEMMA Steps ==
  ASSUME [Next]_vars
  PROVE  \/ (~running_ /\ Start) \/ Stop \/ Spawn \/ Join \/ Clear
         \/ \E h \in Headers : Dispatch(h)
         \/ Accept \/ Refuse
         \/ \E t \in DOMAIN threads :
              Test(t) \/ Yield(t) \/ Fetch(t) \/ Release(t) \/ CountPacket(t) \/ CountBytes(t)
         \/ UNCHANGED vars
BY DEF Next, StartStopped, Owner, Worker, WorkerLoop

\* The workers share with the owner nothing but the threads, and the owner and
\* the workers leave the push alone.
LEMMA WorkerSteps ==
  ASSUME NEW t \in DOMAIN threads, WorkerLoop(t)
  PROVE  UNCHANGED <<running_, owner, push, sent>>
BY DEF WorkerLoop, Test, Yield, Fetch, Release, CountPacket, CountBytes, ownerVars

\* start and stop leave rings, counters and numbers alone.
LEMMA OwnerSteps ==
  ASSUME Start \/ Stop \/ Spawn \/ Join \/ Clear
  PROVE  UNCHANGED <<rings, push, processed_packets, total_bytes, sent, done>>
BY DEF Start, Stop, Spawn, Join, Clear, metrics

\* dispatch_packet leaves the threads and what they count alone.
LEMMA ProducerSteps ==
  ASSUME Accept \/ Refuse \/ \E h \in Headers : Dispatch(h)
  PROVE  UNCHANGED <<running_, owner, threads, processed_packets, total_bytes, done>>
BY DEF Accept, Refuse, Dispatch, ownerVars, metrics

\* Thread t moves on in worker_loop, and may take a packet in hand.
LEMMA ThreadMoves ==
  ASSUME ThreadsTyped, NEW t \in DOMAIN threads,
         NEW at \in Places, NEW p \in Packets \cup {NoPacket},
         \/ threads' = [threads EXCEPT ![t].at = at] /\ p = threads[t].pkt
         \/ threads' = [threads EXCEPT ![t].at = at, ![t].pkt = p]
  PROVE  /\ threads' \in Seq(ThreadType)
         /\ Len(threads') = Len(threads) /\ DOMAIN threads' = DOMAIN threads
         /\ threads'[t].at = at /\ threads'[t].pkt = p
         /\ threads'[t].core = threads[t].core
         /\ \A u \in DOMAIN threads : u # t => threads'[u] = threads[u]
<1>1. /\ threads \in Seq(ThreadType) /\ DOMAIN threads = 1 .. Len(threads)
      /\ Len(threads) \in Nat
  BY LenProperties DEF ThreadsTyped
<1>2. threads[t] \in ThreadType
  BY <1>1, ElementOfSeq
<1> DEFINE v == [core |-> threads[t].core, at |-> at, pkt |-> p]
<1>3. v \in ThreadType
  BY <1>2 DEF ThreadType
<1>4. threads' = [threads EXCEPT ![t] = v]
  <2>1. CASE threads' = [threads EXCEPT ![t].at = at] /\ p = threads[t].pkt
    <3>1. [threads[t] EXCEPT !.at = at] = v
      BY <1>2, <2>1 DEF ThreadType
    <3> QED BY <3>1, <2>1
  <2>2. CASE threads' = [threads EXCEPT ![t].at = at, ![t].pkt = p]
    <3> DEFINE w == [core |-> threads[t].core, at |-> at, pkt |-> threads[t].pkt]
    <3>1. [threads[t] EXCEPT !.at = at] = w
      BY <1>2 DEF ThreadType
    <3>2. [w EXCEPT !.pkt = p] = v
      OBVIOUS
    <3> HIDE DEF w, v
    <3>3. [threads[t] EXCEPT !.at = at, !.pkt = p] = v
      BY <3>1, <3>2, Zenon
    <3> QED BY <3>3, <2>2
  <2> QED BY <2>1, <2>2
<1>5. v.core = threads[t].core /\ v.at = at /\ v.pkt = p
  OBVIOUS
<1> HIDE DEF v
<1> QED BY <1>1, <1>3, <1>4, <1>5, ExceptSeq, LenProperties

\* A thread that takes a packet in hand has it in hand.
LEMMA TakenInHand ==
  ASSUME NEW t \in DOMAIN threads, threads[t] \in ThreadType, NEW at, NEW p,
         threads' = [threads EXCEPT ![t].at = at, ![t].pkt = p]
  PROVE  threads'[t].at = at /\ threads'[t].pkt = p
<1> DEFINE w == [core |-> threads[t].core, at |-> at, pkt |-> threads[t].pkt]
           v == [core |-> threads[t].core, at |-> at, pkt |-> p]
<1>1. [threads[t] EXCEPT !.at = at] = w
  BY DEF ThreadType
<1>2. [w EXCEPT !.pkt = p] = v
  OBVIOUS
<1>3. v.at = at /\ v.pkt = p
  OBVIOUS
<1> HIDE DEF w, v
<1>4. [threads[t] EXCEPT !.at = at, !.pkt = p] = v
  BY <1>1, <1>2, Zenon
<1>5. threads' = [threads EXCEPT ![t] = v]
  BY <1>4
<1> QED BY <1>3, <1>5

\* Every step of worker_loop moves its own thread, which has not left it.
LEMMA WorkerMoves ==
  ASSUME TypeParts, NEW t \in DOMAIN threads, WorkerLoop(t)
  PROVE  /\ threads' \in Seq(ThreadType)
         /\ Len(threads') = Len(threads) /\ DOMAIN threads' = DOMAIN threads
         /\ \A u \in DOMAIN threads : threads'[u].core = threads[u].core
         /\ \A u \in DOMAIN threads : u # t => threads'[u] = threads[u]
         /\ threads[t].at # "exited"
<1>1. /\ threads \in Seq(ThreadType) /\ DOMAIN threads = 1 .. Len(threads)
      /\ ThreadsTyped /\ RingsTyped
  BY LenProperties DEF ThreadsTyped, TypeParts
<1>2. threads[t] \in ThreadType
  BY <1>1, ElementOfSeq
<1>3. /\ threads[t].core \in Cores /\ threads[t].pkt \in Packets \cup {NoPacket}
      /\ rings[threads[t].core] \in Seq(Packets)
  BY <1>1, <1>2 DEF ThreadType, RingsTyped
<1>4. /\ threads[t].at # "exited"
      /\ \E at \in Places, p \in Packets \cup {NoPacket} :
           \/ threads' = [threads EXCEPT ![t].at = at] /\ p = threads[t].pkt
           \/ threads' = [threads EXCEPT ![t].at = at, ![t].pkt = p]
  <2>1. CASE Test(t)
    BY <2>1, <1>3 DEF Test, At, Places
  <2>2. CASE Yield(t)
    BY <2>2, <1>3 DEF Yield, At, Places, OnEmpty
  <2>3. CASE Fetch(t)
    <3>1. Head(rings[threads[t].core]) \in Packets
      BY <2>3, <1>3, HeadTailProperties DEF Fetch
    <3> QED BY <3>1, <2>3 DEF Fetch, Places
  <2>4. CASE Release(t)
    BY <2>4, <1>3 DEF Release, At, Places
  <2>5. CASE CountPacket(t)
    BY <2>5, <1>3 DEF CountPacket, At, Places
  <2>6. CASE CountBytes(t)
    BY <2>6, <1>3 DEF CountBytes, At, Places, OnCounted
  <2> QED BY <2>1, <2>2, <2>3, <2>4, <2>5, <2>6 DEF WorkerLoop
<1> QED BY <1>1, <1>4, ThreadMoves

\* Every step keeps the threads in line with what the owner is doing.
LEMMA ThreadsInvStep ==
  ASSUME TypeParts, ThreadsInv, [Next]_vars
  PROVE  OwnerTyped' /\ ThreadsTyped' /\ ThreadsInv'
<1>0. NumWorkers \in Nat \ {0}
  BY PoolAssumption
<1>a. /\ running_ \in BOOLEAN /\ owner.doing \in {"idle", "spawn", "join"}
      /\ owner.next \in Int /\ owner.next >= 0 /\ owner.next <= NumWorkers + 1
      /\ owner = [doing |-> owner.doing, next |-> owner.next]
  BY <1>0 DEF TypeParts, OwnerTyped
<1>b. threads \in Seq(ThreadType) /\ Len(threads) \in Nat /\ DOMAIN threads = 1 .. Len(threads)
  BY LenProperties DEF TypeParts, ThreadsTyped
<1>c. ASSUME NEW t \in DOMAIN threads
      PROVE  threads[t].core \in Cores /\ t \in 1 .. Len(threads)
  <2>1. threads[t] \in ThreadType
    BY <1>b, ElementOfSeq
  <2> QED BY <2>1, <1>b DEF ThreadType
<1>1. CASE ~running_ /\ Start
  <2>1. running_' /\ running_' \in BOOLEAN /\ owner' = [doing |-> "spawn", next |-> 0] /\ threads' = threads
        /\ owner.doing = "idle" /\ ~running_
    BY <1>1 DEF Start
  <2>2. owner'.doing = "spawn" /\ owner'.next = 0 /\ Len(threads) = 0
    BY <2>1 DEF ThreadsInv
  <2>3. OwnerTyped' /\ ThreadsTyped'
    <3>1. running_' \in BOOLEAN
      BY <2>1
    <3>2. owner' \in [doing : {"idle", "spawn", "join"}, next : 0 .. NumWorkers + 1]
      BY <2>1, <1>0
    <3>3. threads' \in Seq(ThreadType)
      BY <2>1, <1>b
    <3> QED BY <3>1, <3>2, <3>3 DEF OwnerTyped, ThreadsTyped
  <2>4. /\ \A t \in DOMAIN threads' : threads'[t].core = t - 1
        /\ Len(threads') = owner'.next /\ owner'.next < NumWorkers
        /\ Len(threads') <= NumWorkers
    BY <2>1, <2>2, <1>0, <1>b DEF ThreadsInv
  <2>5. running_'
    BY <2>1
  <2> QED BY <2>2, <2>3, <2>4, <2>5 DEF ThreadsInv
<1>2. CASE Stop
  <2>1. ~running_' /\ running_' \in BOOLEAN /\ owner' = [doing |-> "join", next |-> 1] /\ threads' = threads
    BY <1>2 DEF Stop
  <2>2. owner'.doing = "join" /\ owner'.next = 1
    BY <2>1
  <2>3. OwnerTyped' /\ ThreadsTyped'
    <3>1. running_' \in BOOLEAN
      BY <2>1
    <3>2. owner' \in [doing : {"idle", "spawn", "join"}, next : 0 .. NumWorkers + 1]
      BY <2>1, <1>0
    <3>3. threads' \in Seq(ThreadType)
      BY <2>1, <1>b
    <3> QED BY <3>1, <3>2, <3>3 DEF OwnerTyped, ThreadsTyped
  <2>4. /\ \A t \in DOMAIN threads' : threads'[t].core = t - 1
        /\ Len(threads') <= NumWorkers
    BY <2>1 DEF ThreadsInv
  <2>6. /\ \A t \in DOMAIN threads' : ~(t < owner'.next)
        /\ owner'.next <= Len(threads') + 1
    <3>1. \A t \in 1 .. Len(threads) : ~(t < 1)
      BY <1>b
    <3>2. 1 <= Len(threads) + 1
      BY <1>b
    <3> QED BY <3>1, <3>2, <2>1, <2>2, <1>b
  <2>5. ~running_'
    BY <2>1
  <2> QED BY <2>2, <2>3, <2>4, <2>5, <2>6 DEF ThreadsInv
<1>3. CASE Spawn
  <2> DEFINE e == [core |-> owner.next, at |-> "test", pkt |-> NoPacket]
  <2>1. /\ owner.doing = "spawn" /\ running_ /\ Len(threads) = owner.next
        /\ owner.next < NumWorkers
    BY <1>3 DEF Spawn, ThreadsInv
  <2>2. threads' = Append(threads, e) /\ running_' = running_
    BY <1>3 DEF Spawn
  <2>3. owner' = IF owner.next + 1 < NumWorkers
                   THEN [doing |-> "spawn", next |-> owner.next + 1] ELSE [doing |-> "idle", next |-> 0]
    BY <1>3, <2>1, <1>a DEF Spawn, Idle
  <2>4. e \in ThreadType
    BY <2>1, <1>a, <1>0 DEF ThreadType, Cores, Places
  <2>5. e.core = owner.next
    OBVIOUS
  <2> HIDE DEF e
  <2>6. /\ threads' \in Seq(ThreadType) /\ Len(threads') = Len(threads) + 1
        /\ DOMAIN threads' = 1 .. Len(threads) + 1
        /\ \A i \in 1 .. Len(threads) : threads'[i] = threads[i]
        /\ threads'[Len(threads) + 1] = e
    BY <2>2, <2>4, <1>b, AppendProperties, LenProperties
  <2>7. \A t \in DOMAIN threads' : threads'[t].core = t - 1
    BY <2>6, <2>5, <2>1, <1>b, <1>a DEF ThreadsInv
  <2>8. OwnerTyped'
    <3>1. running_' \in BOOLEAN
      BY <2>2, <1>a
    <3>2. owner' \in [doing : {"idle", "spawn", "join"}, next : 0 .. NumWorkers + 1]
      BY <2>3, <2>1, <1>a, <1>0
    <3> QED BY <3>1, <3>2 DEF OwnerTyped
  <2>9. owner'.doing # "join" /\ Len(threads') <= NumWorkers
    BY <2>3, <2>6, <2>1, <1>a, <1>b, <1>0
  <2>10. owner'.doing = "idle" => Len(threads') = NumWorkers
    BY <2>3, <2>6, <2>1, <1>a, <1>b, <1>0
  <2>11. owner'.doing = "spawn" => Len(threads') = owner'.next /\ owner'.next < NumWorkers
    BY <2>3, <2>6, <2>1, <1>a, <1>b, <1>0
  <2> QED BY <2>1, <2>2, <2>6, <2>7, <2>8, <2>9, <2>10, <2>11 DEF ThreadsInv, ThreadsTyped
<1>4. CASE Join
  <2>1. /\ owner.doing = "join" /\ owner.next <= Len(threads) /\ Exited(owner.next)
        /\ running_' = running_ /\ threads' = threads
    BY <1>4 DEF Join
  <2>2. owner' = [doing |-> "join", next |-> owner.next + 1]
    BY <1>4, <2>1, <1>a DEF Join
  <2>3. owner'.doing = "join" /\ owner'.next = owner.next + 1 /\ Len(threads) <= NumWorkers
    BY <2>2 DEF ThreadsInv
  <2>4. OwnerTyped' /\ ThreadsTyped'
    BY <2>1, <2>2, <2>3, <1>0, <1>a, <1>b DEF OwnerTyped, ThreadsTyped
  <2>5. \A t \in DOMAIN threads : t < owner.next + 1 => threads[t].at = "exited"
    BY <2>1, <1>a, <1>b DEF ThreadsInv, Exited
  <2> QED BY <2>1, <2>3, <2>4, <2>5, <1>0, <1>a, <1>b DEF ThreadsInv, Exited
<1>5. CASE Clear
  <2>1. /\ owner.doing = "join" /\ ~running_ /\ owner.next > Len(threads)
        /\ \A t \in DOMAIN threads : t < owner.next => Exited(t)
    BY <1>5 DEF Clear, AllJoined, ThreadsInv
  <2>2. threads' = << >> /\ running_' = running_
    BY <1>5, <2>1, <1>a, <1>b DEF Clear
  <2>3. owner' = [doing |-> "idle", next |-> 0]
    BY <1>5 DEF Clear, Idle
  <2>4. OwnerTyped' /\ ThreadsTyped'
    BY <2>2, <2>3, <1>0, <1>a, EmptySeq DEF OwnerTyped, ThreadsTyped
  <2>5. owner'.doing = "idle" /\ ~running_' /\ Len(threads') = 0 /\ DOMAIN threads' = {}
    BY <2>1, <2>2, <2>3
  <2> QED BY <2>4, <2>5, <1>0 DEF ThreadsInv
<1>6. CASE Accept \/ Refuse \/ \E h \in Headers : Dispatch(h)
  BY <1>6, ProducerSteps DEF TypeParts, OwnerTyped, ThreadsTyped, ThreadsInv, Exited
<1>7. ASSUME NEW t \in DOMAIN threads, WorkerLoop(t)
      PROVE  OwnerTyped' /\ ThreadsTyped' /\ ThreadsInv'
  <2>1. UNCHANGED <<running_, owner>>
    BY <1>7, WorkerSteps
  <2>2. /\ threads' \in Seq(ThreadType)
        /\ Len(threads') = Len(threads) /\ DOMAIN threads' = DOMAIN threads
        /\ \A u \in DOMAIN threads : threads'[u].core = threads[u].core
        /\ \A u \in DOMAIN threads : u # t => threads'[u] = threads[u]
        /\ threads[t].at # "exited"
    BY <1>7, WorkerMoves
  <2> QED BY <2>1, <2>2 DEF TypeParts, OwnerTyped, ThreadsTyped, ThreadsInv, Exited
<1>8. CASE UNCHANGED vars
  BY <1>8 DEF vars, ownerVars, TypeParts, OwnerTyped, ThreadsTyped, ThreadsInv, Exited
<1> QED BY <1>1, <1>2, <1>3, <1>4, <1>5, <1>6, <1>7, <1>8, Steps DEF WorkerLoop

-----------------------------------------------------------------------------
(* Lines of packets and the numbers in them. *)

\* Consecutive, of any two numbers and any line.
Numbered(d, s, k, q) ==
  /\ \A i \in Own(k, q, Len(q)) : q[i].number = Bump(d, Cardinality(Own(k, q, i - 1)))
  /\ s = Bump(d, Cardinality(Own(k, q, Len(q))))

\* Finitely many packets of a queue belong to a connection.
LEMMA OwnFinite ==
  ASSUME NEW k, NEW q, NEW n \in Nat
  PROVE  IsFiniteSet(Own(k, q, n)) /\ Cardinality(Own(k, q, n)) \in Nat
<1>1. IsFiniteSet(1 .. n)
  BY FS_Interval
<1>2. Own(k, q, n) \in SUBSET (1 .. n)
  BY DEF Own
<1> QED BY <1>1, <1>2, FS_Subset, FS_CardinalityType

\* A packet that joins a line leaves the others where they are.
LEMMA OwnAppend ==
  ASSUME NEW k, NEW q \in Seq(Packets), NEW p \in Packets
  PROVE  LET r == Append(q, p) IN
         /\ \A n \in 0 .. Len(q) : Own(k, r, n) = Own(k, q, n)
         /\ Own(k, r, Len(r)) = IF Connection(p.header) = k
                                  THEN Own(k, q, Len(q)) \cup {Len(r)}
                                  ELSE Own(k, q, Len(q))
         /\ Cardinality(Own(k, r, Len(r))) =
              IF Connection(p.header) = k THEN Cardinality(Own(k, q, Len(q))) + 1
                                          ELSE Cardinality(Own(k, q, Len(q)))
<1> DEFINE r == Append(q, p)
<1>1. /\ Len(q) \in Nat /\ Len(r) = Len(q) + 1 /\ r[Len(r)] = p
      /\ \A i \in 1 .. Len(q) : r[i] = q[i]
  BY AppendProperties, LenProperties
<1> HIDE DEF r
<1>2. \A n \in 0 .. Len(q) : Own(k, r, n) = Own(k, q, n)
  BY <1>1 DEF Own
<1>3. Own(k, r, Len(r)) = IF Connection(p.header) = k
                            THEN Own(k, q, Len(q)) \cup {Len(r)}
                            ELSE Own(k, q, Len(q))
  BY <1>1 DEF Own
<1>4. IsFiniteSet(Own(k, q, Len(q))) /\ Len(r) \notin Own(k, q, Len(q))
  <2>1. Len(r) \notin 1 .. Len(q)
    BY <1>1
  <2>2. Len(r) \notin Own(k, q, Len(q))
    BY <2>1 DEF Own
  <2> QED BY <2>2, <1>1, OwnFinite
<1>5. Cardinality(Own(k, q, Len(q)) \cup {Len(r)}) = Cardinality(Own(k, q, Len(q))) + 1
  BY <1>4, FS_AddElement
<1> QED BY <1>2, <1>3, <1>5 DEF r

\* When the first packet leaves, the others move up by one.
LEMMA OwnTail ==
  ASSUME NEW k, NEW q \in Seq(Packets), q # << >>, NEW n \in 0 .. Len(q) - 1
  PROVE  /\ \A i \in 1 .. n : i \in Own(k, Tail(q), n) <=> i + 1 \in Own(k, q, n + 1)
         /\ Cardinality(Own(k, q, n + 1)) =
              IF Connection(q[1].header) = k THEN Cardinality(Own(k, Tail(q), n)) + 1
                                             ELSE Cardinality(Own(k, Tail(q), n))
<1> DEFINE r == Tail(q)
           S == Own(k, r, n)
           T == Own(k, q, n + 1) \ {1}
           f == [i \in S |-> i + 1]
<1>1. /\ Len(q) \in Nat \ {0} /\ Len(r) = Len(q) - 1 /\ n \in Nat
      /\ \A i \in 1 .. Len(r) : r[i] = q[i + 1]
  BY HeadTailProperties, EmptySeq, LenProperties
<1> HIDE DEF r
<1>2. \A i \in 1 .. n : i \in S <=> i + 1 \in Own(k, q, n + 1)
  BY <1>1 DEF Own
<1>3. f \in Bijection(S, T)
  <2>1. \A i \in S : i \in 1 .. n
    BY DEF Own
  <2>2. \A j \in T : j \in 2 .. n + 1
    BY <1>1 DEF Own
  <2>3. f \in [S -> T]
    BY <2>1, <1>2, <1>1
  <2>4. \A i, j \in S : f[i] = f[j] => i = j
    BY <2>1
  <2>5. \A j \in T : \E i \in S : f[i] = j
    <3> SUFFICES ASSUME NEW j \in T PROVE \E i \in S : f[i] = j
      OBVIOUS
    <3>1. j - 1 \in 1 .. n /\ (j - 1) + 1 = j /\ j \in Own(k, q, n + 1)
      BY <2>2, <1>1
    <3>2. j - 1 \in S
      BY <3>1, <1>2
    <3> QED BY <3>1, <3>2
  <2> HIDE DEF S, T, f
  <2> QED BY <2>3, <2>4, <2>5 DEF Bijection, Injection, Surjection, IsInjective
<1>4. IsFiniteSet(S) /\ Cardinality(S) \in Nat /\ IsFiniteSet(Own(k, q, n + 1))
  BY <1>1, OwnFinite
<1>5. Cardinality(T) = Cardinality(S)
  <2> HIDE DEF S, T, f
  <2> QED BY <1>3, <1>4, FS_Bijection DEF ExistsBijection
<1>6. 1 \in Own(k, q, n + 1) <=> Connection(q[1].header) = k
  BY <1>1 DEF Own
<1>7. Cardinality(T) = IF 1 \in Own(k, q, n + 1) THEN Cardinality(Own(k, q, n + 1)) - 1
                                                ELSE Cardinality(Own(k, q, n + 1))
  BY <1>4, FS_RemoveElement
<1>8. Cardinality(Own(k, q, n + 1)) \in Nat
  BY <1>1, OwnFinite
<1> HIDE DEF S, T, f
<1>9. Cardinality(Own(k, q, n + 1)) =
        IF Connection(q[1].header) = k THEN Cardinality(S) + 1 ELSE Cardinality(S)
  BY <1>4, <1>5, <1>6, <1>7, <1>8
<1> QED BY <1>2, <1>9 DEF S, r

\* Numbers count on from one another.
LEMMA BumpAdd ==
  ASSUME NEW n \in Nat, NEW a \in Nat, NEW b \in Nat
  PROVE  Bump(Bump(n, a), b) = Bump(n, a + b)
<1> DEFINE x == n + a
<1>1. Modulus \in Nat \ {0} /\ x \in Nat
  BY PoolAssumption
<1>2. x + b = n + (a + b)
  OBVIOUS
<1> HIDE DEF x
<1>3. ((x % Modulus) + b) % Modulus = (x + b) % Modulus
  BY <1>1, ModAdd
<1> QED BY <1>2, <1>3 DEF Bump, x

\* Counting nothing changes nothing.
LEMMA BumpZero ==
  ASSUME NEW n \in 0 .. Modulus - 1
  PROVE  Bump(n, 0) = n
<1>1. Modulus \in Nat \ {0} /\ 0 * Modulus + n = n /\ n + 0 = n
  BY PoolAssumption
<1>2. (0 * Modulus + n) % Modulus = n
  BY <1>1, Turns
<1> QED BY <1>1, <1>2 DEF Bump

\* A packet with the next number prolongs the run of its connection, and one of
\* another connection leaves it as it is.
LEMMA NumberedAppend ==
  ASSUME NEW k, NEW q \in Seq(Packets), NEW p \in Packets,
         NEW d \in Nat, NEW s \in Nat, Numbered(d, s, k, q)
  PROVE  /\ Connection(p.header) # k => Numbered(d, s, k, Append(q, p))
         /\ Connection(p.header) = k /\ p.number = s =>
              Numbered(d, Bump(s, 1), k, Append(q, p))
<1> DEFINE r == Append(q, p)
<1>1. /\ Len(q) \in Nat /\ Len(r) = Len(q) + 1 /\ r[Len(r)] = p
      /\ \A i \in 1 .. Len(q) : r[i] = q[i]
  BY AppendProperties, LenProperties
<1>2. /\ \A n \in 0 .. Len(q) : Own(k, r, n) = Own(k, q, n)
      /\ Own(k, r, Len(r)) = IF Connection(p.header) = k
                               THEN Own(k, q, Len(q)) \cup {Len(r)}
                               ELSE Own(k, q, Len(q))
      /\ Cardinality(Own(k, r, Len(r))) =
           IF Connection(p.header) = k THEN Cardinality(Own(k, q, Len(q))) + 1
                                       ELSE Cardinality(Own(k, q, Len(q)))
  BY OwnAppend
<1> HIDE DEF r
<1>3. \A i \in Own(k, q, Len(q)) :
        r[i].number = Bump(d, Cardinality(Own(k, r, i - 1)))
  <2> SUFFICES ASSUME NEW i \in Own(k, q, Len(q))
               PROVE  r[i].number = Bump(d, Cardinality(Own(k, r, i - 1)))
    OBVIOUS
  <2>1. i \in 1 .. Len(q)
    BY DEF Own
  <2>2. i - 1 \in 0 .. Len(q) /\ r[i] = q[i]
    BY <2>1, <1>1
  <2>3. Own(k, r, i - 1) = Own(k, q, i - 1)
    BY <2>2, <1>2
  <2> QED BY <2>2, <2>3 DEF Numbered
<1>4. s = Bump(d, Cardinality(Own(k, q, Len(q))))
  BY DEF Numbered
<1>5. ASSUME Connection(p.header) # k PROVE Numbered(d, s, k, r)
  BY <1>2, <1>3, <1>4, <1>5 DEF Numbered
<1>6. ASSUME Connection(p.header) = k, p.number = s PROVE Numbered(d, Bump(s, 1), k, r)
  <2>1. Len(r) - 1 \in 0 .. Len(q) /\ Len(r) - 1 = Len(q)
    BY <1>1
  <2>2. r[Len(r)].number = Bump(d, Cardinality(Own(k, r, Len(r) - 1)))
    BY <1>1, <1>2, <1>4, <1>6, <2>1
  <2>3. Cardinality(Own(k, q, Len(q))) \in Nat
    BY <1>1, OwnFinite
  <2>4. Bump(s, 1) = Bump(d, Cardinality(Own(k, q, Len(q))) + 1)
    BY <1>4, <2>3, BumpAdd
  <2>5. \A i \in Own(k, r, Len(r)) :
          r[i].number = Bump(d, Cardinality(Own(k, r, i - 1)))
    BY <1>2, <1>3, <1>6, <2>2
  <2> QED BY <1>2, <1>6, <2>4, <2>5 DEF Numbered
<1> QED BY <1>5, <1>6 DEF r

\* The first packet of a line has the number its connection is at, and when it
\* leaves, the run goes on with the next.
LEMMA NumberedTail ==
  ASSUME NEW k, NEW q \in Seq(Packets), q # << >>,
         NEW d \in 0 .. Modulus - 1, NEW s \in Nat, Numbered(d, s, k, q)
  PROVE  /\ Connection(q[1].header) # k => Numbered(d, s, k, Tail(q))
         /\ Connection(q[1].header) = k => Numbered(Bump(d, 1), s, k, Tail(q))
<1> DEFINE r == Tail(q)
           e == IF Connection(q[1].header) = k THEN 1 ELSE 0
           d2 == IF Connection(q[1].header) = k THEN Bump(d, 1) ELSE d
<1>0. Modulus \in Nat \ {0} /\ d \in Nat /\ e \in Nat
  BY PoolAssumption
<1>1. /\ Len(q) \in Nat \ {0} /\ Len(r) = Len(q) - 1
      /\ \A i \in 1 .. Len(r) : r[i] = q[i + 1]
  BY HeadTailProperties, EmptySeq, LenProperties
<1>2. ASSUME NEW n \in 0 .. Len(q) - 1
      PROVE  /\ \A i \in 1 .. n : i \in Own(k, r, n) <=> i + 1 \in Own(k, q, n + 1)
             /\ Cardinality(Own(k, r, n)) \in Nat
             /\ Cardinality(Own(k, q, n + 1)) = e + Cardinality(Own(k, r, n))
             /\ Bump(d2, Cardinality(Own(k, r, n))) = Bump(d, Cardinality(Own(k, q, n + 1)))
  <2>1. n \in Nat
    BY <1>1
  <2>2. Cardinality(Own(k, r, n)) \in Nat
    BY <2>1, OwnFinite
  <2> DEFINE c == Cardinality(Own(k, r, n))
  <2>3. /\ \A i \in 1 .. n : i \in Own(k, r, n) <=> i + 1 \in Own(k, q, n + 1)
        /\ Cardinality(Own(k, q, n + 1)) = IF Connection(q[1].header) = k THEN c + 1 ELSE c
    BY OwnTail
  <2> HIDE DEF c
  <2>4. c \in Nat
    BY <2>2 DEF c
  <2>5. Cardinality(Own(k, q, n + 1)) = e + c
    BY <2>3, <2>4
  <2>6. Bump(d2, c) = Bump(d, e + c)
    <3>1. CASE Connection(q[1].header) = k
      BY <3>1, <2>4, <1>0, BumpAdd
    <3>2. CASE Connection(q[1].header) # k
      BY <3>2, <2>4
    <3> QED BY <3>1, <3>2
  <2> QED BY <2>2, <2>3, <2>5, <2>6 DEF c
<1> HIDE DEF r, e, d2
<1>3. s = Bump(d2, Cardinality(Own(k, r, Len(r))))
  <2>1. Len(r) \in 0 .. Len(q) - 1 /\ Len(r) + 1 = Len(q)
    BY <1>1
  <2>2. s = Bump(d, Cardinality(Own(k, q, Len(q))))
    BY DEF Numbered
  <2> QED BY <2>1, <2>2, <1>2
<1>4. ASSUME NEW i \in Own(k, r, Len(r))
      PROVE  r[i].number = Bump(d2, Cardinality(Own(k, r, i - 1)))
  <2>1. i \in 1 .. Len(r) /\ Len(r) \in 0 .. Len(q) - 1 /\ Len(r) + 1 = Len(q)
    BY <1>1 DEF Own
  <2>2. i + 1 \in Own(k, q, Len(q))
    BY <2>1, <1>2
  <2>3. q[i + 1].number = Bump(d, Cardinality(Own(k, q, (i + 1) - 1)))
    BY <2>2 DEF Numbered
  <2>4. i - 1 \in 0 .. Len(q) - 1 /\ (i - 1) + 1 = (i + 1) - 1
    BY <2>1, <1>1
  <2>5. Bump(d2, Cardinality(Own(k, r, i - 1))) = Bump(d, Cardinality(Own(k, q, (i - 1) + 1)))
    BY <2>4, <1>2
  <2> QED BY <2>1, <2>3, <2>4, <2>5, <1>1
<1>5. Numbered(d2, s, k, r)
  BY <1>3, <1>4 DEF Numbered
<1> QED BY <1>5 DEF d2, r

-----------------------------------------------------------------------------
(* What the lines hold. *)

\* InHand, of any threads.
HandIn(th, c) ==
  LET holding == {t \in DOMAIN th : th[t].core = c /\ th[t].at \in {"count", "bytes"}}
  IN IF holding = {} THEN << >> ELSE <<th[CHOOSE t \in holding : TRUE].pkt>>

\* The worker of core c is thread c + 1.
LEMMA HandVal ==
  ASSUME NEW th, DOMAIN th = 1 .. Len(th), Len(th) \in Nat,
         \A t \in DOMAIN th : th[t].core = t - 1,
         NEW c \in Cores
  PROVE  HandIn(th, c) =
           IF c + 1 \in DOMAIN th /\ th[c + 1].at \in {"count", "bytes"}
             THEN <<th[c + 1].pkt>> ELSE << >>
<1> DEFINE holding == {t \in DOMAIN th : th[t].core = c /\ th[t].at \in {"count", "bytes"}}
<1>1. c \in Int /\ \A t \in DOMAIN th : t - 1 = c <=> t = c + 1
  BY PoolAssumption DEF Cores
<1>2. \A t \in DOMAIN th : th[t].core = c <=> t = c + 1
  BY <1>1
<1>3. CASE c + 1 \in DOMAIN th /\ th[c + 1].at \in {"count", "bytes"}
  <2>1. holding = {c + 1}
    BY <1>2, <1>3
  <2> HIDE DEF holding
  <2>2. (CHOOSE t \in holding : TRUE) = c + 1 /\ holding # {}
    BY <2>1
  <2> QED BY <1>3, <2>2 DEF HandIn, holding
<1>4. CASE ~(c + 1 \in DOMAIN th /\ th[c + 1].at \in {"count", "bytes"})
  <2>1. holding = {}
    BY <1>2, <1>4
  <2> QED BY <1>4, <2>1 DEF HandIn
<1> QED BY <1>3, <1>4

\* A thread that is to release its slot holds the packet in it; a thread that
\* is to count has a packet to count.
HandInv ==
  \A t \in DOMAIN threads :
    /\ threads[t].at = "release" =>
         rings[threads[t].core] # << >> /\ threads[t].pkt = Head(rings[threads[t].core])
    /\ threads[t].at \in {"count", "bytes"} => threads[t].pkt \in Packets

\* A push is bound for the core of its connection.
PushInv == push # NoPush => push.core = DispatchCore(push.header)

\* The core of a connection, whichever the direction.
Home(k) == Hash(k) % NumWorkers

\* The packets in the line of a core belong there, and those of a connection
\* are the unbroken run of numbers from done to sent.
OrderInv ==
  /\ \A c \in Cores : \A i \in DOMAIN Line(c) : DispatchCore(Line(c)[i].header) = c
  /\ \A k \in Connections : Consecutive(k, Line(Home(k)))

\* The inductive invariant.
PoolInv == TypeOK /\ ThreadsInv /\ HandInv /\ PushInv /\ OrderInv

\* Every step keeps the types of the rest.
LEMMA RestTypedStep ==
  ASSUME TypeParts, ThreadsInv, HandInv, PushInv, [Next]_vars
  PROVE  RingsTyped' /\ PushTyped' /\ MetricsTyped' /\ NumbersTyped' /\ PushInv'
<1>0. /\ Modulus \in Nat \ {0} /\ RingsTyped /\ PushTyped /\ MetricsTyped /\ NumbersTyped
      /\ threads \in Seq(ThreadType) /\ DOMAIN threads = 1 .. Len(threads)
  BY PoolAssumption, LenProperties DEF TypeParts, ThreadsTyped
<1>1. CASE Start \/ Stop \/ Spawn \/ Join \/ Clear
  BY <1>0, <1>1, OwnerSteps DEF RingsTyped, PushTyped, MetricsTyped, NumbersTyped, PushInv
<1>2. ASSUME NEW h \in Headers, Dispatch(h)
      PROVE  RingsTyped' /\ PushTyped' /\ MetricsTyped' /\ NumbersTyped' /\ PushInv'
  <2>1. /\ push' = [core |-> DispatchCore(h), header |-> h]
        /\ UNCHANGED <<rings, processed_packets, total_bytes, sent, done>>
    BY <1>2 DEF Dispatch, metrics
  <2>2. push' \in [core : Cores, header : Headers]
    BY <2>1, CoreOf
  <2>3. push'.core = DispatchCore(push'.header)
    BY <2>1
  <2> QED BY <1>0, <2>1, <2>2, <2>3 DEF RingsTyped, PushTyped, MetricsTyped, NumbersTyped, PushInv
<1>3. CASE Accept
  <2> DEFINE c == push.core
             h == push.header
             p == [header |-> h, number |-> sent[Connection(h)]]
  <2>1. /\ push \in [core : Cores, header : Headers] /\ Len(rings[c]) < Capacity
        /\ rings' = [rings EXCEPT ![c] = Append(@, p)]
        /\ sent' = [sent EXCEPT ![Connection(h)] = Bump(@, 1)]
        /\ push' = NoPush /\ UNCHANGED <<processed_packets, total_bytes, done>>
    BY <1>0, <1>3 DEF Accept, PushTyped, metrics
  <2>2. c \in Cores /\ h \in Headers /\ Connection(h) \in Connections
    BY <2>1, CoreOf
  <2>3. p \in Packets
    BY <1>0, <2>2 DEF Packets, NumbersTyped
  <2> HIDE DEF p, c, h
  <2>4. /\ rings[c] \in Seq(Packets) /\ Append(rings[c], p) \in Seq(Packets)
        /\ Len(Append(rings[c], p)) = Len(rings[c]) + 1 /\ Len(rings[c]) \in Nat
    BY <1>0, <2>2, <2>3, AppendProperties, LenProperties DEF RingsTyped
  <2>5. Len(rings[c]) + 1 <= Capacity
    BY <2>1, <2>4, PoolAssumption
  <2>6. RingsTyped'
    BY <1>0, <2>1, <2>2, <2>4, <2>5 DEF RingsTyped
  <2>7. Bump(sent[Connection(h)], 1) \in 0 .. Modulus - 1
    <3> DEFINE x == sent[Connection(h)]
               one == 1
    <3>1. x \in 0 .. Modulus - 1 /\ Modulus \in Nat
      BY <1>0, <2>2, PoolAssumption DEF NumbersTyped
    <3>2. x \in Nat /\ one \in Nat
      BY <3>1
    <3> HIDE DEF x, one
    <3>3. Bump(x, one) \in 0 .. Modulus - 1
      BY <3>2, BumpType
    <3> QED BY <3>3 DEF x, one
  <2>8. NumbersTyped'
    BY <1>0, <2>1, <2>2, <2>7 DEF NumbersTyped
  <2> QED BY <1>0, <2>1, <2>6, <2>8 DEF PushTyped, MetricsTyped, PushInv
<1>4. CASE Refuse
  BY <1>0, <1>4 DEF Refuse, metrics, RingsTyped, PushTyped, MetricsTyped, NumbersTyped, PushInv
<1>5. ASSUME NEW t \in DOMAIN threads, WorkerLoop(t)
      PROVE  RingsTyped' /\ PushTyped' /\ MetricsTyped' /\ NumbersTyped' /\ PushInv'
  <2> DEFINE c == threads[t].core
             h == threads[t].pkt.header
  <2>0. threads[t] \in ThreadType
    BY <1>0, ElementOfSeq
  <2>1. UNCHANGED <<push, sent>> /\ c \in Cores
    BY <1>5, <2>0, WorkerSteps DEF ThreadType
  <2>2. PushTyped' /\ PushInv'
    BY <1>0, <2>1 DEF PushTyped, PushInv
  <2>3. CASE Test(t) \/ Yield(t) \/ Fetch(t)
    <3>1. UNCHANGED <<rings, processed_packets, total_bytes, done>>
      BY <2>3 DEF Test, Yield, Fetch, metrics
    <3> QED BY <1>0, <2>1, <2>2, <3>1 DEF RingsTyped, MetricsTyped, NumbersTyped
  <2>4. CASE Release(t)
    <3>1. /\ rings' = [rings EXCEPT ![c] = Tail(@)] /\ rings[c] # << >>
          /\ UNCHANGED <<processed_packets, total_bytes, done>>
      BY <2>4 DEF Release, metrics
    <3> HIDE DEF c
    <3>2. /\ rings[c] \in Seq(Packets) /\ Tail(rings[c]) \in Seq(Packets)
          /\ Len(Tail(rings[c])) <= Capacity
      BY <1>0, <2>1, <3>1, HeadTailProperties, LenProperties, PoolAssumption DEF RingsTyped
    <3> QED BY <1>0, <2>1, <2>2, <3>1, <3>2 DEF RingsTyped, MetricsTyped, NumbersTyped
  <2>5. CASE CountPacket(t)
    <3>1. /\ processed_packets' = [processed_packets EXCEPT ![c] = Bump(@, 1)]
          /\ UNCHANGED <<rings, total_bytes, done>>
      BY <2>5 DEF CountPacket
    <3> HIDE DEF c
    <3>2. Bump(processed_packets[c], 1) \in 0 .. Modulus - 1
      <4>1. processed_packets[c] \in Nat
        BY <1>0, <2>1 DEF MetricsTyped
      <4> QED BY <4>1, BumpType
    <3> QED BY <1>0, <2>1, <2>2, <3>1, <3>2 DEF RingsTyped, MetricsTyped, NumbersTyped
  <2>6. CASE CountBytes(t)
    <3>1. /\ total_bytes' = [total_bytes EXCEPT ![c] = Bump(@, h.size)]
          /\ done' = [done EXCEPT ![Connection(h)] = Bump(@, 1)]
          /\ UNCHANGED <<rings, processed_packets>> /\ threads[t].at = "bytes"
      BY <2>6 DEF CountBytes, At
    <3>2. h \in Headers
      BY <3>1 DEF HandInv, Packets
    <3> HIDE DEF c, h
    <3>3. Connection(h) \in Connections /\ h.size \in Nat
      BY <3>2, CoreOf
    <3>4. /\ Bump(total_bytes[c], h.size) \in 0 .. Modulus - 1
          /\ Bump(done[Connection(h)], 1) \in 0 .. Modulus - 1
      <4>1. total_bytes[c] \in Nat
        BY <1>0, <2>1 DEF MetricsTyped
      <4>2. done[Connection(h)] \in Nat
        BY <1>0, <3>3 DEF NumbersTyped
      <4> QED BY <3>3, <4>1, <4>2, BumpType
    <3> QED BY <1>0, <2>1, <2>2, <3>1, <3>3, <3>4 DEF RingsTyped, MetricsTyped, NumbersTyped
  <2> QED BY <1>5, <2>3, <2>4, <2>5, <2>6 DEF WorkerLoop
<1>6. CASE UNCHANGED vars
  BY <1>0, <1>6 DEF vars, metrics, RingsTyped, PushTyped, MetricsTyped, NumbersTyped, PushInv
<1> QED BY <1>1, <1>2, <1>3, <1>4, <1>5, <1>6, Steps DEF WorkerLoop

\* Every step keeps the packets in hand in line with the rings.
LEMMA HandStep ==
  ASSUME TypeParts, ThreadsInv, HandInv, [Next]_vars
  PROVE  HandInv'
<1>0. /\ RingsTyped /\ threads \in Seq(ThreadType) /\ DOMAIN threads = 1 .. Len(threads)
      /\ Len(threads) \in Nat
  BY LenProperties DEF TypeParts, ThreadsTyped
<1>a. ASSUME NEW t \in DOMAIN threads
      PROVE  /\ threads[t] \in ThreadType /\ threads[t].core \in Cores
             /\ rings[threads[t].core] \in Seq(Packets)
  <2>1. threads[t] \in ThreadType
    BY <1>0, ElementOfSeq
  <2> QED BY <1>0, <2>1 DEF ThreadType, RingsTyped
<1>1. CASE Start \/ Stop \/ Join
  BY <1>1 DEF Start, Stop, Join, HandInv
<1>2. CASE Spawn
  <2> DEFINE e == [core |-> owner.next, at |-> "test", pkt |-> NoPacket]
  <2>1. threads' = Append(threads, e) /\ rings' = rings /\ owner.next \in Cores
    BY <1>2, PoolAssumption DEF Spawn, ThreadsInv, TypeParts, OwnerTyped, Cores
  <2>2. e \in ThreadType /\ e.at = "test"
    BY <2>1 DEF ThreadType, Places
  <2> HIDE DEF e
  <2>3. /\ DOMAIN threads' = 1 .. Len(threads) + 1
        /\ \A i \in 1 .. Len(threads) : threads'[i] = threads[i]
        /\ threads'[Len(threads) + 1].at = "test"
    BY <2>1, <2>2, <1>0, AppendProperties, LenProperties
  <2>4. \A t \in DOMAIN threads' : t \in DOMAIN threads \/ t = Len(threads) + 1
    BY <2>3, <1>0
  <2> QED BY <2>1, <2>3, <2>4, <1>0 DEF HandInv
<1>3. CASE Clear
  BY <1>3 DEF Clear, HandInv
<1>4. CASE Refuse \/ \E h \in Headers : Dispatch(h)
  BY <1>4 DEF Refuse, Dispatch, HandInv
<1>5. CASE Accept
  <2>1. PICK c, p : threads' = threads /\ rings' = [rings EXCEPT ![c] = Append(@, p)]
    BY <1>5 DEF Accept
  <2>2. ASSUME NEW t \in DOMAIN threads, rings[threads[t].core] # << >>
        PROVE  /\ rings'[threads[t].core] # << >>
               /\ Head(rings'[threads[t].core]) = Head(rings[threads[t].core])
    <3> DEFINE r == rings[threads[t].core]
    <3>1. r \in Seq(Packets) /\ r # << >> /\ threads[t].core \in Cores
      BY <1>a, <2>2
    <3>2. rings'[threads[t].core] = r \/ rings'[threads[t].core] = Append(r, p)
      BY <2>1, <3>1, <1>0 DEF RingsTyped
    <3> HIDE DEF r
    <3>3. Append(r, p) # << >> /\ Head(Append(r, p)) = Head(r)
      BY <3>1, HeadTailAppend
    <3> QED BY <3>1, <3>2, <3>3 DEF r
  <2> QED BY <2>1, <2>2 DEF HandInv
<1>6. ASSUME NEW t \in DOMAIN threads, WorkerLoop(t) PROVE HandInv'
  <2>1. /\ DOMAIN threads' = DOMAIN threads
        /\ \A u \in DOMAIN threads : threads'[u].core = threads[u].core
        /\ \A u \in DOMAIN threads : u # t => threads'[u] = threads[u]
    BY <1>6, WorkerMoves
  <2>2. CASE Test(t) \/ Yield(t) \/ CountBytes(t)
    <3>1. PICK at \in {"test", "pop", "exited"} :
            threads' = [threads EXCEPT ![t].at = at] /\ rings' = rings
      BY <2>2 DEF Test, Yield, CountBytes, At, OnEmpty, OnCounted
    <3>2. threads'[t].at = at
      BY <3>1, <1>a DEF ThreadType
    <3> QED BY <2>1, <3>1, <3>2 DEF HandInv
  <2>3. CASE Fetch(t)
    <3> DEFINE r == rings[threads[t].core]
    <3>1. /\ r \in Seq(Packets) /\ r # << >> /\ rings' = rings /\ Head(r) \in Packets
          /\ threads' = [threads EXCEPT ![t].at = "release", ![t].pkt = Head(r)]
      BY <2>3, <1>a, HeadTailProperties DEF Fetch
    <3>2. threads'[t].at = "release" /\ threads'[t].pkt = Head(r)
      BY <3>1, <1>a, TakenInHand
    <3> QED BY <2>1, <3>1, <3>2 DEF HandInv
  <2>4. CASE Release(t)
    <3> DEFINE c == threads[t].core
    <3>1. /\ threads[t].at = "release" /\ threads' = [threads EXCEPT ![t].at = "count"]
          /\ rings' = [rings EXCEPT ![c] = Tail(@)] /\ rings[c] # << >>
      BY <2>4 DEF Release, At
    <3>2. threads'[t].at = "count" /\ threads'[t].pkt = threads[t].pkt
      BY <3>1, <1>a DEF ThreadType
    <3>3. threads[t].pkt \in Packets
      BY <3>1, <1>a, HeadTailProperties DEF HandInv
    <3>4. \A u \in DOMAIN threads : u # t => rings'[threads[u].core] = rings[threads[u].core]
      <4>1. \A u \in DOMAIN threads : u # t => threads[u].core # c
        BY <1>0 DEF ThreadsInv
      <4> HIDE DEF c
      <4> QED BY <3>1, <4>1, <1>a, <1>0 DEF RingsTyped
    <3> HIDE DEF c
    <3>5. ASSUME NEW u \in DOMAIN threads'
          PROVE  /\ threads'[u].at = "release" =>
                      rings'[threads'[u].core] # << >> /\ threads'[u].pkt = Head(rings'[threads'[u].core])
                 /\ threads'[u].at \in {"count", "bytes"} => threads'[u].pkt \in Packets
      <4>1. CASE u = t
        BY <3>2, <3>3, <4>1
      <4>2. CASE u # t
        BY <2>1, <3>4, <4>2 DEF HandInv
      <4> QED BY <4>1, <4>2
    <3> QED BY <3>5 DEF HandInv
  <2>5. CASE CountPacket(t)
    <3>1. /\ threads[t].at = "count" /\ threads' = [threads EXCEPT ![t].at = "bytes"]
          /\ rings' = rings
      BY <2>5 DEF CountPacket, At
    <3>2. threads'[t].at = "bytes" /\ threads'[t].pkt = threads[t].pkt
      BY <3>1, <1>a, ThreadMoves DEF Places, TypeParts, ThreadType
    <3> QED BY <2>1, <3>1, <3>2 DEF HandInv
  <2> QED BY <1>6, <2>2, <2>3, <2>4, <2>5 DEF WorkerLoop
<1>7. CASE UNCHANGED vars
  BY <1>7 DEF vars, HandInv
<1> QED BY <1>1, <1>2, <1>3, <1>4, <1>5, <1>6, <1>7, Steps DEF WorkerLoop

\* The line of a core, before and after a step.
LEMMA LineVal ==
  ASSUME TypeParts, ThreadsInv, NEW c \in Cores
  PROVE  Line(c) = (IF c + 1 \in DOMAIN threads /\ threads[c + 1].at \in {"count", "bytes"}
                      THEN <<threads[c + 1].pkt>> ELSE << >>) \o rings[c]
<1>1. DOMAIN threads = 1 .. Len(threads) /\ Len(threads) \in Nat
  BY LenProperties DEF TypeParts, ThreadsTyped
<1>2. InHand(c) = HandIn(threads, c)
  BY DEF InHand, HandIn
<1>3. HandIn(threads, c) =
        IF c + 1 \in DOMAIN threads /\ threads[c + 1].at \in {"count", "bytes"}
          THEN <<threads[c + 1].pkt>> ELSE << >>
  BY <1>1, HandVal DEF ThreadsInv
<1> QED BY <1>2, <1>3 DEF Line

\* The line of a core after a step, from the thread and the ring after it.
LEMMA LineNext ==
  ASSUME ThreadsTyped', ThreadsInv', NEW c \in Cores
  PROVE  Line(c)' = (IF c + 1 \in DOMAIN threads' /\ threads'[c + 1].at \in {"count", "bytes"}
                       THEN <<threads'[c + 1].pkt>> ELSE << >>) \o rings'[c]
<1>1. DOMAIN threads' = 1 .. Len(threads') /\ Len(threads') \in Nat
  BY LenProperties DEF ThreadsTyped
<1>2. InHand(c)' = HandIn(threads', c)
  BY DEF InHand, HandIn
<1>3. HandIn(threads', c) =
        IF c + 1 \in DOMAIN threads' /\ threads'[c + 1].at \in {"count", "bytes"}
          THEN <<threads'[c + 1].pkt>> ELSE << >>
  BY <1>1, HandVal DEF ThreadsInv
<1> QED BY <1>2, <1>3 DEF Line

\* A line is a sequence of packets.
LEMMA LineTyped ==
  ASSUME TypeParts, ThreadsInv, HandInv, NEW c \in Cores
  PROVE  Line(c) \in Seq(Packets)
<1>1. rings[c] \in Seq(Packets)
  BY DEF TypeParts, RingsTyped
<1>2. CASE c + 1 \in DOMAIN threads /\ threads[c + 1].at \in {"count", "bytes"}
  <2>1. threads[c + 1].pkt \in Packets
    BY <1>2 DEF HandInv
  <2>2. <<threads[c + 1].pkt>> \in Seq(Packets)
    BY <2>1
  <2> QED BY <1>1, <1>2, <2>2, LineVal, ConcatProperties
<1>3. CASE ~(c + 1 \in DOMAIN threads /\ threads[c + 1].at \in {"count", "bytes"})
  BY <1>1, <1>3, LineVal, ConcatEmptySeq
<1> QED BY <1>2, <1>3

\* A packet put before the rest of its line.
LEMMA Cons ==
  ASSUME NEW p \in Packets, NEW q \in Seq(Packets)
  PROVE  /\ <<p>> \o q \in Seq(Packets) /\ <<p>> \o q # << >>
         /\ (<<p>> \o q)[1] = p /\ Tail(<<p>> \o q) = q
<1>1. <<p>> \in Seq(Packets) /\ Len(<<p>>) = 1 /\ <<p>>[1] = p
  OBVIOUS
<1> DEFINE s == <<p>> \o q
<1>2. /\ s \in Seq(Packets) /\ Len(s) = 1 + Len(q) /\ Len(q) \in Nat
      /\ \A i \in 1 .. 1 + Len(q) : s[i] = IF i <= 1 THEN <<p>>[i] ELSE q[i - 1]
  BY <1>1, ConcatProperties, LenProperties
<1> HIDE DEF s
<1>3. s # << >>
  BY <1>2
<1>4. s[1] = p
  BY <1>1, <1>2
<1>5. Tail(s) \in Seq(Packets) /\ Len(Tail(s)) = Len(q)
      /\ \A i \in 1 .. Len(Tail(s)) : Tail(s)[i] = s[i + 1]
  BY <1>2, <1>3, HeadTailProperties
<1>6. \A i \in 1 .. Len(Tail(s)) : Tail(s)[i] = q[i]
  BY <1>2, <1>5
<1>7. Tail(s) = q
  BY <1>5, <1>6, SeqEqual
<1> QED BY <1>2, <1>3, <1>4, <1>7 DEF s

\* A packet put after a line.
LEMMA ConcatAppend ==
  ASSUME NEW u \in Seq(Packets), NEW v \in Seq(Packets), NEW p \in Packets
  PROVE  u \o Append(v, p) = Append(u \o v, p)
<1>1. v \o <<p>> = Append(v, p) /\ <<p>> \in Seq(Packets)
  BY AppendIsConcat
<1>2. u \o v \in Seq(Packets)
  BY ConcatProperties
<1>3. (u \o v) \o <<p>> = Append(u \o v, p)
  BY <1>2, AppendIsConcat
<1> DEFINE q == <<p>>
<1>a. q \in Seq(Packets)
  BY <1>1
<1> HIDE DEF q
<1>4. (u \o v) \o q = u \o (v \o q)
  BY <1>a, ConcatAssociative
<1> QED BY <1>1, <1>3, <1>4 DEF q

\* The packet fetched is the one released.
LEMMA HeadRest ==
  ASSUME NEW q \in Seq(Packets), q # << >>
  PROVE  <<Head(q)>> \o Tail(q) = q
<1>1. Head(q) \in Packets /\ Tail(q) \in Seq(Packets) /\ Head(q) = q[1]
  BY HeadTailProperties
<1>2. <<Head(q)>> \in Seq(Packets) /\ Len(<<Head(q)>>) = 1 /\ <<Head(q)>>[1] = q[1]
  BY <1>1
<1> DEFINE s == <<Head(q)>> \o Tail(q)
<1>3. /\ s \in Seq(Packets) /\ Len(s) = 1 + Len(Tail(q))
      /\ \A i \in 1 .. 1 + Len(Tail(q)) :
           s[i] = IF i <= 1 THEN <<Head(q)>>[i] ELSE Tail(q)[i - 1]
  BY <1>1, <1>2, ConcatProperties
<1>4. /\ Len(q) \in Nat \ {0} /\ Len(Tail(q)) = Len(q) - 1
      /\ \A i \in 1 .. Len(Tail(q)) : Tail(q)[i] = q[i + 1]
  BY HeadTailProperties, EmptySeq, LenProperties
<1> HIDE DEF s
<1>5. \A i \in 1 .. Len(s) : s[i] = q[i]
  <2> SUFFICES ASSUME NEW i \in 1 .. Len(s) PROVE s[i] = q[i]
    OBVIOUS
  <2>1. CASE i = 1
    BY <2>1, <1>2, <1>3, <1>4
  <2>2. CASE i # 1
    <3>1. i - 1 \in 1 .. Len(Tail(q)) /\ (i - 1) + 1 = i /\ s[i] = Tail(q)[i - 1]
      BY <2>2, <1>3, <1>4
    <3> QED BY <3>1, <1>4
  <2> QED BY <2>1, <2>2
<1>6. s = q
  BY <1>3, <1>4, <1>5, SeqEqual
<1> QED BY <1>6 DEF s

\* Starting, stopping, fetching, releasing and counting neither add to a line nor
\* take from it.
LEMMA LineKept ==
  ASSUME TypeParts, ThreadsInv, HandInv, ThreadsTyped', ThreadsInv',
         \/ Start \/ Stop \/ Spawn \/ Join \/ Clear \/ Refuse
         \/ \E h \in Headers : Dispatch(h)
         \/ \E t \in DOMAIN threads :
              Test(t) \/ Yield(t) \/ Fetch(t) \/ Release(t) \/ CountPacket(t)
         \/ UNCHANGED vars,
         NEW c \in Cores
  PROVE  Line(c)' = Line(c)
<1> DEFINE holds(th) == c + 1 \in DOMAIN th /\ th[c + 1].at \in {"count", "bytes"}
           hand(th) == IF holds(th) THEN <<th[c + 1].pkt>> ELSE << >>
<1>0. /\ RingsTyped /\ threads \in Seq(ThreadType) /\ DOMAIN threads = 1 .. Len(threads)
      /\ Len(threads) \in Nat
  BY LenProperties DEF TypeParts, ThreadsTyped
<1>a. Line(c) = hand(threads) \o rings[c] /\ Line(c)' = hand(threads') \o rings'[c]
  BY LineVal, LineNext
<1>b. hand(threads') = hand(threads) /\ rings'[c] = rings[c] => Line(c)' = Line(c)
  <2> HIDE DEF hand
  <2> QED BY <1>a
<1>c. ASSUME NEW t \in DOMAIN threads
      PROVE  threads[t] \in ThreadType /\ threads[t].core = t - 1 /\ t \in Int
  BY <1>0, ElementOfSeq DEF ThreadsInv
<1>d. c \in Int
  BY PoolAssumption DEF Cores
<1>1. CASE Start \/ Stop \/ Join \/ Refuse \/ \E h \in Headers : Dispatch(h)
  BY <1>1, <1>b DEF Start, Stop, Join, Refuse, Dispatch
<1>2. CASE Spawn
  <2> DEFINE e == [core |-> owner.next, at |-> "test", pkt |-> NoPacket]
  <2>1. threads' = Append(threads, e) /\ rings' = rings /\ owner.next \in Cores
    BY <1>2, PoolAssumption DEF Spawn, ThreadsInv, TypeParts, OwnerTyped, Cores
  <2>2. e \in ThreadType /\ e.at = "test"
    BY <2>1 DEF ThreadType, Places
  <2> HIDE DEF e
  <2>3. /\ DOMAIN threads' = 1 .. Len(threads) + 1
        /\ \A i \in 1 .. Len(threads) : threads'[i] = threads[i]
        /\ threads'[Len(threads) + 1].at = "test"
    BY <2>1, <2>2, <1>0, AppendProperties, LenProperties
  <2>4. CASE c + 1 \in DOMAIN threads
    <3>1. c + 1 \in DOMAIN threads' /\ threads'[c + 1] = threads[c + 1]
      BY <2>3, <2>4, <1>0
    <3>2. hand(threads') = hand(threads)
      BY <2>4, <3>1
    <3> QED BY <3>2, <2>1, <1>b
  <2>5. CASE c + 1 \notin DOMAIN threads
    <3>1. ~holds(threads) /\ ~holds(threads')
      BY <2>3, <2>5, <1>0, <1>d
    <3> QED BY <3>1, <2>1, <1>b
  <2> QED BY <2>4, <2>5
<1>3. CASE Clear
  <2>1. /\ \A t \in DOMAIN threads : threads[t].at = "exited"
        /\ rings' = rings
    <3>1. owner.doing = "join" /\ owner.next > Len(threads) /\ owner.next \in Nat
      BY <1>3, PoolAssumption DEF Clear, AllJoined, TypeParts, OwnerTyped
    <3>2. \A t \in DOMAIN threads : t < owner.next
      BY <3>1, <1>0
    <3> QED BY <1>3, <3>1, <3>2 DEF Clear, ThreadsInv, Exited
  <2>2. threads' = << >> \/ threads' = threads
    BY <1>3 DEF Clear
  <2>3. ~holds(threads) /\ ~holds(threads')
    BY <2>1, <2>2
  <2> QED BY <2>1, <2>3, <1>b
<1>4. ASSUME NEW t \in DOMAIN threads, Test(t) \/ Yield(t) \/ Fetch(t) \/ CountPacket(t)
      PROVE  Line(c)' = Line(c)
  <2>1. /\ DOMAIN threads' = DOMAIN threads
        /\ \A u \in DOMAIN threads : u # t => threads'[u] = threads[u]
    BY <1>4, WorkerMoves DEF WorkerLoop
  <2>2. rings' = rings
    BY <1>4 DEF Test, Yield, Fetch, CountPacket
  <2>3. CASE Test(t) \/ Yield(t)
    <3>1. PICK at \in {"test", "pop", "exited"} :
            threads' = [threads EXCEPT ![t].at = at] /\ threads[t].at \in {"test", "pop"}
      BY <2>3 DEF Test, Yield, At, OnEmpty
    <3>2. threads'[t].at = at
      BY <3>1, <1>c DEF ThreadType
    <3>3. threads'[t].at \notin {"count", "bytes"} /\ threads[t].at \notin {"count", "bytes"}
      BY <3>1, <3>2
    <3>4. CASE t = c + 1
      <4>1. ~holds(threads) /\ ~holds(threads')
        BY <3>3, <3>4
      <4> QED BY <4>1, <2>2, <1>b
    <3>5. CASE t # c + 1
      BY <3>5, <2>1, <2>2, <1>b
    <3> QED BY <3>4, <3>5
  <2>4. CASE Fetch(t)
    <3>1. /\ threads[t].at = "pop" /\ Head(rings[threads[t].core]) \in Packets
          /\ threads' = [threads EXCEPT ![t].at = "release",
                                        ![t].pkt = Head(rings[threads[t].core])]
      BY <2>4, <1>0, <1>c, HeadTailProperties DEF Fetch, ThreadType, RingsTyped
    <3>2. threads'[t].at = "release"
      BY <3>1, <1>c, TakenInHand
    <3>3. threads'[t].at \notin {"count", "bytes"} /\ threads[t].at \notin {"count", "bytes"}
      BY <3>1, <3>2
    <3>4. CASE t = c + 1
      <4>1. ~holds(threads) /\ ~holds(threads')
        BY <3>3, <3>4
      <4> QED BY <4>1, <2>2, <1>b
    <3>5. CASE t # c + 1
      BY <3>5, <2>1, <2>2, <1>b
    <3> QED BY <3>4, <3>5
  <2>5. CASE CountPacket(t)
    <3>1. threads[t].at = "count" /\ threads' = [threads EXCEPT ![t].at = "bytes"]
      BY <2>5 DEF CountPacket, At
    <3>2. threads'[t].at = "bytes" /\ threads'[t].pkt = threads[t].pkt
      BY <3>1, <1>c, ThreadMoves DEF Places, TypeParts, ThreadType
    <3>4. CASE t = c + 1
      <4>1. holds(threads) /\ holds(threads')
        BY <3>1, <3>2, <3>4, <2>1
      <4> QED BY <4>1, <3>2, <3>4, <2>2, <1>b
    <3>5. CASE t # c + 1
      BY <3>5, <2>1, <2>2, <1>b
    <3> QED BY <3>4, <3>5
  <2> QED BY <1>4, <2>3, <2>4, <2>5
<1>5. ASSUME NEW t \in DOMAIN threads, Release(t)
      PROVE  Line(c)' = Line(c)
  <2>1. /\ DOMAIN threads' = DOMAIN threads
        /\ \A u \in DOMAIN threads : u # t => threads'[u] = threads[u]
    BY <1>5, WorkerMoves DEF WorkerLoop
  <2>2. /\ threads[t].at = "release" /\ threads' = [threads EXCEPT ![t].at = "count"]
        /\ rings' = [rings EXCEPT ![t - 1] = Tail(@)] /\ rings[t - 1] # << >>
    BY <1>5, <1>c DEF Release, At
  <2>3. threads'[t].at = "count" /\ threads'[t].pkt = threads[t].pkt
    BY <2>2, <1>c DEF TypeParts, ThreadType
  <2>4. threads[t].pkt = Head(rings[t - 1])
    BY <2>2, <1>c DEF HandInv
  <2>5. CASE t = c + 1
    <3>1. t - 1 = c
      BY <2>5, <1>d
    <3>2. ~holds(threads) /\ holds(threads')
      BY <2>1, <2>2, <2>3, <2>5
    <3>3. rings[c] \in Seq(Packets) /\ rings[c] # << >> /\ rings'[c] = Tail(rings[c])
      BY <2>2, <3>1, <1>0 DEF RingsTyped
    <3>4. hand(threads') = <<Head(rings[c])>> /\ hand(threads) = << >>
      BY <2>3, <2>4, <2>5, <3>1, <3>2
    <3>5. <<Head(rings[c])>> \o Tail(rings[c]) = rings[c] /\ << >> \o rings[c] = rings[c]
      BY <3>3, HeadRest, ConcatEmptySeq
    <3> HIDE DEF hand
    <3> QED BY <3>3, <3>4, <3>5, <1>a
  <2>6. CASE t # c + 1
    <3>1. t - 1 # c
      BY <2>6, <1>c, <1>d
    <3>2. rings'[c] = rings[c]
      BY <2>2, <3>1, <1>0 DEF RingsTyped
    <3>3. hand(threads') = hand(threads)
      BY <2>1, <2>6
    <3> QED BY <3>2, <3>3, <1>b
  <2> QED BY <2>5, <2>6
<1>6. CASE UNCHANGED vars
  BY <1>6, <1>b DEF vars
<1> QED BY <1>1, <1>2, <1>3, <1>4, <1>5, <1>6

\* An accepted packet goes to the end of the line of its core.
LEMMA LineGrows ==
  ASSUME TypeParts, ThreadsInv, HandInv, ThreadsTyped', ThreadsInv', Accept
  PROVE  /\ push.core \in Cores /\ push.header \in Headers
         /\ sent' = [sent EXCEPT ![Connection(push.header)] = Bump(@, 1)] /\ done' = done
         /\ \A c \in Cores :
              Line(c)' = IF c = push.core
                           THEN Append(Line(c), [header |-> push.header,
                                                 number |-> sent[Connection(push.header)]])
                           ELSE Line(c)
<1> DEFINE p == [header |-> push.header, number |-> sent[Connection(push.header)]]
<1>1. /\ push \in [core : Cores, header : Headers]
      /\ rings' = [rings EXCEPT ![push.core] = Append(@, p)]
      /\ sent' = [sent EXCEPT ![Connection(push.header)] = Bump(@, 1)]
      /\ done' = done /\ threads' = threads
      /\ RingsTyped /\ NumbersTyped
  BY DEF Accept, TypeParts, PushTyped
<1>2. push.core \in Cores /\ push.header \in Headers /\ Connection(push.header) \in Connections
  BY <1>1, CoreOf
<1>3. p \in Packets
  BY <1>1, <1>2 DEF NumbersTyped, Packets
<1> HIDE DEF p
<1>4. ASSUME NEW c \in Cores
      PROVE  Line(c)' = IF c = push.core THEN Append(Line(c), p) ELSE Line(c)
  <2> DEFINE hand == IF c + 1 \in DOMAIN threads /\ threads[c + 1].at \in {"count", "bytes"}
                       THEN <<threads[c + 1].pkt>> ELSE << >>
  <2>1. Line(c) = hand \o rings[c]
    BY LineVal
  <2>2. Line(c)' = hand \o rings'[c]
    BY <1>1, LineNext
  <2>3. hand \in Seq(Packets) /\ rings[c] \in Seq(Packets)
    BY <1>1 DEF HandInv, RingsTyped
  <2> HIDE DEF hand
  <2>4. CASE c = push.core
    <3>1. rings'[c] = Append(rings[c], p)
      BY <1>1, <2>4 DEF RingsTyped
    <3> QED BY <2>1, <2>2, <2>3, <2>4, <3>1, <1>3, ConcatAppend
  <2>5. CASE c # push.core
    BY <1>1, <2>1, <2>2, <2>5 DEF RingsTyped
  <2> QED BY <2>4, <2>5
<1> QED BY <1>1, <1>2, <1>4 DEF p

\* A counted packet was the first of the line of its core.
LEMMA LineShrinks ==
  ASSUME TypeParts, ThreadsInv, HandInv, ThreadsTyped', ThreadsInv',
         NEW t \in DOMAIN threads, CountBytes(t)
  PROVE  /\ t - 1 \in Cores /\ Line(t - 1) # << >>
         /\ done' = [done EXCEPT ![Connection(Line(t - 1)[1].header)] = Bump(@, 1)]
         /\ sent' = sent
         /\ \A c \in Cores : Line(c)' = IF c = t - 1 THEN Tail(Line(c)) ELSE Line(c)
<1>0. /\ RingsTyped /\ threads \in Seq(ThreadType) /\ DOMAIN threads = 1 .. Len(threads)
      /\ Len(threads) \in Nat
  BY LenProperties DEF TypeParts, ThreadsTyped
<1>1. threads[t] \in ThreadType /\ threads[t].core = t - 1 /\ t \in Int /\ t - 1 \in Int
  BY <1>0, ElementOfSeq DEF ThreadsInv
<1>2. t - 1 \in Cores
  BY <1>1 DEF ThreadType
<1>3. /\ threads[t].at = "bytes" /\ threads' = [threads EXCEPT ![t].at = "test"]
      /\ done' = [done EXCEPT ![Connection(threads[t].pkt.header)] = Bump(@, 1)]
      /\ rings' = rings /\ sent' = sent
  BY DEF CountBytes, At, OnCounted
<1>4. threads[t].pkt \in Packets /\ rings[t - 1] \in Seq(Packets)
  BY <1>0, <1>2, <1>3 DEF HandInv, RingsTyped
<1>5. DOMAIN threads' = DOMAIN threads /\ \A u \in DOMAIN threads : u # t => threads'[u] = threads[u]
  BY WorkerMoves DEF WorkerLoop
<1>6. threads'[t].at = "test"
  BY <1>3, <1>1 DEF ThreadType
<1>7. (t - 1) + 1 = t
  BY <1>1
<1>8. Line(t - 1) = <<threads[t].pkt>> \o rings[t - 1]
  BY <1>2, <1>3, <1>7, LineVal
<1>9. Line(t - 1) # << >> /\ Line(t - 1)[1] = threads[t].pkt /\ Tail(Line(t - 1)) = rings[t - 1]
  <2> DEFINE p == threads[t].pkt
             q == rings[t - 1]
             s == <<p>> \o q
  <2>1. p \in Packets /\ q \in Seq(Packets)
    BY <1>4
  <2> HIDE DEF p, q
  <2>2. s # << >> /\ s[1] = p /\ Tail(s) = q
    BY <2>1, Cons
  <2>3. Line(t - 1) = s
    BY <1>8 DEF p, q
  <2> HIDE DEF s
  <2> QED BY <2>2, <2>3 DEF p, q
<1>10. ASSUME NEW c \in Cores
       PROVE  Line(c)' = IF c = t - 1 THEN Tail(Line(c)) ELSE Line(c)
  <2>1. CASE c = t - 1
    <3>1. Line(c)' = << >> \o rings[c]
      BY <1>3, <1>6, <1>7, <2>1, LineNext
    <3>2. << >> \o rings[c] = rings[c]
      BY <1>4, <2>1, ConcatEmptySeq
    <3> QED BY <3>1, <3>2, <1>9, <2>1
  <2>2. CASE c # t - 1
    <3>1. c + 1 # t
      BY <1>1, <2>2, PoolAssumption DEF Cores
    <3> QED BY <1>3, <1>5, <2>2, <3>1, LineVal, LineNext
  <2> QED BY <2>1, <2>2
<1> QED BY <1>2, <1>3, <1>9, <1>10

\* Every step keeps the lines in order: a packet joins at the end and leaves at the front.
LEMMA OrderStep ==
  ASSUME TypeParts, ThreadsInv, HandInv, PushInv, OrderInv, ThreadsTyped', ThreadsInv',
         [Next]_vars
  PROVE  OrderInv'
<1>0. /\ NumbersTyped /\ NumWorkers \in Nat \ {0} /\ Modulus \in Nat \ {0}
      /\ PushTyped
  BY PoolAssumption DEF TypeParts
<1>a. ASSUME NEW h \in Headers
      PROVE  Connection(h) \in Connections /\ DispatchCore(h) = Home(Connection(h))
  BY CoreOf DEF DispatchCore, Home
<1>b. ASSUME NEW k \in Connections PROVE Home(k) \in Cores
  <2>1. PICK h \in Headers : k = Connection(h)
    BY DEF Connections
  <2> QED BY <2>1, <1>a, CoreOf
<1>c. ASSUME NEW c \in Cores PROVE Line(c) \in Seq(Packets)
  BY LineTyped
<1>d. ASSUME NEW k \in Connections
      PROVE  /\ Numbered(done[k], sent[k], k, Line(Home(k)))
             /\ done[k] \in 0 .. Modulus - 1 /\ sent[k] \in 0 .. Modulus - 1
             /\ done[k] \in Nat /\ sent[k] \in Nat
  BY <1>0 DEF OrderInv, Consecutive, Numbered, NumbersTyped
<1>e. ASSUME \A c \in Cores : \A i \in DOMAIN Line(c)' : DispatchCore(Line(c)'[i].header) = c,
             \A k \in Connections : Numbered(done'[k], sent'[k], k, Line(Home(k))')
      PROVE  OrderInv'
  BY <1>e DEF OrderInv, Consecutive, Numbered, Own, Home
<1>1. CASE \/ Start \/ Stop \/ Spawn \/ Join \/ Clear \/ Refuse
           \/ \E h \in Headers : Dispatch(h)
           \/ \E t \in DOMAIN threads :
                Test(t) \/ Yield(t) \/ Fetch(t) \/ Release(t) \/ CountPacket(t)
           \/ UNCHANGED vars
  <2>1. \A c \in Cores : Line(c)' = Line(c)
    BY <1>1, LineKept
  <2>2. done' = done /\ sent' = sent
    BY <1>1 DEF Start, Stop, Spawn, Join, Clear, Refuse, Dispatch, Test, Yield, Fetch, Release,
                CountPacket, vars
  <2>3. \A c \in Cores : \A i \in DOMAIN Line(c)' : DispatchCore(Line(c)'[i].header) = c
    BY <2>1 DEF OrderInv
  <2>4. \A k \in Connections : Numbered(done'[k], sent'[k], k, Line(Home(k))')
    BY <2>1, <2>2, <1>b, <1>d
  <2> QED BY <2>3, <2>4, <1>e
<1>2. CASE Accept
  <2> DEFINE h == push.header
             p == [header |-> h, number |-> sent[Connection(h)]]
  <2>1. /\ push.core \in Cores /\ h \in Headers
        /\ sent' = [sent EXCEPT ![Connection(h)] = Bump(@, 1)] /\ done' = done
        /\ \A c \in Cores : Line(c)' = IF c = push.core THEN Append(Line(c), p) ELSE Line(c)
    BY <1>2, LineGrows
  <2>2. push.core = Home(Connection(h)) /\ DispatchCore(h) = push.core
    BY <1>2, <2>1, <1>a DEF Accept, PushInv
  <2>3. p \in Packets /\ p.header = h /\ p.number = sent[Connection(h)]
    BY <2>1, <1>a, <1>d DEF Packets
  <2> HIDE DEF p, h
  <2>4. ASSUME NEW c \in Cores, NEW i \in DOMAIN Line(c)'
        PROVE  DispatchCore(Line(c)'[i].header) = c
    <3>1. CASE c = push.core
      <4>1. Line(c)' = Append(Line(c), p) /\ Line(c) \in Seq(Packets)
        BY <2>1, <3>1, <1>c
      <4>2. /\ DOMAIN Line(c)' = 1 .. Len(Line(c)) + 1 /\ DOMAIN Line(c) = 1 .. Len(Line(c))
            /\ Line(c)'[Len(Line(c)) + 1] = p /\ Len(Line(c)) \in Nat
            /\ \A j \in 1 .. Len(Line(c)) : Line(c)'[j] = Line(c)[j]
        BY <4>1, <2>3, AppendProperties, LenProperties
      <4>3. CASE i \in DOMAIN Line(c)
        BY <4>2, <4>3 DEF OrderInv
      <4>4. CASE i = Len(Line(c)) + 1
        BY <4>2, <4>4, <2>2, <2>3, <3>1
      <4> QED BY <4>2, <4>3, <4>4
    <3>2. CASE c # push.core
      <4>1. Line(c)' = Line(c)
        BY <2>1, <3>2
      <4> QED BY <4>1 DEF OrderInv
    <3> QED BY <3>1, <3>2
  <2>5. ASSUME NEW k \in Connections
        PROVE  Numbered(done'[k], sent'[k], k, Line(Home(k))')
    <3>1. Home(k) \in Cores /\ Line(Home(k)) \in Seq(Packets)
      BY <1>b, <1>c
    <3>2. CASE k = Connection(h)
      <4>1. Line(Home(k))' = Append(Line(Home(k)), p)
        BY <2>1, <2>2, <3>1, <3>2
      <4>2. sent'[k] = Bump(sent[k], 1) /\ done'[k] = done[k]
        BY <2>1, <3>2, <1>0 DEF NumbersTyped
      <4>3. Numbered(done[k], Bump(sent[k], 1), k, Append(Line(Home(k)), p))
        BY <1>d, <2>3, <3>1, <3>2, NumberedAppend
      <4> QED BY <4>1, <4>2, <4>3
    <3>3. CASE k # Connection(h)
      <4>1. sent'[k] = sent[k] /\ done'[k] = done[k]
        BY <2>1, <3>3, <1>0 DEF NumbersTyped
      <4>2. Numbered(done[k], sent[k], k, Append(Line(Home(k)), p))
        BY <1>d, <2>3, <3>1, <3>3, NumberedAppend
      <4>3. Line(Home(k))' = Append(Line(Home(k)), p) \/ Line(Home(k))' = Line(Home(k))
        BY <2>1, <3>1
      <4> QED BY <4>1, <4>2, <4>3, <1>d
    <3> QED BY <3>2, <3>3
  <2> QED BY <2>4, <2>5, <1>e
<1>3. ASSUME NEW t \in DOMAIN threads, CountBytes(t) PROVE OrderInv'
  <2> DEFINE b == t - 1
             g == Line(b)[1].header
  <2>1. /\ b \in Cores /\ Line(b) # << >>
        /\ done' = [done EXCEPT ![Connection(g)] = Bump(@, 1)] /\ sent' = sent
        /\ \A c \in Cores : Line(c)' = IF c = b THEN Tail(Line(c)) ELSE Line(c)
    BY <1>3, LineShrinks
  <2> HIDE DEF b
  <2>2. /\ Line(b) \in Seq(Packets) /\ DOMAIN Line(b) = 1 .. Len(Line(b))
        /\ Len(Line(b)) \in Nat \ {0}
        /\ DOMAIN Tail(Line(b)) = 1 .. Len(Line(b)) - 1
        /\ \A i \in 1 .. Len(Line(b)) - 1 : Tail(Line(b))[i] = Line(b)[i + 1]
    BY <2>1, <1>c, LenProperties, EmptySeq, HeadTailProperties
  <2>3. 1 \in DOMAIN Line(b) /\ g \in Headers
    <3>1. 1 \in 1 .. Len(Line(b))
      BY <2>2
    <3>2. Line(b)[1] \in Packets
      BY <2>2, <3>1, ElementOfSeq
    <3> QED BY <2>2, <3>1, <3>2 DEF Packets
  <2>4. Home(Connection(g)) = b /\ Connection(g) \in Connections
    BY <2>1, <2>3, <1>a DEF OrderInv
  <2>5. ASSUME NEW c \in Cores, NEW i \in DOMAIN Line(c)'
        PROVE  DispatchCore(Line(c)'[i].header) = c
    <3>1. CASE c = b
      <4>1. Line(c)' = Tail(Line(b)) /\ i \in 1 .. Len(Line(b)) - 1
        BY <2>1, <2>2, <3>1
      <4>2. i + 1 \in DOMAIN Line(b) /\ Line(c)'[i] = Line(b)[i + 1]
        BY <4>1, <2>2
      <4> QED BY <4>2, <3>1 DEF OrderInv
    <3>2. CASE c # b
      <4>1. Line(c)' = Line(c)
        BY <2>1, <3>2
      <4> QED BY <4>1 DEF OrderInv
    <3> QED BY <3>1, <3>2
  <2>6. ASSUME NEW k \in Connections
        PROVE  Numbered(done'[k], sent'[k], k, Line(Home(k))')
    <3>1. Home(k) \in Cores /\ Line(Home(k)) \in Seq(Packets)
      BY <1>b, <1>c
    <3>2. CASE k = Connection(g)
      <4>1. Line(Home(k))' = Tail(Line(Home(k))) /\ Line(Home(k)) # << >>
            /\ Connection(Line(Home(k))[1].header) = k
        BY <2>1, <2>4, <3>1, <3>2
      <4>2. done'[k] = Bump(done[k], 1) /\ sent'[k] = sent[k]
        BY <2>1, <3>2, <1>0 DEF NumbersTyped
      <4>3. Numbered(Bump(done[k], 1), sent[k], k, Tail(Line(Home(k))))
        BY <1>d, <3>1, <4>1, NumberedTail
      <4> QED BY <4>1, <4>2, <4>3
    <3>3. CASE k # Connection(g)
      <4>1. sent'[k] = sent[k] /\ done'[k] = done[k]
        BY <2>1, <3>3, <1>0 DEF NumbersTyped
      <4>2. CASE Home(k) = b
        <5>1. Line(Home(k))' = Tail(Line(Home(k))) /\ Line(Home(k)) # << >>
              /\ Connection(Line(Home(k))[1].header) # k
          BY <2>1, <3>1, <3>3, <4>2
        <5>2. Numbered(done[k], sent[k], k, Tail(Line(Home(k))))
          BY <1>d, <3>1, <5>1, NumberedTail
        <5> QED BY <4>1, <5>1, <5>2
      <4>3. CASE Home(k) # b
        BY <2>1, <3>1, <4>1, <4>3, <1>d
      <4> QED BY <4>2, <4>3
    <3> QED BY <3>2, <3>3
  <2> QED BY <2>5, <2>6, <1>e
<1> QED BY <1>1, <1>2, <1>3, Steps

-----------------------------------------------------------------------------
(* The invariant and what follows from it. *)

\* The invariant holds at first, ...
LEMMA PoolInit == Init => PoolInv
<1> SUFFICES ASSUME Init PROVE PoolInv
  OBVIOUS
<1>0. NumWorkers \in Nat \ {0} /\ Capacity \in Nat \ {0} /\ Modulus \in Nat \ {0}
  BY PoolAssumption
<1>1. TypeParts
  <2>1. OwnerTyped /\ PushTyped
    <3>1. owner = [doing |-> "idle", next |-> 0] /\ running_ \in BOOLEAN /\ push = NoPush
      BY DEF Init, Idle
    <3>2. [doing |-> "idle", next |-> 0]
            \in [doing : {"idle", "spawn", "join"}, next : 0 .. NumWorkers + 1]
      BY <1>0
    <3> QED BY <3>1, <3>2 DEF OwnerTyped, PushTyped
  <2>2. ThreadsTyped /\ RingsTyped
    BY <1>0, EmptySeq DEF Init, ThreadsTyped, RingsTyped
  <2>3. MetricsTyped /\ NumbersTyped
    BY <1>0 DEF Init, MetricsTyped, NumbersTyped
  <2> QED BY <2>1, <2>2, <2>3 DEF TypeParts
<1>2. threads = << >> /\ Len(threads) = 0 /\ DOMAIN threads = {}
  BY DEF Init
<1>3. ThreadsInv
  BY <1>0, <1>2 DEF Init, ThreadsInv, Idle
<1>4. HandInv /\ PushInv
  BY <1>2 DEF Init, HandInv, PushInv
<1>5. ASSUME NEW c \in Cores PROVE Line(c) = << >>
  <2>1. rings[c] = << >> /\ rings[c] \in Seq(Packets)
    BY EmptySeq DEF Init
  <2> QED BY <1>1, <1>2, <1>3, <2>1, LineVal, ConcatEmptySeq
<1>6. ASSUME NEW k \in Connections PROVE Consecutive(k, << >>)
  <2>1. Own(k, << >>, 0) = {} /\ Len(<< >>) = 0
    BY DEF Own
  <2>2. done[k] = 0 /\ sent[k] = 0 /\ 0 \in 0 .. Modulus - 1
    BY <1>0 DEF Init
  <2> QED BY <2>1, <2>2, BumpZero, FS_EmptySet DEF Consecutive
<1>7. ASSUME NEW k \in Connections PROVE Home(k) \in Cores
  <2>1. PICK h \in Headers : k = Connection(h)
    BY DEF Connections
  <2> QED BY <2>1, CoreOf DEF DispatchCore, Home
<1>8. OrderInv
  BY <1>5, <1>6, <1>7 DEF OrderInv
<1> QED BY <1>1, <1>3, <1>4, <1>8, TypeIsItsParts DEF PoolInv

\* ... and every step keeps it.
LEMMA PoolStep == PoolInv /\ [Next]_vars => PoolInv'
<1> SUFFICES ASSUME PoolInv, [Next]_vars PROVE PoolInv'
  OBVIOUS
<1>1. TypeParts /\ ThreadsInv /\ HandInv /\ PushInv /\ OrderInv
  BY TypeIsItsParts DEF PoolInv
<1>2. OwnerTyped' /\ ThreadsTyped' /\ ThreadsInv'
  BY <1>1, ThreadsInvStep
<1>3. RingsTyped' /\ PushTyped' /\ MetricsTyped' /\ NumbersTyped' /\ PushInv'
  BY <1>1, RestTypedStep
<1>4. HandInv'
  BY <1>1, HandStep
<1>5. OrderInv'
  BY <1>1, <1>2, OrderStep
<1>6. TypeOK'
  BY <1>2, <1>3 DEF TypeOK, OwnerTyped, ThreadsTyped, RingsTyped, PushTyped, MetricsTyped,
                    NumbersTyped, ThreadType
<1> QED BY <1>2, <1>3, <1>4, <1>5, <1>6 DEF PoolInv

\* The inductive invariant of the pool: the threads fit what the owner is doing,
\* each holds the packet it took, a push is bound for the core of its connection,
\* and the line of a core holds the unbroken runs of its connections.
THEOREM PoolInvariant == Spec => []PoolInv
BY PoolInit, PoolStep, PTL DEF Spec

\* As long as only a stopped pool is started, no ring has two consumers, wherever
\* its stops and starts meet the workers (worker_pool.cpp, start and stop: stop joins
\* every thread before it clears them; that start is not called on a running pool is
\* an assumption, StartStopped).
THEOREM RingsHaveOneConsumer == Spec => []OneConsumer
<1>1. PoolInv => OneConsumer
  <2> SUFFICES ASSUME PoolInv PROVE OneConsumer
    OBVIOUS
  <2>1. threads \in Seq(ThreadType) /\ DOMAIN threads = 1 .. Len(threads)
    BY TypeIsItsParts, LenProperties DEF PoolInv, TypeParts, ThreadsTyped
  <2>2. \A t, u \in DOMAIN threads : threads[t].core = t - 1 /\ threads[u].core = u - 1
    BY DEF PoolInv, ThreadsInv
  <2> QED BY <2>1, <2>2 DEF OneConsumer
<1> QED BY <1>1, PoolInvariant, PTL

\* Whatever the hash, the number of cores and the order of stops and restarts, the
\* packets of a connection stay in one line, are processed in the order of their
\* acceptance, and none is lost or processed twice (dispatch_packet, worker_loop).
THEOREM PacketsStayInOrder == Spec => []InOrder
<1>1. PoolInv => InOrder
  <2> SUFFICES ASSUME PoolInv PROVE InOrder
    OBVIOUS
  <2>1. TypeOK /\ TypeParts /\ ThreadsInv /\ HandInv /\ OrderInv
    BY TypeIsItsParts DEF PoolInv
  <2>2. ASSUME NEW k \in Connections
        PROVE  /\ Home(k) \in Cores /\ Consecutive(k, Line(Home(k)))
               /\ \A d \in Cores \ {Home(k)} : Own(k, Line(d), Len(Line(d))) = {}
    <3>1. PICK h \in Headers : k = Connection(h)
      BY DEF Connections
    <3>2. Home(k) \in Cores
      BY <3>1, CoreOf DEF DispatchCore, Home
    <3>3. ASSUME NEW d \in Cores, NEW i \in Own(k, Line(d), Len(Line(d)))
          PROVE  d = Home(k)
      <4>1. Line(d) \in Seq(Packets) /\ DOMAIN Line(d) = 1 .. Len(Line(d))
        BY <2>1, LineTyped, LenProperties
      <4>2. i \in DOMAIN Line(d) /\ Connection(Line(d)[i].header) = k
        BY <4>1 DEF Own
      <4>3. DispatchCore(Line(d)[i].header) = d
        BY <2>1, <4>2 DEF OrderInv
      <4> QED BY <4>2, <4>3 DEF DispatchCore, Home
    <3> QED BY <2>1, <3>2, <3>3 DEF OrderInv
  <2> QED BY <2>1, <2>2 DEF InOrder
<1> QED BY <1>1, PoolInvariant, PTL
-----------------------------------------------------------------------------
(* Each ring is used as the BoundedFifo that SPSCRing implements. *)

\* The threads of core c that have copied a packet and not released its slot.
Copying(th, c) == {t \in DOMAIN th : th[t].core = c /\ th[t].at = "release"}

\* The packet the push under way would put into the ring of core c.
Offered(c) ==
  IF push # NoPush /\ push.core = c
    THEN [header |-> push.header, number |-> sent[Connection(push.header)]] ELSE NoPacket

\* The packet that core c has copied and not released.
FetchedIn(th, c) ==
  IF Copying(th, c) = {} THEN NoPacket ELSE th[CHOOSE t \in Copying(th, c) : TRUE].pkt
\* Of the threads as they are.
Fetched(c) == FetchedIn(threads, c)

\* What core c's ring looks like to the producer and to its worker.
Ring(c) == INSTANCE BoundedFifo
  WITH Items <- Packets, NoItem <- NoPacket,
       queue <- rings[c], offered <- Offered(c), fetched <- Fetched(c)

\* A packet is not the absence of one.
LEMMA PacketIsSome ==
  ASSUME NEW p \in Packets
  PROVE  p # NoPacket
<1>1. DOMAIN p = {"header", "number"}
  BY DEF Packets
<1>2. "header" \in DOMAIN p
  BY <1>1
<1>3. DOMAIN NoPacket = {}
  BY DEF NoPacket
<1> QED BY <1>2, <1>3

\* The worker of core c is thread c + 1.
LEMMA FetchedVal ==
  ASSUME NEW th, DOMAIN th = 1 .. Len(th), Len(th) \in Nat,
         \A t \in DOMAIN th : th[t].core = t - 1,
         NEW c \in Cores
  PROVE  FetchedIn(th, c) =
           IF c + 1 \in DOMAIN th /\ th[c + 1].at = "release" THEN th[c + 1].pkt ELSE NoPacket
<1>1. c \in Int /\ \A t \in DOMAIN th : t - 1 = c <=> t = c + 1
  BY PoolAssumption DEF Cores
<1>2. \A t \in DOMAIN th : th[t].core = c <=> t = c + 1
  BY <1>1
<1>3. CASE c + 1 \in DOMAIN th /\ th[c + 1].at = "release"
  <2>1. Copying(th, c) = {c + 1}
    BY <1>2, <1>3 DEF Copying
  <2>2. (CHOOSE t \in Copying(th, c) : TRUE) = c + 1 /\ Copying(th, c) # {}
    BY <2>1
  <2> QED BY <1>3, <2>2 DEF FetchedIn
<1>4. CASE ~(c + 1 \in DOMAIN th /\ th[c + 1].at = "release")
  <2>1. Copying(th, c) = {}
    BY <1>2, <1>4 DEF Copying
  <2> QED BY <1>4, <2>1 DEF FetchedIn
<1> QED BY <1>3, <1>4

\* What is offered to the ring of a core, a packet or nothing.
LEMMA OfferedVal ==
  ASSUME TypeParts, NEW c \in Cores, push # NoPush, push.core = c
  PROVE  /\ Offered(c) = [header |-> push.header, number |-> sent[Connection(push.header)]]
         /\ Offered(c) \in Packets /\ Offered(c) # NoPacket
<1>1. push.header \in Headers
  BY DEF TypeParts, PushTyped
<1>2. sent[Connection(push.header)] \in 0 .. Modulus - 1
  BY <1>1, CoreOf DEF TypeParts, NumbersTyped
<1>3. Offered(c) = [header |-> push.header, number |-> sent[Connection(push.header)]]
  BY DEF Offered
<1>4. Offered(c) \in Packets
  BY <1>1, <1>2, <1>3 DEF Packets
<1> QED BY <1>3, <1>4, PacketIsSome

\* Every step is a step of each ring's promise, or none.
LEMMA RingStep ==
  ASSUME PoolInv, [Next]_vars, NEW c \in Cores
  PROVE  [Ring(c)!Next]_(Ring(c)!vars)
<1>0. TypeParts /\ ThreadsInv /\ HandInv /\ PushInv /\ RingsTyped /\ PushTyped
  BY TypeIsItsParts DEF PoolInv, TypeParts
<1>a. OwnerTyped' /\ ThreadsTyped' /\ ThreadsInv'
  BY <1>0, ThreadsInvStep
<1>b. /\ threads \in Seq(ThreadType) /\ DOMAIN threads = 1 .. Len(threads)
      /\ Len(threads) \in Nat
      /\ DOMAIN threads' = 1 .. Len(threads') /\ Len(threads') \in Nat
  BY <1>0, <1>a, LenProperties DEF TypeParts, ThreadsTyped
<1> DEFINE w == c + 1
           Holds(th) == w \in DOMAIN th /\ th[w].at = "release"
<1>c. Fetched(c) = IF Holds(threads) THEN threads[w].pkt ELSE NoPacket
  BY <1>0, <1>b, FetchedVal DEF Fetched, ThreadsInv
<1>d. Fetched(c)' = IF Holds(threads') THEN threads'[w].pkt ELSE NoPacket
  BY <1>a, <1>b, FetchedVal DEF Fetched, ThreadsInv
<1>e. ASSUME NEW t \in DOMAIN threads
      PROVE  /\ threads[t] \in ThreadType /\ threads[t].core \in Cores
             /\ threads[t].core = t - 1 /\ t \in Int /\ c \in Int
             /\ (threads[t].core = c <=> t = w)
  <2>1. threads[t] \in ThreadType
    BY <1>b, ElementOfSeq
  <2>2. threads[t].core = t - 1
    BY <1>0 DEF ThreadsInv
  <2>3. t \in Int /\ c \in Int
    BY <1>b, PoolAssumption DEF Cores
  <2>4. threads[t].core = c <=> t = w
    BY <2>2, <2>3
  <2>5. threads[t].core \in Cores
    BY <2>1 DEF ThreadType
  <2> QED BY <2>1, <2>2, <2>3, <2>4, <2>5
<1>f. rings[c] \in Seq(Packets) /\ Len(rings[c]) <= Capacity
  BY <1>0 DEF RingsTyped
<1> HIDE DEF w
<1>g. ASSUME UNCHANGED rings[c], Offered(c)' = Offered(c), Fetched(c)' = Fetched(c)
      PROVE  [Ring(c)!Next]_(Ring(c)!vars)
  BY <1>g DEF Ring!vars
<1>h. ASSUME UNCHANGED <<push, sent>>
      PROVE  Offered(c)' = Offered(c)
  BY <1>h DEF Offered
<1>i. ASSUME UNCHANGED threads
      PROVE  Fetched(c)' = Fetched(c)
  BY <1>i DEF Fetched
<1>1. CASE Start \/ Stop \/ Join
  BY <1>1, <1>g, <1>h, <1>i DEF Start, Stop, Join
<1>2. CASE Spawn
  <2> DEFINE e == [core |-> owner.next, at |-> "test", pkt |-> NoPacket]
  <2>1. threads' = Append(threads, e) /\ UNCHANGED <<rings, push, sent>>
    BY <1>2 DEF Spawn
  <2>2. e.at = "test" /\ e \in ThreadType
    BY <1>2, <1>0, PoolAssumption
       DEF Spawn, ThreadsInv, TypeParts, OwnerTyped, Cores, ThreadType, Places
  <2> HIDE DEF e
  <2>3. /\ DOMAIN threads' = 1 .. Len(threads) + 1
        /\ \A i \in 1 .. Len(threads) : threads'[i] = threads[i]
        /\ threads'[Len(threads) + 1].at = "test"
    BY <2>1, <2>2, <1>b, AppendProperties, LenProperties
  <2>4. Holds(threads') <=> Holds(threads)
    BY <2>3, <1>b
  <2>5. Fetched(c)' = Fetched(c)
    BY <2>3, <2>4, <1>b, <1>c, <1>d
  <2> QED BY <2>1, <2>5, <1>g, <1>h
<1>3. CASE Clear
  <2>1. /\ owner.doing = "join" /\ owner.next > Len(threads)
        /\ threads' = threads \/ threads' = << >>
        /\ UNCHANGED <<rings, push, sent>>
    BY <1>3 DEF Clear, AllJoined
  <2>2. \A t \in DOMAIN threads : threads[t].at = "exited"
    <3>1. owner.next \in Int
      BY <1>0, PoolAssumption DEF TypeParts, OwnerTyped
    <3>2. \A t \in DOMAIN threads : t < owner.next
      BY <2>1, <3>1, <1>b
    <3> QED BY <2>1, <3>2, <1>0 DEF ThreadsInv, Exited
  <2>3. ~Holds(threads) /\ ~Holds(threads')
    BY <2>1, <2>2
  <2>4. Fetched(c)' = Fetched(c)
    BY <2>3, <1>c, <1>d
  <2> QED BY <2>1, <2>4, <1>g, <1>h
<1>4. ASSUME NEW h \in Headers, Dispatch(h)
      PROVE  [Ring(c)!Next]_(Ring(c)!vars)
  <2>1. /\ push = NoPush /\ push' = [core |-> DispatchCore(h), header |-> h]
        /\ UNCHANGED <<rings, threads, sent>>
    BY <1>4 DEF Dispatch
  <2>2. /\ push' # NoPush /\ push'.core = DispatchCore(h) /\ push'.header = h
        /\ Offered(c) = NoPacket /\ Fetched(c)' = Fetched(c)
    <3>1. Offered(c) = NoPacket /\ Fetched(c)' = Fetched(c)
      BY <2>1, <1>i DEF Offered
    <3>2. "core" \in DOMAIN push' /\ DOMAIN NoPush = {}
      BY <2>1 DEF NoPush
    <3>3. push'.core = DispatchCore(h) /\ push'.header = h
      BY <2>1
    <3> QED BY <3>1, <3>2, <3>3
  <2>3. CASE DispatchCore(h) = c
    <3> DEFINE v == [header |-> h, number |-> sent[Connection(h)]]
    <3>1. v \in Packets
      BY <1>0, CoreOf DEF Packets, TypeParts, NumbersTyped
    <3>2. Offered(c)' = v
      BY <2>1, <2>2, <2>3 DEF Offered
    <3> HIDE DEF v
    <3>3. Ring(c)!Offer(v)
      BY <2>1, <2>2, <3>2 DEF Ring!Offer
    <3> QED BY <3>1, <3>3 DEF Ring!Next
  <2>4. CASE DispatchCore(h) # c
    <3>1. Offered(c)' = NoPacket
      BY <2>2, <2>4 DEF Offered
    <3> QED BY <2>1, <2>2, <3>1, <1>g
  <2> QED BY <2>3, <2>4
<1>5. CASE Accept
  <2> DEFINE k == Connection(push.header)
             p == [header |-> push.header, number |-> sent[k]]
  <2>1. /\ push # NoPush /\ push' = NoPush /\ Len(rings[push.core]) < Capacity
        /\ rings' = [rings EXCEPT ![push.core] = Append(@, p)] /\ threads' = threads
    BY <1>5 DEF Accept
  <2>2. Offered(c)' = NoPacket /\ Fetched(c)' = Fetched(c)
    BY <2>1, <1>i DEF Offered
  <2>3. CASE push.core = c
    <3>1. Offered(c) = p /\ Offered(c) # NoPacket
      BY <2>1, <2>3, <1>0, OfferedVal
    <3> HIDE DEF p
    <3>2. rings'[c] = Append(rings[c], Offered(c))
      BY <2>1, <2>3, <3>1, <1>0 DEF RingsTyped
    <3>3. Ring(c)!Accept
      BY <2>1, <2>2, <2>3, <3>1, <3>2 DEF Ring!Accept
    <3> QED BY <3>3 DEF Ring!Next
  <2>4. CASE push.core # c
    <3>1. Offered(c) = NoPacket
      BY <2>4 DEF Offered
    <3> HIDE DEF p
    <3>2. rings'[c] = rings[c]
      BY <2>1, <2>4, <1>0 DEF RingsTyped
    <3> QED BY <2>2, <3>1, <3>2, <1>g
  <2> QED BY <2>3, <2>4
<1>6. CASE Refuse
  <2>1. push # NoPush /\ push' = NoPush /\ UNCHANGED <<rings, threads>>
    BY <1>6 DEF Refuse
  <2>2. Offered(c)' = NoPacket /\ Fetched(c)' = Fetched(c)
    BY <2>1, <1>i DEF Offered
  <2>3. CASE push.core = c
    <3>1. Offered(c) # NoPacket
      BY <2>1, <2>3, <1>0, OfferedVal
    <3>2. Ring(c)!Refuse
      BY <2>1, <2>2, <3>1 DEF Ring!Refuse
    <3> QED BY <3>2 DEF Ring!Next
  <2>4. CASE push.core # c
    <3>1. Offered(c) = NoPacket
      BY <2>4 DEF Offered
    <3> QED BY <2>1, <2>2, <3>1, <1>g
  <2> QED BY <2>3, <2>4
<1>7. ASSUME NEW t \in DOMAIN threads, WorkerLoop(t)
      PROVE  [Ring(c)!Next]_(Ring(c)!vars)
  <2>1. /\ DOMAIN threads' = DOMAIN threads
        /\ \A u \in DOMAIN threads : u # t => threads'[u] = threads[u]
        /\ Offered(c)' = Offered(c)
    BY <1>0, <1>7, <1>h, WorkerMoves, WorkerSteps
  <2>2. CASE w # t
    <3>1. Fetched(c)' = Fetched(c)
      BY <2>1, <2>2, <1>c, <1>d
    <3>2. rings'[c] = rings[c]
      <4>1. threads[t].core # c
        BY <1>e, <2>2
      <4> QED BY <4>1, <1>0, <1>7
              DEF WorkerLoop, Test, Yield, Fetch, Release, CountPacket, CountBytes, RingsTyped
    <3> QED BY <2>1, <3>1, <3>2, <1>g
  <2>3. CASE w = t /\ (Test(t) \/ Yield(t) \/ CountPacket(t) \/ CountBytes(t))
    <3>1. PICK at \in {"test", "pop", "exited", "bytes"} :
            /\ threads' = [threads EXCEPT ![t].at = at] /\ rings' = rings
            /\ threads[t].at # "release"
      BY <2>3 DEF Test, Yield, CountPacket, CountBytes, At, OnEmpty, OnCounted
    <3>2. threads'[t].at = at
      BY <3>1, <1>e DEF ThreadType
    <3>3. Fetched(c)' = Fetched(c)
      BY <3>1, <3>2, <2>1, <2>3, <1>c, <1>d
    <3> QED BY <3>1, <3>3, <2>1, <1>g
  <2>4. CASE w = t /\ Fetch(t)
    <3>1. /\ threads[t].at = "pop" /\ rings[c] # << >> /\ rings' = rings
          /\ threads' = [threads EXCEPT ![t].at = "release", ![t].pkt = Head(rings[c])]
      BY <2>4, <1>e DEF Fetch
    <3>2. threads'[t].at = "release" /\ threads'[t].pkt = Head(rings[c])
      BY <3>1, <1>e, TakenInHand, Zenon
    <3>3. Fetched(c) = NoPacket /\ Fetched(c)' = Head(rings[c])
      BY <3>1, <3>2, <2>1, <2>4, <1>c, <1>d
    <3>4. Ring(c)!Fetch
      BY <3>1, <3>3, <2>1 DEF Ring!Fetch
    <3> QED BY <3>4 DEF Ring!Next
  <2>5. CASE w = t /\ Release(t)
    <3>1. /\ threads[t].at = "release" /\ threads[t].core = c
          /\ threads' = [threads EXCEPT ![t].at = "count"]
          /\ rings' = [rings EXCEPT ![c] = Tail(@)] /\ rings[c] # << >>
      BY <2>5, <1>e DEF Release, At
    <3>2. threads'[t].at = "count"
      BY <3>1, <1>e DEF ThreadType
    <3>3. Head(rings[c]) \in Packets /\ threads[t].pkt = Head(rings[c])
      BY <3>1, <1>0, <1>f, HeadTailProperties DEF HandInv
    <3>4. Fetched(c) # NoPacket /\ Fetched(c)' = NoPacket
      BY <3>1, <3>2, <3>3, <2>1, <2>5, <1>c, <1>d, PacketIsSome
    <3>5. rings'[c] = Tail(rings[c])
      BY <3>1, <1>0 DEF RingsTyped
    <3>6. Ring(c)!Release
      BY <3>4, <3>5, <2>1 DEF Ring!Release
    <3> QED BY <3>6 DEF Ring!Next
  <2> QED BY <1>7, <2>2, <2>3, <2>4, <2>5 DEF WorkerLoop
<1>8. CASE UNCHANGED vars
  BY <1>8, <1>g, <1>h, <1>i DEF vars
<1> QED BY <1>1, <1>2, <1>3, <1>4, <1>5, <1>6, <1>7, <1>8, Steps DEF WorkerLoop

\* The pool uses the ring of every core as the promise of SPSCRing allows: pushes and
\* pops of one core's ring follow each other as offers, accepts and refusals of one
\* producer and fetches and releases of one consumer, through every stop and every
\* start of a stopped pool; a pop or push that fails leaves no trace (dispatch_packet, worker_loop).
THEOREM RingsUsedAsPromised == Spec => \A c \in Cores : Ring(c)!Spec
<1>1. ASSUME NEW c \in Cores PROVE Spec => Ring(c)!Spec
  <2>1. Init => Ring(c)!Init
    <3> SUFFICES ASSUME Init
                 PROVE  rings[c] = << >> /\ Offered(c) = NoPacket /\ Fetched(c) = NoPacket
      BY DEF Ring!Init
    <3> QED BY DEF Init, Offered, Fetched, FetchedIn, Copying, NoPush
  <2>2. PoolInv /\ [Next]_vars => [Ring(c)!Next]_(Ring(c)!vars)
    BY RingStep
  <2> QED BY <2>1, <2>2, PoolInvariant, PTL DEF Spec, Ring!Spec
<1> QED BY <1>1
=============================================================================
