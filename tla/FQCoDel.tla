------------------------------ MODULE FQCoDel ------------------------------
(***************************************************************************)
(* The flow-queueing scheduler of src/qos/fq_codel.cpp: a queue and CoDel  *)
(* state per flow, a list of new and a list of old flows served by         *)
(* deficits.  enqueue is one action; dequeue is a loop over the two lists  *)
(* and is one action per iteration, enqueue being locked out by            *)
(* scheduler_mutex_ until it returns.  dequeue reads the clock once, so    *)
(* time passes only between calls.                                         *)
(*                                                                         *)
(* Which flow a 5-tuple hashes to is left open.  Bounds of the model, not  *)
(* of the code: MaxPackets, MaxListed and MaxClock.                        *)
(***************************************************************************)
EXTENDS Integers, Sequences, Functions

CONSTANTS
  Flows,           \* flow indices, 0 .. FQ_CODEL_NUM_FLOWS - 1
  Sizes,           \* packet sizes
  Ages,            \* time from a packet's creation to its enqueue
  Quantum,         \* FQ_CODEL_QUANTUM
  Target,          \* CODEL_TARGET_NS
  Interval,        \* CODEL_INTERVAL_NS
  SparsePackets,   \* queue length up to which a flow counts as sparse (4)
  DefaultRate,     \* initial link_rate_mbps_
  Rates,           \* arguments of set_link_rate_mbps
  CounterModulus,  \* number of values of a drop counter (2^64)
  MaxPackets,      \* bound on the packets of a flow
  MaxListed,       \* bound on the entries of both lists together
  MaxClock,        \* bound on the clock
  NoFlow           \* no flow

ASSUME FQCoDelAssumption ==
  /\ Sizes \subseteq Nat \ {0} /\ Ages \subseteq Nat
  /\ Quantum \in Nat \ {0}
  /\ Target \in Nat \ {0} /\ Interval \in Nat \ {0}
  /\ SparsePackets \in Nat
  /\ DefaultRate \in Nat \ {0} /\ Rates \subseteq Nat
  /\ CounterModulus \in Nat \ {0}
  /\ MaxPackets \in Nat /\ MaxListed \in Nat /\ MaxClock \in Nat
  /\ NoFlow \notin Flows

VARIABLES
  packets,            \* flows_[f].packets, each with its size and timestamp
  deficit, total_bytes, is_sparse, drops,          \* the rest of flows_[f]
  first_above, drop_next, count, dropping,         \* flows_[f].codel
  new_flows, old_flows,                            \* lists of flow indices
  bufferbloat_active, current_delay, total_drops, link_rate,
  pc,                 \* "idle", or the list dequeue is processing
  now_ns,             \* the clock
  served              \* flow of the packet the last dequeue returned, or NoFlow

flowVars == <<packets, deficit, total_bytes, is_sparse, drops>>
codelVars == <<first_above, drop_next, count, dropping>>
listVars == <<new_flows, old_flows>>
reportVars == <<bufferbloat_active, current_delay, total_drops>>
vars == <<flowVars, codelVars, listVars, reportVars, link_rate, pc, now_ns, served>>

Packet == [size : Sizes, timestamp : Int]
TotalSize(pkts) == SumFunction([i \in DOMAIN pkts |-> pkts[i].size])
Bump(counter) == (counter + 1) % CounterModulus

-----------------------------------------------------------------------------
Init ==
  /\ packets = [f \in Flows |-> << >>]
  /\ deficit = [f \in Flows |-> Quantum]
  /\ total_bytes = [f \in Flows |-> 0]
  /\ is_sparse = [f \in Flows |-> TRUE]
  /\ drops = [f \in Flows |-> 0]
  /\ first_above = [f \in Flows |-> 0]
  /\ drop_next = [f \in Flows |-> 0]
  /\ count = [f \in Flows |-> 0]
  /\ dropping = [f \in Flows |-> FALSE]
  /\ new_flows = << >> /\ old_flows = << >>
  /\ bufferbloat_active = FALSE /\ current_delay = 0 /\ total_drops = 0
  /\ link_rate = DefaultRate
  /\ pc = "idle" /\ now_ns = 0 /\ served = NoFlow

Tick ==
  /\ pc = "idle" /\ now_ns < MaxClock
  /\ now_ns' = now_ns + 1
  /\ UNCHANGED <<flowVars, codelVars, listVars, reportVars, link_rate, pc, served>>

SetLinkRate(mbps) ==
  /\ pc = "idle"
  /\ link_rate' = IF mbps < 1 THEN 1 ELSE mbps
  /\ UNCHANGED <<flowVars, codelVars, listVars, reportVars, pc, now_ns, served>>

\* Mutant of NewDeficit: the quantum added to what is left.
NewDeficitAdded(f) == deficit[f] + Quantum

NewDeficit(f) == Quantum

\* A flow found empty is announced as new, whatever lists it is still on.
Announce(f) ==
  IF packets[f] = << >>
  THEN /\ deficit' = [deficit EXCEPT ![f] = NewDeficit(f)]
       /\ new_flows' = Append(new_flows, f)
  ELSE UNCHANGED <<deficit, new_flows>>

Enqueue(f, size, age) ==
  /\ pc = "idle"
  /\ Len(packets[f]) < MaxPackets /\ Len(new_flows) + Len(old_flows) < MaxListed
  /\ Announce(f)
  /\ packets' = [packets EXCEPT ![f] =
                   Append(@, [size |-> size, timestamp |-> now_ns - age])]
  /\ total_bytes' = [total_bytes EXCEPT ![f] = @ + size]
  /\ is_sparse' = [is_sparse EXCEPT ![f] = Len(packets[f]) + 1 <= SparsePackets]
  /\ UNCHANGED <<drops, codelVars, old_flows, reportVars, link_rate, pc, now_ns, served>>

-----------------------------------------------------------------------------
(* dequeue. *)

DequeueCall ==
  /\ pc = "idle"
  /\ pc' = "new"
  /\ UNCHANGED <<flowVars, codelVars, listVars, reportVars, link_rate, now_ns, served>>

\* f is at the front of the list being processed.
AtFront(f) ==
  \/ pc = "new" /\ new_flows # << >> /\ f = Head(new_flows)
  \/ pc = "old" /\ old_flows # << >> /\ f = Head(old_flows)

\* pop_front on that list, and push_back of `again` on the old list.
PopFront(again) ==
  IF pc = "new"
  THEN new_flows' = Tail(new_flows) /\ old_flows' = old_flows \o again
  ELSE new_flows' = new_flows /\ old_flows' = Tail(old_flows) \o again

UnlistEmptyFlow(f) ==
  /\ AtFront(f)
  /\ packets[f] = << >>
  /\ PopFront(<< >>)
  /\ UNCHANGED <<flowVars, codelVars, reportVars, link_rate, pc, now_ns, served>>

\* Mutants: a recycled flow gets no new quantum, or no place in the old list.
RefilledUnpaid(f) == deficit[f]
RequeuedLost(f) == << >>

Refilled(f) == deficit[f] + Quantum
Requeued(f) == <<f>>

RecycleFlow(f) ==
  /\ AtFront(f)
  /\ packets[f] # << >> /\ deficit[f] <= 0
  /\ deficit' = [deficit EXCEPT ![f] = Refilled(f)]
  /\ PopFront(Requeued(f))
  /\ UNCHANGED <<packets, total_bytes, is_sparse, drops, codelVars, reportVars,
                 link_rate, pc, now_ns, served>>

\* Mutants: the candidate stays in the byte count, or is not charged.
RemainingAll(f) == total_bytes[f]
ChargedNothing(f) == deficit[f]

\* total_bytes and deficit without the first packet.
Remaining(f) == total_bytes[f] - Head(packets[f]).size
Charged(f) == deficit[f] - Head(packets[f]).size

\* The first packet leaves the queue and is charged to the flow, before CoDel
\* decides about it.
TakeCandidate(f) ==
  /\ AtFront(f)
  /\ packets[f] # << >> /\ deficit[f] > 0
  /\ packets' = [packets EXCEPT ![f] = Tail(@)]
  /\ total_bytes' = [total_bytes EXCEPT ![f] = Remaining(f)]
  /\ deficit' = [deficit EXCEPT ![f] = Charged(f)]

Sojourn(f) ==
  LET sent == Head(packets[f]).timestamp
  IN  IF now_ns > sent THEN now_ns - sent ELSE 0

\* codel_should_drop, evaluated after the candidate left the queue.
InControl(f) == Sojourn(f) < Target \/ Remaining(f) < Quantum

ShouldDrop(f) == ~InControl(f) /\ first_above[f] # 0 /\ now_ns >= first_above[f]

Measure(f) ==
  /\ current_delay' = Sojourn(f)
  /\ first_above' = [first_above EXCEPT ![f] =
                       IF InControl(f) THEN 0
                       ELSE IF @ = 0 THEN now_ns + Interval ELSE @]

\* Interval / sqrt(n), rounded down.
IntervalOverRoot(n) ==
  CHOOSE d \in 0 .. Interval :
    /\ d * d * n <= Interval * Interval
    /\ (d + 1) * (d + 1) * n > Interval * Interval

\* Mutant of ControlLaw: the interval grows with the count.
ControlLawGrowing(t, n) == t + (IF n = 0 THEN Interval ELSE Interval * n)

ControlLaw(t, n) == t + (IF n = 0 THEN Interval ELSE IntervalOverRoot(n))

\* Bookkeeping of a drop: the drop schedule is kept but nothing waits for it.
ScheduleDrop(f) ==
  IF ~dropping[f]
  THEN /\ dropping' = [dropping EXCEPT ![f] = TRUE]
       /\ count' = [count EXCEPT ![f] = 1]
       /\ drop_next' = [drop_next EXCEPT ![f] = ControlLaw(now_ns, 1)]
  ELSE /\ IF now_ns >= drop_next[f]
          THEN /\ count' = [count EXCEPT ![f] = @ + 1]
               /\ drop_next' = [drop_next EXCEPT ![f] = ControlLaw(@, count[f] + 1)]
          ELSE UNCHANGED <<count, drop_next>>
       /\ UNCHANGED dropping

DropPacket(f) ==
  /\ TakeCandidate(f)
  /\ ShouldDrop(f)
  /\ Measure(f)
  /\ ScheduleDrop(f)
  /\ total_drops' = Bump(total_drops)
  /\ drops' = [drops EXCEPT ![f] = Bump(@)]
  /\ bufferbloat_active' = TRUE
  /\ UNCHANGED <<is_sparse, listVars, link_rate, pc, now_ns, served>>

Recovered(f) == dropping[f] /\ Sojourn(f) < Target

\* Mutant of AlarmAfter: a flow that recovers leaves the alarm on.
AlarmKept(f) == bufferbloat_active

AlarmAfter(f) == bufferbloat_active /\ ~Recovered(f)

\* dequeue returns true.
DeliverPacket(f) ==
  /\ TakeCandidate(f)
  /\ ~ShouldDrop(f)
  /\ Measure(f)
  /\ dropping' = [dropping EXCEPT ![f] = @ /\ ~Recovered(f)]
  /\ bufferbloat_active' = AlarmAfter(f)
  /\ pc' = "idle" /\ served' = f
  /\ UNCHANGED <<is_sparse, drops, drop_next, count, listVars, total_drops,
                 link_rate, now_ns>>

\* The new list is used up; the old list is next.
NewFlowsDone ==
  /\ pc = "new" /\ new_flows = << >>
  /\ pc' = "old"
  /\ UNCHANGED <<flowVars, codelVars, listVars, reportVars, link_rate, now_ns, served>>

\* Mutant of ListsDone: the old list is not looked at.
NewListDone == pc # "idle" /\ new_flows = << >>

ListsDone == pc = "old" /\ old_flows = << >>

\* dequeue returns false.
ReturnNothing ==
  /\ ListsDone
  /\ pc' = "idle" /\ served' = NoFlow
  /\ UNCHANGED <<flowVars, codelVars, listVars, reportVars, link_rate, now_ns>>

ProcessFlow(f) ==
  UnlistEmptyFlow(f) \/ RecycleFlow(f) \/ DropPacket(f) \/ DeliverPacket(f)

DequeueLoop == (\E f \in Flows : ProcessFlow(f)) \/ NewFlowsDone \/ ReturnNothing

Next ==
  \/ Tick
  \/ \E mbps \in Rates : SetLinkRate(mbps)
  \/ \E f \in Flows, size \in Sizes, age \in Ages : Enqueue(f, size, age)
  \/ DequeueCall
  \/ DequeueLoop

Spec == Init /\ [][Next]_vars

\* A thread inside dequeue keeps running.
LoopSpec == Spec /\ WF_vars(DequeueLoop)

\* The transmitter also keeps calling dequeue.
FairSpec == LoopSpec /\ WF_vars(DequeueCall)

-----------------------------------------------------------------------------
\* Types, part of BytesMatch.
TypeOK ==
  /\ packets \in [Flows -> Seq(Packet)]
  /\ deficit \in [Flows -> Int]
  /\ total_bytes \in [Flows -> Int]
  /\ is_sparse \in [Flows -> BOOLEAN]
  /\ drops \in [Flows -> 0 .. CounterModulus - 1]
  /\ first_above \in [Flows -> Nat]
  /\ drop_next \in [Flows -> Nat]
  /\ count \in [Flows -> Nat]
  /\ dropping \in [Flows -> BOOLEAN]
  /\ new_flows \in Seq(Flows) /\ old_flows \in Seq(Flows)
  /\ bufferbloat_active \in BOOLEAN
  /\ current_delay \in Nat
  /\ total_drops \in 0 .. CounterModulus - 1
  /\ link_rate \in {DefaultRate, 1} \cup Rates
  /\ pc \in {"idle", "new", "old"}
  /\ now_ns \in Nat
  /\ served \in Flows \cup {NoFlow}

Listed(f, list) == \E i \in 1 .. Len(list) : list[i] = f

\* No backlog is ever forgotten: a flow with packets is on a list, whichever
\* order enqueue announced it, dequeue unlisted an old entry of it and moved
\* it from list to list.
BackloggedListed ==
  \A f \in Flows : packets[f] # << >> => Listed(f, new_flows) \/ Listed(f, old_flows)

\* ... and dequeue reports an empty scheduler only when every flow is empty.
FalseMeansEmpty ==
  [][ReturnNothing => \A f \in Flows : packets[f] = << >>]_vars

\* A flow's credit is at most one quantum, and its debt is less than its
\* largest packet: no flow gets ahead of another by more than that per round.
DeficitBounded ==
  \A f \in Flows : deficit[f] <= Quantum /\ \E s \in Sizes \cup {1} : -deficit[f] < s

\* The byte count CoDel decides on is the size of the queue, through drops,
\* deliveries and refills ...
BytesMatch == TypeOK /\ \A f \in Flows : total_bytes[f] = TotalSize(packets[f])

\* ... and dropping one packet leaves others: active queue management, which must
\* not look at the count before the candidate has left, never empties a flow.
DropLeavesBacklog ==
  [][\A f \in Flows : DropPacket(f) => packets'[f] # << >>]_vars

\* The global alarm is never left on by a flow that has recovered: while it is
\* on, some flow is in the dropping state.
AlarmHasCause == bufferbloat_active => \E f \in Flows : dropping[f]

\* CoDel's two deadlines of a flow are at most one interval ahead, and a flow in
\* the dropping state has a schedule.
ScheduleNear ==
  \A f \in Flows :
    /\ first_above[f] <= now_ns + Interval
    /\ drop_next[f] <= now_ns + Interval
    /\ dropping[f] => count[f] > 0 /\ drop_next[f] > 0

\* dequeue returns, however flows are recycled and packets dropped inside it.
DequeueReturns == pc # "idle" ~> pc = "idle"

\* Once nothing more is enqueued, repeated calls empty every flow.
Drains ==
  <>[][\A f \in Flows, size \in Sizes, age \in Ages : ~Enqueue(f, size, age)]_vars
    => <>[](\A f \in Flows : packets[f] = << >>)

\* Old flows share the link: once no flow is announced as new, every
\* backlogged flow has its turn again and again.  The turn may be spent on a
\* drop: a flow refilled as fast as it is dropped from can lose all its turns.
OldFlowsShare ==
  <>[][UNCHANGED new_flows \/ Len(new_flows') < Len(new_flows)]_vars
    => \A f \in Flows : []<>(packets[f] = << >>) \/ []<><<TakeCandidate(f)>>_vars

\* "Inverse square root drop schedule: t + interval / sqrt(count)"
\* (src/qos/fq_codel.cpp:50): a flow that is dropping drops its next packet
\* when the schedule says, not before.
DropsFollowSchedule ==
  [][\A f \in Flows : DropPacket(f) /\ dropping[f] => now_ns >= drop_next[f]]_vars
=============================================================================
