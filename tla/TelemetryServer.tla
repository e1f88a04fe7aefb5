--------------------------- MODULE TelemetryServer ---------------------------
(***************************************************************************)
(* server/app.py and the page that polls it, server/static/app.js.  In the *)
(* server a daemon thread and the one thread that serves requests share a  *)
(* dictionary without a lock: they interleave at every access to it.  The  *)
(* page has several requests under way, whose answers come in any order or *)
(* not at all; what it cannot fetch it simulates.                          *)
(*                                                                         *)
(* The model keeps the queue occupancies and the bufferbloat flag they are *)
(* to agree with; rates, latencies and core loads, which every tick of the *)
(* daemon redraws, are left out.  json.dumps is one call into C code, so   *)
(* an answer is a snapshot.  A request refused or lost counts as lost      *)
(* before or after it is handled: what the page does then is the same.     *)
(***************************************************************************)
EXTENDS Integers, Functions

CONSTANTS
  NumQueues, Bulk,       \* queues, and the one that is saturated (5 and 4)
  InitialOccupancy,
  MaxOccupancy,          \* "max" (256)
  Threshold, Saturated,  \* 190 and 240
  Bursts,                \* what a burst may add to a queue (15 to 35)
  Slots,                 \* requests of the page that may be under way
  NoSlot,
  MaxFailures            \* failed requests, so that failures end

Queues == 0 .. NumQueues - 1

Total(occ) == SumFunction(occ)

ASSUME TelemetryAssumption ==
  /\ NumQueues \in Nat /\ Bulk \in Queues
  /\ MaxOccupancy \in Nat /\ Threshold \in Nat /\ Saturated \in Nat
  /\ InitialOccupancy \in [Queues -> 0 .. MaxOccupancy]
  /\ Total(InitialOccupancy) <= Threshold
  /\ Threshold < Saturated /\ Saturated <= MaxOccupancy
  /\ Bursts \subseteq Nat \ {0} /\ NoSlot \notin Slots /\ MaxFailures \in Nat

VARIABLES
  occupancy, bufferbloat,  \* of the shared state
  summed, total_occ,       \* daemon: queues it has read, and their sum
  handling, written,       \* server thread: the request in hand, writes done for it
  fetches,                 \* requests under way
  shown,                   \* alarm in the page, and whether it came from the server
  simBufferbloat,          \* clientSimState.bufferbloat
  failures

sharedVars == <<occupancy, bufferbloat>>
daemonVars == <<summed, total_occ>>
serverVars == <<handling, written>>
pageVars == <<fetches, shown, simBufferbloat, failures>>
vars == <<sharedVars, daemonVars, serverVars, pageVars>>

Kinds == {"telemetry", "burst", "ddos", "bufferbloat"}
Idle == [kind |-> "none", stage |-> "idle", flag |-> FALSE]
Sent(kind) == [kind |-> kind, stage |-> "sent", flag |-> FALSE]

Init ==
  /\ occupancy = InitialOccupancy /\ bufferbloat = FALSE
  /\ summed = 0 /\ total_occ = 0
  /\ handling = NoSlot /\ written = 0
  /\ fetches = [i \in Slots |-> Idle]
  /\ shown = [alarm |-> FALSE, live |-> FALSE]
  /\ simBufferbloat = FALSE /\ failures = 0

-----------------------------------------------------------------------------
\* Mutant of Reading: the last queue is not counted.
ReadingShort(i) == IF i < NumQueues - 1 THEN occupancy[i] ELSE 0

Reading(i) == occupancy[i]

\* telemetry_daemon reads the occupancies one by one ...
DaemonSum ==
  /\ summed < NumQueues
  /\ total_occ' = total_occ + Reading(summed)
  /\ summed' = summed + 1
  /\ UNCHANGED <<sharedVars, serverVars, pageVars>>

\* ... and writes its verdict over whatever the flag is by then.
DaemonFlag ==
  /\ summed = NumQueues
  /\ bufferbloat' = (total_occ > Threshold)
  /\ summed' = 0 /\ total_occ' = 0
  /\ UNCHANGED <<occupancy, serverVars, pageVars>>

-----------------------------------------------------------------------------
\* The server thread takes up any request that has arrived.
Accept(i) ==
  /\ handling = NoSlot /\ fetches[i].stage = "sent"
  /\ handling' = i /\ written' = 0
  /\ UNCHANGED <<sharedVars, daemonVars, pageVars>>

Handles(kind) == handling # NoSlot /\ fetches[handling].kind = kind

\* /api/inject/burst, queue by queue.
Burst(n) ==
  /\ Handles("burst") /\ written < NumQueues
  /\ occupancy' = [occupancy EXCEPT ![written] =
                     IF @ + n < MaxOccupancy THEN @ + n ELSE MaxOccupancy]
  /\ written' = written + 1
  /\ UNCHANGED <<bufferbloat, daemonVars, handling, pageVars>>

\* Mutant of CauseNext: the flag before its cause.
CauseNextLate == written = 1

CauseNext == written = 0

\* /api/inject/bufferbloat: the occupancy, which may have been higher, then the flag.
Saturate ==
  /\ Handles("bufferbloat") /\ written < 2
  /\ IF CauseNext
     THEN occupancy' = [occupancy EXCEPT ![Bulk] = Saturated] /\ UNCHANGED bufferbloat
     ELSE bufferbloat' = TRUE /\ UNCHANGED occupancy
  /\ written' = written + 1
  /\ UNCHANGED <<daemonVars, handling, pageVars>>

\* The answer, when the handler has made its writes; /api/inject/ddos makes none
\* that is modelled.
Respond ==
  /\ \/ Handles("telemetry") \/ Handles("ddos")
     \/ Handles("burst") /\ written = NumQueues
     \/ Handles("bufferbloat") /\ written = 2
  /\ fetches' = [fetches EXCEPT ![handling].stage = "answered",
                          ![handling].flag = Handles("telemetry") /\ bufferbloat]
  /\ handling' = NoSlot /\ written' = 0
  /\ UNCHANGED <<sharedVars, daemonVars, shown, simBufferbloat, failures>>

-----------------------------------------------------------------------------
\* The timer of the page calls fetchTelemetry.
Poll(i) ==
  /\ fetches[i] = Idle
  /\ fetches' = [fetches EXCEPT ![i] = Sent("telemetry")]
  /\ UNCHANGED <<sharedVars, daemonVars, serverVars, shown, simBufferbloat, failures>>

\* A button calls injectTraffic.
Inject(i, kind) ==
  /\ fetches[i] = Idle
  /\ fetches' = [fetches EXCEPT ![i] = Sent(kind)]
  /\ UNCHANGED <<sharedVars, daemonVars, serverVars, shown, simBufferbloat, failures>>

\* fetchTelemetry draws its answer, an older one than that drawn before perhaps.
Draw(i) ==
  /\ fetches[i].kind = "telemetry" /\ fetches[i].stage = "answered"
  /\ shown' = [alarm |-> fetches[i].flag, live |-> TRUE]
  /\ fetches' = [fetches EXCEPT ![i] = Idle]
  /\ UNCHANGED <<sharedVars, daemonVars, serverVars, simBufferbloat, failures>>

\* injectTraffic goes on to fetchTelemetry when it has been answered.
Refetch(i) ==
  /\ fetches[i].kind \in Kinds \ {"telemetry"} /\ fetches[i].stage = "answered"
  /\ fetches' = [fetches EXCEPT ![i] = Sent("telemetry")]
  /\ UNCHANGED <<sharedVars, daemonVars, serverVars, shown, simBufferbloat, failures>>

Fails(i) ==
  /\ fetches[i] # Idle /\ handling # i /\ failures < MaxFailures
  /\ failures' = failures + 1
  /\ fetches' = [fetches EXCEPT ![i] = Idle]

\* The catch of fetchTelemetry draws a simulated tick.
FetchFails(i) ==
  /\ fetches[i].kind = "telemetry" /\ Fails(i)
  /\ shown' = [alarm |-> simBufferbloat, live |-> FALSE]
  /\ UNCHANGED <<sharedVars, daemonVars, serverVars, simBufferbloat>>

\* An injection that fails is simulated, whether or not the server made it.
InjectFails(i) ==
  /\ fetches[i].kind # "telemetry" /\ Fails(i)
  /\ simBufferbloat' = (simBufferbloat \/ fetches[i].kind = "bufferbloat")
  /\ shown' = [alarm |-> simBufferbloat', live |-> FALSE]
  /\ UNCHANGED <<sharedVars, daemonVars, serverVars>>

-----------------------------------------------------------------------------
Daemon == DaemonSum \/ DaemonFlag

Server ==
  \/ \E i \in Slots : Accept(i)
  \/ \E n \in Bursts : Burst(n)
  \/ Saturate \/ Respond

Receive(i) == Draw(i) \/ Refetch(i)

Next ==
  \/ Daemon \/ Server
  \/ \E i \in Slots : Poll(i) \/ Receive(i) \/ FetchFails(i) \/ InjectFails(i)
  \/ \E i \in Slots, kind \in Kinds \ {"telemetry"} : Inject(i, kind)

Spec == Init /\ [][Next]_vars

\* The daemon and the server thread run, the timer ticks, and an answer that is
\* not lost reaches the page.  Nothing is assumed of the order of requests.
Fairness ==
  /\ WF_vars(Daemon) /\ WF_vars(Server)
  /\ WF_vars(\E i \in Slots : Poll(i))
  /\ \A i \in Slots : WF_vars(Receive(i))

FairSpec == Spec /\ Fairness

-----------------------------------------------------------------------------
\* Types, part of AlarmHasCause.
TypeOK ==
  /\ occupancy \in [Queues -> 0 .. MaxOccupancy] /\ bufferbloat \in BOOLEAN
  /\ summed \in 0 .. NumQueues /\ total_occ \in 0 .. NumQueues * MaxOccupancy
  /\ handling \in Slots \cup {NoSlot} /\ written \in (0 .. NumQueues) \cup {2}
  /\ fetches \in [Slots -> [kind : Kinds \cup {"none"}, flag : BOOLEAN,
                            stage : {"idle", "sent", "answered"}]]
  /\ shown \in [alarm : BOOLEAN, live : BOOLEAN]
  /\ simBufferbloat \in BOOLEAN /\ failures \in 0 .. MaxFailures

\* No false alarm: whatever mixture of old and new occupancies the daemon adds up
\* while a handler writes them, and however late an answer is drawn, an alarm in
\* the server, on its way or drawn from an answer has its cause in the queues.
AlarmHasCause ==
  /\ TypeOK
  /\ \/ bufferbloat
     \/ \E i \in Slots : fetches[i].flag
     \/ shown.live /\ shown.alarm
     => Total(occupancy) > Threshold

\* The daemon may overwrite an injected alarm with the verdict on a sum it took
\* before, and the page may draw stale answers or switch to its simulation; but
\* overloaded queues end in an alarm that stays, in the server and in the page.
AlarmLasts ==
  Total(occupancy) > Threshold ~> [](bufferbloat /\ shown.alarm /\ shown.live)
=============================================================================
