---------------------------- MODULE VirtualNetDev ----------------------------
(***************************************************************************)
(* One direction of a virtual network device (core/virtual_netdev.cpp): a  *)
(* ring and the two counters kept beside it. enqueue_rx and dequeue_rx are *)
(* modelled; enqueue_tx and dequeue_tx are the same code on the other      *)
(* ring. The counters are plain integers that only the enqueueing thread   *)
(* writes, after push has returned: the other thread may already have      *)
(* taken out the packet that is about to be counted.                       *)
(***************************************************************************)
EXTENDS SPSCRing

VARIABLES
  packets_, drops_,  \* rx_packets_ and rx_drops_, as wide as the indices
  pushed             \* what push returned to enqueue_rx: "yes", "no", or "none" yet

countVars == <<packets_, drops_>>
deviceVars == <<vars, countVars, pushed>>

DeviceInit == Init /\ packets_ = 0 /\ drops_ = 0 /\ pushed = "none"

\* enqueue_rx calls push ...
EnqueueRx ==
  /\ pushed = "none"
  /\ Producer
  /\ pushed' = CASE pPc' # "idle" -> "none"
                 [] pPc' = "idle" /\ tail_' = tail_ -> "no"
                 [] OTHER -> "yes"
  /\ UNCHANGED countVars

\* Mutant of CountPacket: the width of the counter falls short of that of the indices.
CountPacketNarrow ==
  pushed = "yes" /\ packets_' = (packets_ + 1) % Capacity /\ UNCHANGED drops_

\* ... and counts what has become of the packet.
CountPacket == pushed = "yes" /\ packets_' = Advance(packets_) /\ UNCHANGED drops_

CountDrop == pushed = "no" /\ drops_' = Advance(drops_) /\ UNCHANGED packets_

Count == (CountPacket \/ CountDrop) /\ pushed' = "none" /\ UNCHANGED vars

DequeueRx == Consumer /\ UNCHANGED <<countVars, pushed>>

DeviceNext == EnqueueRx \/ Count \/ DequeueRx

DeviceSpec == DeviceInit /\ [][DeviceNext]_deviceVars /\ Fairness

-----------------------------------------------------------------------------
Calling == pPc # "idle" \/ pushed # "none"

\* The counters tell what the ring took, whatever the consumer does in between:
\* packets_ is the number of packets that have entered the ring, short of the one
\* just pushed at most, also when it wraps, and every call that returns has moved
\* one counter, by one.
DeviceCounts ==
  /\ [](packets_ = IF pushed = "yes" THEN (tail_ - 1) % Modulus ELSE tail_)
  /\ [][Distance(packets_', packets_) + Distance(drops_', drops_)
          = IF Calling /\ ~Calling' THEN 1 ELSE 0]_deviceVars
=============================================================================
