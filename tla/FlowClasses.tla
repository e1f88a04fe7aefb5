----------------------------- MODULE FlowClasses -----------------------------
(***************************************************************************)
(* The traffic classes of core/packet.hpp and the decision tree of         *)
(* FlowClassifier::classify_flow, which chooses one from a flow's protocol *)
(* and ports, the number and mean size of its packets, and the burstiness  *)
(* of their arrival.                                                       *)
(***************************************************************************)
EXTENDS Integers, Sequences

CONSTANTS
  Small, Large, Mtu,  \* packet sizes the tree compares with: 300, 1000, 1400
  VideoAfter          \* packets of a flow before it can be video (10)

Voice == 0
Gaming == 1
Video == 2
BestEffort == 3
Bulk == 4

\* Standard deviation over mean, in percent, from which arrival counts as less
\* steady; a burstiness is the number of these a flow has reached.
Ratios == <<80, 120, 150>>
Burstinesses == 0 .. Len(Ratios)

\* The burstiness a flow of n packets may have: two intervals are needed for one.
Burstiness(n) == IF n < 3 THEN {0} ELSE Burstinesses

\* Mutant of ControlTraffic: the parser's number for ARP is not known.
ControlPorts(h) == h.port = "control" \/ h.proto = "icmp"

ControlTraffic(h) == h.port = "control" \/ h.proto \in {"arp", "icmp"}

\* mean is a sum of sizes and the number of packets it is a sum of.
ClassifyFlow(h, n, mean, burst) ==
  LET gaming == h.proto = "udp" /\ mean.sum < Small * mean.of /\ burst <= 1
      video == mean.sum > Large * mean.of /\ burst = 0 /\ n > VideoAfter
      bulk == h.proto = "tcp" /\ mean.sum >= Mtu * mean.of /\ burst = 3
  IN IF ControlTraffic(h) THEN Voice
     ELSE IF gaming THEN Gaming
     ELSE IF video THEN Video
     ELSE IF bulk THEN Bulk
     ELSE BestEffort
=============================================================================
