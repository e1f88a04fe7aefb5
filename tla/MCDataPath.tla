----------------------------- MODULE MCDataPath -----------------------------
(* A bounded instance of DataPath for TLC, checksums on short data included. *)
EXTENDS DataPath

Frame(type, tagged, proto, port, complete, size) ==
  [type |-> type, tagged |-> tagged, proto |-> proto, port |-> port,
   short_ihl |-> FALSE, complete |-> complete, size |-> size]

DnsFrame == Frame("ip", FALSE, "udp", "control", 3, 1)
TaggedDns == Frame("ip", TRUE, "udp", "control", 4, 1)
StreamFrame == Frame("ip", FALSE, "udp", "plain", 3, 2)
TcpFrame == Frame("ip", FALSE, "tcp", "plain", 3, 2)
FloodFrame == Frame("ip", FALSE, "udp", "flood", 3, 1)
ArpFrame == Frame("arp", FALSE, "udp", "plain", 2, 1)
Runt == Frame("ip", TRUE, "udp", "flood", 2, 1)  \* cut off in the IP header
Mix == {DnsFrame, TaggedDns, StreamFrame, TcpFrame, FloodFrame, ArpFrame, Runt}

Metas == {ParseHeaders(f) : f \in Mix}
Dns == ParseHeaders(DnsFrame)       \* class 0, by the rule for it
Stream == ParseHeaders(StreamFrame) \* class 1 when new, then 3
Flood == ParseHeaders(FloodFrame)   \* dropped by the hook
Unknown == ParseHeaders(Runt)       \* dropped by the filter

\* A hook that aborts and redirects, then the hook of main.cpp.
Hooks == <<[h \in Metas |-> IF h = Stream THEN "ABORTED"
                            ELSE IF h.proto = "arp" THEN "REDIRECT" ELSE "PASS"],
           [h \in Metas |-> IF h.proto = "udp" /\ h.port = "flood" THEN "DROP" ELSE "PASS"]>>

\* A rule that queues, as that of main.cpp, one that rejects, and one that drops
\* what it can of the others.
Chain == <<[matches |-> {Dns}, verdict |-> "QOS_QUEUE", class |-> 0],
           [matches |-> {Stream}, verdict |-> "REJECT", class |-> 0],
           [matches |-> {Dns, Stream, Unknown}, verdict |-> "DROP", class |-> 0]>>

Weights == [i \in 0 .. 4 |-> 1]
=============================================================================
