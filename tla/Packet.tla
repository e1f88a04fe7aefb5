------------------------------- MODULE Packet -------------------------------
(***************************************************************************)
(* Packet::parse_headers of src/core/packet.cpp: what the pipeline knows   *)
(* of a frame.  A frame is the stack of headers it was sent with, of which *)
(* only the first `complete` are wholly in the buffer; the sizes of        *)
(* headers are abstracted to that number, and the two ports to the one     *)
(* that decides something.  Addresses, which only identify flows, and      *)
(* payload_size, which nothing reads, are left out.                        *)
(***************************************************************************)
EXTENDS Naturals

FrameType(sizes) ==
  [tagged : BOOLEAN,                     \* an 802.1Q tag follows the addresses
   type : {"ip", "arp", "other"},        \* ether type, the inner one if tagged
   proto : {"tcp", "udp", "icmp"},       \* protocol field of the IPv4 header
   short_ihl : BOOLEAN,                  \* its length field is below 20
   port : {"control", "flood", "plain"}, \* 53 or 5060, 9999, any other
   complete : 0 .. 4,
   size : sizes]

\* Mutant of L3: the tag is skipped without advancing the offset.
L3Untagged(frame) == 2

\* Position of the network header in the stack.
L3(frame) == IF frame.tagged THEN 3 ELSE 2

\* Mutant of Ports: ports read up to the end of the buffer and beyond.
PortsUnchecked(frame) == IF frame.proto \in {"tcp", "udp"} THEN frame.port ELSE "none"

\* Ports are left at 0 when the transport header is not there or cut off.
Ports(frame) ==
  IF frame.proto \in {"tcp", "udp"} /\ frame.complete > L3(frame)
  THEN frame.port ELSE "none"

\* parse_headers returns false and leaves the metadata as constructed.
Unparsable(frame) ==
  \/ frame.complete < L3(frame)
  \/ frame.type = "other"
  \/ frame.type = "ip" /\ frame.short_ihl

\* The metadata after parse_headers.
ParseHeaders(frame) ==
  IF Unparsable(frame) THEN [proto |-> "none", port |-> "none", size |-> frame.size]
  ELSE IF frame.type = "arp" THEN [proto |-> "arp", port |-> "none", size |-> frame.size]
  ELSE [proto |-> frame.proto, port |-> Ports(frame), size |-> frame.size]

\* parse_headers puts an ARP packet into the class VOICE_CONTROL itself.
MarkedVoice(frame) == ~Unparsable(frame) /\ frame.type = "arp"

-----------------------------------------------------------------------------
\* Two frames whose complete headers agree.
SameBytes(f, g) ==
  /\ f.complete = g.complete /\ f.size = g.size
  /\ f.complete >= 1 => f.tagged = g.tagged /\ (f.tagged \/ f.type = g.type)
  /\ f.complete >= 2 => f.type = g.type
  /\ f.complete >= L3(f) => f.proto = g.proto /\ f.short_ihl = g.short_ihl
  /\ f.complete > L3(f) => f.port = g.port

\* The metadata depends on the bytes in the buffer only: whatever header a frame
\* is cut off in, tagged or not, nothing beyond the cut shows.
MetadataFromBuffer(sizes) ==
  \A f, g \in FrameType(sizes) : SameBytes(f, g) => ParseHeaders(f) = ParseHeaders(g)

\* A tag changes nothing but the place of the headers behind it.
TagTransparent(sizes) ==
  \A f \in FrameType(sizes) :
    f.tagged /\ f.complete > 0 =>
      ParseHeaders(f) = ParseHeaders([f EXCEPT !.tagged = FALSE, !.complete = @ - 1])
=============================================================================
