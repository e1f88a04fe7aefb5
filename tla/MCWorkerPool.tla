---------------------------- MODULE MCWorkerPool ----------------------------
(* Bounded instances of WorkerPool for TLC. *)
EXTENDS WorkerPool

\* Both directions of one connection, and a second connection.
Header(s, d, sport, dport, n) ==
  [src_ip |-> s, dest_ip |-> d, src_port |-> sport, dest_port |-> dport,
   l3_proto |-> 6, size |-> n]
TwoConnections == {Header(1, 2, 7, 8, 1), Header(2, 1, 8, 7, 1), Header(3, 2, 7, 8, 1)}

\* A hash that tells the two directions apart unless they are sorted first, and
\* puts the two connections on different cores.
Uneven(key) == key[1] + 2 * key[2]
=============================================================================
