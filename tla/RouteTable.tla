----------------------------- MODULE RouteTable -----------------------------
(***************************************************************************)
(* What a longest-prefix-match table promises: a prefix has at most one    *)
(* route, the last one inserted; a lookup answers with the route of the    *)
(* longest prefix of the address that has one.                             *)
(***************************************************************************)
EXTENDS Integers

CONSTANTS
  Width,    \* bits of an address
  Hops,     \* where a route leads: next hop, interface and metric
  NoRoute, NoAddress

Bit == {0, 1}
Addresses == [1 .. Width -> Bit]
Lengths == 0 .. Width
\* The first n bits of address a.
Path(a, n) == [i \in 1 .. n |-> a[i]]
Paths == UNION {[1 .. n -> Bit] : n \in Lengths}

Routes == [prefix : Addresses, prefix_len : Lengths, hop : Hops]

VARIABLES
  table,    \* the route of each prefix, or NoRoute
  asked,    \* the address being looked up, or NoAddress
  answer    \* what the last call returned

vars == <<table, asked, answer>>

Matches(t, a, n) == t[Path(a, n)] # NoRoute

\* r is the right answer for address a.
IsLongestMatch(t, a, r) ==
  \/ /\ r = NoRoute
     /\ \A n \in Lengths : ~Matches(t, a, n)
  \/ \E n \in Lengths :
       /\ Matches(t, a, n) /\ r = t[Path(a, n)]
       /\ \A m \in n + 1 .. Width : ~Matches(t, a, m)

Init ==
  /\ table = [p \in Paths |-> NoRoute]
  /\ asked = NoAddress
  /\ answer = [ok |-> FALSE, route |-> NoRoute]

Insert(a, n, hop) ==
  /\ asked = NoAddress
  /\ table' = [table EXCEPT ![Path(a, n)] = [prefix |-> a, prefix_len |-> n, hop |-> hop]]
  /\ answer' = [ok |-> TRUE, route |-> NoRoute]
  /\ UNCHANGED asked

Delete(a, n) ==
  /\ asked = NoAddress
  /\ answer' = [ok |-> Matches(table, a, n), route |-> NoRoute]
  /\ table' = [table EXCEPT ![Path(a, n)] = NoRoute]
  /\ UNCHANGED asked

\* A call with a length that no prefix has.
Reject ==
  /\ asked = NoAddress
  /\ answer' = [ok |-> FALSE, route |-> NoRoute]
  /\ UNCHANGED <<table, asked>>

Ask(a) ==
  /\ asked = NoAddress
  /\ asked' = a
  /\ UNCHANGED <<table, answer>>

Reply ==
  /\ asked # NoAddress
  /\ asked' = NoAddress
  /\ \E r \in Routes \cup {NoRoute} :
       /\ IsLongestMatch(table, asked, r)
       /\ answer' = [ok |-> r # NoRoute, route |-> r]
  /\ UNCHANGED table

Next ==
  \/ \E a \in Addresses, n \in Lengths, hop \in Hops : Insert(a, n, hop)
  \/ \E a \in Addresses, n \in Lengths : Delete(a, n)
  \/ Reject
  \/ \E a \in Addresses : Ask(a)
  \/ Reply

Spec == Init /\ [][Next]_vars
=============================================================================
