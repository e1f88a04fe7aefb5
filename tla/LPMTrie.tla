------------------------------ MODULE LPMTrie ------------------------------
(***************************************************************************)
(* The routing table of src/core/lpm_trie.cpp: a binary trie, one level    *)
(* per bit of the address.  A node is the path from the root that leads to *)
(* it.  insert_route and delete_route change the trie in one step, lookup  *)
(* descends one level per step; the class has no lock, so one thread at a  *)
(* time uses it.  The overloads that take text convert it first; one whose *)
(* length is not a number throws before anything has changed.              *)
(***************************************************************************)
EXTENDS Integers, FiniteSets

CONSTANTS
  Width,         \* 32
  Hops,          \* next_hop_ip, egress_ifindex and metric of a route
  LengthModulus, \* number of values of uint8_t
  TextLengths,   \* numbers that may follow the slash
  NoSlash,       \* there is none
  NoRoute, NoAddress

Bit == {0, 1}
Addresses == [1 .. Width -> Bit]
Lengths == 0 .. Width
Path(a, n) == [i \in 1 .. n |-> a[i]]
Paths == UNION {[1 .. n -> Bit] : n \in Lengths}
Root == Path([i \in 1 .. Width |-> 0], 0)

Routes == [prefix : Addresses, prefix_len : Lengths, hop : Hops]
ASSUME TrieAssumption ==
  /\ Width \in Nat /\ LengthModulus \in Nat \ Lengths
  /\ TextLengths \subseteq Nat \cup {NoSlash}
  /\ NoRoute \notin Routes /\ NoAddress \notin Addresses

True == [ok |-> TRUE, route |-> NoRoute]
False == [ok |-> FALSE, route |-> NoRoute]

VARIABLES
  nodes,        \* paths to the nodes of the trie
  entry,        \* the entry of each node, NoRoute where there is none or no node
  route_count,  \* route_count_
  dest_ip,      \* lookup under way: its address, or NoAddress
  depth,        \* its current node: the first depth bits of dest_ip
  best_match,
  returned      \* what the last call returned

trieVars == <<nodes, entry, route_count>>
lookupVars == <<dest_ip, depth, best_match>>
vars == <<trieVars, lookupVars, returned>>

Idle == dest_ip = NoAddress

-----------------------------------------------------------------------------
Init ==
  /\ nodes = {Root}
  /\ entry = [p \in Paths |-> NoRoute]
  /\ route_count = 0
  /\ dest_ip = NoAddress /\ depth = 0 /\ best_match = NoRoute
  /\ returned = False

\* ip_from_string: text that is not an address becomes 0.0.0.0.
IpFromString(text) == IF text = NoAddress THEN [i \in 1 .. Width |-> 0] ELSE text

\* The length in a text: a uint8_t, Width if there is none.
LengthFromString(text) == IF text = NoSlash THEN Width ELSE text % LengthModulus

\* Mutant of Way: the last node is not made.
WayToParent(a, n) == {Path(a, m) : m \in 0 .. n - 1}

\* The nodes that a descent by n bits visits and makes.
Way(a, n) == {Path(a, m) : m \in 0 .. n}

\* Mutant of CountWith: a route that replaces another counts.
CountWithAny(p) == route_count + 1

\* The number of routes when p has one.
CountWith(p) == IF entry[p] = NoRoute THEN route_count + 1 ELSE route_count

\* The entry keeps the bits of the prefix beyond its length.
InsertRoute(a, n, hop) ==
  /\ n \in Lengths
  /\ nodes' = nodes \cup Way(a, n)
  /\ entry' = [entry EXCEPT ![Path(a, n)] = [prefix |-> a, prefix_len |-> n, hop |-> hop]]
  /\ route_count' = CountWith(Path(a, n))
  /\ returned' = True

\* insert_route with a length above Width.
TooLong(n) ==
  /\ n > Width
  /\ returned' = False
  /\ UNCHANGED trieVars

Insert(a, n, hop) ==
  /\ Idle
  /\ InsertRoute(a, n, hop) \/ TooLong(n)
  /\ UNCHANGED lookupVars

\* insert_route("<address>/<length>", ...)
InsertCidr(address, length, hop) ==
  LET a == IpFromString(address)
      n == LengthFromString(length)
  IN /\ Idle
     /\ InsertRoute(a, n, hop) \/ TooLong(n)
     /\ UNCHANGED lookupVars

\* delete_route finds a node for the prefix, and an entry in it.
Present(a, n) ==
  /\ n \in Lengths
  /\ \A m \in 0 .. n : Path(a, m) \in nodes
  /\ entry[Path(a, n)] # NoRoute

\* There is no such length, node or entry: nothing changes.
DeleteAbsent(a, n) ==
  /\ Idle /\ ~Present(a, n)
  /\ returned' = False
  /\ UNCHANGED <<trieVars, lookupVars>>

\* The entry goes, its node and the path to it stay.
Delete(a, n) ==
  /\ Idle /\ Present(a, n)
  /\ entry' = [entry EXCEPT ![Path(a, n)] = NoRoute]
  /\ route_count' = route_count - 1
  /\ returned' = True
  /\ UNCHANGED <<nodes, lookupVars>>

Lookup(a) ==
  /\ Idle
  /\ dest_ip' = a
  /\ depth' = 0
  /\ best_match' = entry[Root]
  /\ UNCHANGED <<trieVars, returned>>

HasChild == depth < Width /\ Path(dest_ip, depth + 1) \in nodes

\* Mutant of Better: every node on the way replaces the best match.
BetterAny(e) == e

\* A longer match replaces a shorter one.
Better(e) == IF e # NoRoute THEN e ELSE best_match

Descend ==
  /\ ~Idle /\ HasChild
  /\ depth' = depth + 1
  /\ best_match' = Better(entry[Path(dest_ip, depth + 1)])
  /\ UNCHANGED <<trieVars, dest_ip, returned>>

\* The loop breaks at a missing child or ends at the last bit.
Return ==
  /\ ~Idle /\ ~HasChild
  /\ returned' = [ok |-> best_match # NoRoute, route |-> best_match]
  /\ dest_ip' = NoAddress /\ depth' = 0 /\ best_match' = NoRoute
  /\ UNCHANGED trieVars

Next ==
  \/ \E a \in Addresses, n \in 0 .. Width + 1, hop \in Hops : Insert(a, n, hop)
  \/ \E address \in Addresses \cup {NoAddress}, length \in TextLengths, hop \in Hops :
       InsertCidr(address, length, hop)
  \/ \E a \in Addresses, n \in 0 .. Width + 1 : DeleteAbsent(a, n) \/ Delete(a, n)
  \/ \E address \in Addresses \cup {NoAddress} : Lookup(IpFromString(address))
  \/ Descend \/ Return

Spec == Init /\ [][Next]_vars

-----------------------------------------------------------------------------
\* Types, part of Connected.
TypeOK ==
  /\ nodes \subseteq Paths
  /\ entry \in [Paths -> Routes \cup {NoRoute}]
  /\ route_count \in Nat
  /\ dest_ip \in Addresses \cup {NoAddress}
  /\ depth \in Lengths
  /\ best_match \in Routes \cup {NoRoute}
  /\ returned \in [ok : BOOLEAN, route : Routes \cup {NoRoute}]

Linked ==
  /\ \A a \in Addresses, n \in Lengths :
       Path(a, n) \in nodes => \A m \in 0 .. n : Path(a, m) \in nodes
  /\ \A p \in Paths : entry[p] # NoRoute => p \in nodes

\* The trie is connected and every route hangs in it: whatever was deleted on
\* the way, a descent by the bits of a prefix reaches its route.
Connected == TypeOK /\ Linked

\* route_count() is the number of routes, through replacements, deletions and
\* deletions of what is not there.
CountExact == route_count = Cardinality({p \in Paths : entry[p] # NoRoute})

Table == INSTANCE RouteTable
           WITH table <- entry, asked <- dest_ip, answer <- returned

\* Inserting, replacing, deleting and bit-by-bit lookup with early break
\* implement a longest-prefix-match table.
ImplementsTable == Table!Spec
=============================================================================
