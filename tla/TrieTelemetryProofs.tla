------------------------- MODULE TrieTelemetryProofs -------------------------
(***************************************************************************)
(* Proofs about LPMTrie for every address width and every set of routes:   *)
(* the trie stays connected, its count is exact, and it implements         *)
(* RouteTable.  Then about TelemetryServer, which shares nothing with it,  *)
(* for any queues, bursts and requests: no alarm is false.                 *)
(***************************************************************************)
EXTENDS LPMTrie, CountingLemmas, FiniteSetTheorems, TLAPS

\* The constants and variables of TelemetryServer, and its definitions.
CONSTANTS
  NumQueues, Bulk, InitialOccupancy, MaxOccupancy, Threshold, Saturated, Bursts,
  Slots, NoSlot, MaxFailures

VARIABLES
  occupancy, bufferbloat, summed, total_occ, handling, written, fetches, shown,
  simBufferbloat, failures

T == INSTANCE TelemetryServer

-----------------------------------------------------------------------------
(* Paths. *)

\* The first n bits of an address are a path.
LEMMA PathType ==
  ASSUME NEW a \in Addresses, NEW n \in Lengths
  PROVE  Path(a, n) \in Paths
<1>1. Path(a, n) \in [1 .. n -> Bit]
  BY TrieAssumption DEF Path, Addresses, Lengths
<1> QED BY <1>1 DEF Paths

\* The root is the path of no bits.
LEMMA RootIsPath ==
  /\ Root \in Paths
  /\ \A a \in Addresses : Path(a, 0) = Root
<1>1. [i \in 1 .. Width |-> 0] \in Addresses
  BY DEF Addresses, Bit
<1>2. 0 \in Lengths
  BY TrieAssumption DEF Lengths
<1>3. Root \in Paths
  BY <1>1, <1>2, PathType DEF Root
<1>4. \A a \in Addresses : Path(a, 0) = Root
  BY DEF Path, Root
<1> QED BY <1>3, <1>4

\* Two addresses that share a path share its beginnings.
LEMMA SharedPath ==
  ASSUME NEW a \in Addresses, NEW b \in Addresses,
         NEW n \in Lengths, NEW k \in Lengths,
         Path(a, n) = Path(b, k)
  PROVE  /\ n = k
         /\ \A m \in 0 .. k : Path(a, m) = Path(b, m)
<1> USE TrieAssumption DEF Lengths
<1>1. DOMAIN Path(a, n) = 1 .. n /\ DOMAIN Path(b, k) = 1 .. k
  BY DEF Path
<1>2. 1 .. n = 1 .. k
  BY <1>1
<1>3. n = k
  <2>1. CASE n < k
    <3>1. k \in 1 .. k /\ k \notin 1 .. n  BY <2>1
    <3> QED BY <3>1, <1>2
  <2>2. CASE k < n
    <3>1. n \in 1 .. n /\ n \notin 1 .. k  BY <2>2
    <3> QED BY <3>1, <1>2
  <2> QED BY <2>1, <2>2
<1>4. \A i \in 1 .. k : a[i] = b[i]
  <2> TAKE i \in 1 .. k
  <2>1. Path(a, n)[i] = a[i] /\ Path(b, k)[i] = b[i]
    BY <1>3 DEF Path
  <2> QED BY <2>1
<1>5. \A m \in 0 .. k : Path(a, m) = Path(b, m)
  BY <1>4 DEF Path
<1> QED BY <1>3, <1>5

-----------------------------------------------------------------------------
(* The invariant. *)

\* r is the route of the longest of the first d + 1 prefixes of a.
BestUpTo(a, d, r) ==
  \/ /\ r = NoRoute
     /\ \A m \in 0 .. d : entry[Path(a, m)] = NoRoute
  \/ \E n \in 0 .. d :
       /\ entry[Path(a, n)] # NoRoute /\ r = entry[Path(a, n)]
       /\ \A m \in n + 1 .. d : entry[Path(a, m)] = NoRoute

\* A lookup under way stands on a node of its address and knows the best match
\* so far.
LookupInv == ~Idle => BestUpTo(dest_ip, depth, best_match)

\* The nodes with an entry, and route_count_ as their number.
Routed(e) == {p \in Paths : e[p] # NoRoute}
Counted == IsFiniteSet(Routed(entry)) /\ route_count = Cardinality(Routed(entry))

\* The inductive invariant.
IInv == TypeOK /\ Linked /\ LookupInv /\ Counted

\* The empty trie satisfies it.
LEMMA InitIInv == Init => IInv
<1> SUFFICES ASSUME Init PROVE IInv  OBVIOUS
<1> USE TrieAssumption DEF Init
<1>1. TypeOK
  BY RootIsPath DEF TypeOK, Lengths, False
<1>2. Linked
  <2>1. ASSUME NEW a \in Addresses, NEW n \in Lengths, Path(a, n) \in nodes
        PROVE  \A m \in 0 .. n : Path(a, m) \in nodes
    <3>1. 0 \in Lengths  BY DEF Lengths
    <3>2. Path(a, n) = Path(a, 0)  BY <2>1, RootIsPath
    <3>3. n = 0  BY <3>1, <3>2, SharedPath
    <3> QED BY <3>3, <2>1
  <2>2. \A p \in Paths : entry[p] = NoRoute  OBVIOUS
  <2> QED BY <2>1, <2>2 DEF Linked
<1>3. LookupInv
  BY DEF LookupInv, Idle
<1>4. Counted
  <2>1. Routed(entry) = {}  BY DEF Routed
  <2> QED BY <2>1, FS_EmptySet DEF Counted
<1> QED BY <1>1, <1>2, <1>3, <1>4 DEF IInv

\* Setting the entry of one path keeps the set of routes finite and changes its
\* size by at most one.
LEMMA SetEntry ==
  ASSUME Counted, TypeOK, NEW p \in Paths, NEW r \in Routes \cup {NoRoute},
         entry' = [entry EXCEPT ![p] = r],
         route_count' = IF entry[p] = NoRoute
                        THEN IF r = NoRoute THEN route_count ELSE route_count + 1
                        ELSE IF r = NoRoute THEN route_count - 1 ELSE route_count
  PROVE  Counted' /\ route_count' \in Nat
<1>1. CASE r = NoRoute
  <2>1. Routed(entry') = Routed(entry) \ {p}
    BY <1>1 DEF Routed, TypeOK
  <2>2. p \in Routed(entry) <=> entry[p] # NoRoute
    BY DEF Routed
  <2>3. /\ IsFiniteSet(Routed(entry) \ {p})
        /\ Cardinality(Routed(entry) \ {p}) =
             IF p \in Routed(entry) THEN Cardinality(Routed(entry)) - 1
             ELSE Cardinality(Routed(entry))
    BY FS_RemoveElement DEF Counted
  <2>4. route_count' = Cardinality(Routed(entry'))
    BY <1>1, <2>1, <2>2, <2>3 DEF Counted
  <2>5. IsFiniteSet(Routed(entry'))
    BY <2>1, <2>3
  <2> QED BY <2>4, <2>5, FS_CardinalityType DEF Counted, Routed
<1>2. CASE r # NoRoute
  <2>1. Routed(entry') = Routed(entry) \cup {p}
    BY <1>2 DEF Routed, TypeOK
  <2>2. p \in Routed(entry) <=> entry[p] # NoRoute
    BY DEF Routed
  <2>3. /\ IsFiniteSet(Routed(entry) \cup {p})
        /\ Cardinality(Routed(entry) \cup {p}) =
             IF p \in Routed(entry) THEN Cardinality(Routed(entry))
             ELSE Cardinality(Routed(entry)) + 1
    BY FS_AddElement DEF Counted
  <2>4. route_count' = Cardinality(Routed(entry'))
    BY <1>2, <2>1, <2>2, <2>3 DEF Counted
  <2>5. IsFiniteSet(Routed(entry'))
    BY <2>1, <2>3
  <2> QED BY <2>4, <2>5, FS_CardinalityType DEF Counted, Routed
<1> QED BY <1>1, <1>2

\* InsertRoute, called with a length that is valid.
LEMMA InsertRouteIInv ==
  ASSUME IInv, Idle, NEW a \in Addresses, NEW n \in Nat, NEW hop \in Hops,
         InsertRoute(a, n, hop), UNCHANGED lookupVars
  PROVE  IInv'
<1> USE TrieAssumption
<1>0. n \in Lengths /\ Path(a, n) \in Paths
  BY PathType DEF InsertRoute
<1> DEFINE r == [prefix |-> a, prefix_len |-> n, hop |-> hop]
<1>1. r \in Routes /\ r # NoRoute
  BY <1>0 DEF Routes
<1>2. entry' = [entry EXCEPT ![Path(a, n)] = r]
  BY DEF InsertRoute
<1>3. Counted' /\ route_count' \in Nat
  <2>1. route_count' = IF entry[Path(a, n)] = NoRoute THEN route_count + 1 ELSE route_count
    BY DEF InsertRoute, CountWith
  <2> HIDE DEF r
  <2> QED BY <2>1, <1>0, <1>1, <1>2, SetEntry DEF IInv
<1>4. \A m \in 0 .. n : m \in Lengths /\ Path(a, m) \in Paths
  BY <1>0, PathType DEF Lengths
<1>5. nodes' \subseteq Paths
  BY <1>4 DEF InsertRoute, Way, IInv, TypeOK
<1>6. entry' \in [Paths -> Routes \cup {NoRoute}]
  BY <1>0, <1>1, <1>2 DEF IInv, TypeOK
<1>7. TypeOK'
  <2>1. returned' \in [ok : BOOLEAN, route : Routes \cup {NoRoute}]
    BY DEF InsertRoute, True
  <2> QED BY <1>3, <1>5, <1>6, <2>1 DEF IInv, TypeOK, lookupVars
<1>8. Linked'
  <2>1. ASSUME NEW b \in Addresses, NEW k \in Lengths, Path(b, k) \in nodes',
               NEW m \in 0 .. k
        PROVE  Path(b, m) \in nodes'
    <3>1. CASE Path(b, k) \in nodes
      <4>1. Path(b, m) \in nodes
        BY <3>1, <2>1 DEF IInv, Linked
      <4> QED BY <4>1 DEF InsertRoute
    <3>2. CASE Path(b, k) \notin nodes
      <4>1. PICK j \in 0 .. n : Path(b, k) = Path(a, j)
        BY <3>2, <2>1 DEF InsertRoute, Way
      <4>2. Path(b, m) = Path(a, m) /\ m \in 0 .. n
        BY <4>1, <1>4, <1>0, SharedPath, <2>1 DEF Lengths
      <4> QED BY <4>2 DEF InsertRoute, Way
    <3> QED BY <3>1, <3>2
  <2>2. Path(a, n) \in nodes'
    BY <1>0 DEF InsertRoute, Way, Lengths
  <2>3. ASSUME NEW p \in Paths, entry'[p] # NoRoute
        PROVE  p \in nodes'
    <3>1. CASE p = Path(a, n)  BY <3>1, <2>2
    <3>2. CASE p # Path(a, n)
      <4>1. entry[p] # NoRoute  BY <3>2, <2>3, <1>2 DEF IInv, TypeOK
      <4>2. p \in nodes  BY <4>1 DEF IInv, Linked
      <4> QED BY <4>2 DEF InsertRoute, Way
    <3> QED BY <3>1, <3>2
  <2> QED BY <2>1, <2>3 DEF Linked
<1>9. LookupInv'
  BY DEF LookupInv, Idle, lookupVars
<1> QED BY <1>3, <1>7, <1>8, <1>9 DEF IInv

\* Deleting a route keeps the invariant: the nodes stay.
LEMMA DeleteIInv ==
  ASSUME IInv, NEW a \in Addresses, NEW n \in Nat, Delete(a, n)
  PROVE  IInv'
<1> USE TrieAssumption
<1>0. n \in Lengths /\ Path(a, n) \in Paths /\ entry[Path(a, n)] # NoRoute
  BY PathType DEF Delete, Present
<1>1. entry' = [entry EXCEPT ![Path(a, n)] = NoRoute] /\ UNCHANGED <<nodes, lookupVars>>
  BY DEF Delete
<1>2. Counted' /\ route_count' \in Nat
  <2>1. route_count' = route_count - 1
    BY DEF Delete
  <2> QED BY <2>1, <1>0, <1>1, SetEntry DEF IInv
<1>3. TypeOK'
  <2>1. entry' \in [Paths -> Routes \cup {NoRoute}]
    BY <1>0, <1>1 DEF IInv, TypeOK
  <2>2. returned' \in [ok : BOOLEAN, route : Routes \cup {NoRoute}]
    BY DEF Delete, True
  <2> QED BY <1>1, <1>2, <2>1, <2>2 DEF IInv, TypeOK, lookupVars
<1>4. \A p \in Paths : entry'[p] # NoRoute => entry[p] # NoRoute
  BY <1>0, <1>1 DEF IInv, TypeOK
<1>5. Linked'
  BY <1>1, <1>4 DEF IInv, Linked
<1>6. LookupInv'
  BY <1>1 DEF Delete, LookupInv, Idle, lookupVars
<1> QED BY <1>2, <1>3, <1>5, <1>6 DEF IInv

\* Calls that fail change nothing but what they return.
LEMMA FailureIInv ==
  ASSUME IInv, Idle, returned' = False, UNCHANGED <<trieVars, lookupVars>>
  PROVE  IInv'
<1> USE DEF trieVars, lookupVars
<1>1. TypeOK'  BY DEF IInv, TypeOK, False
<1>2. Linked'  BY DEF IInv, Linked
<1>3. LookupInv'  BY DEF LookupInv, Idle
<1>4. Counted'  BY DEF IInv, Counted, Routed
<1> QED BY <1>1, <1>2, <1>3, <1>4 DEF IInv

\* Starting a lookup keeps it: the root's entry is the best match of no bits.
LEMMA LookupIInv ==
  ASSUME IInv, NEW a \in Addresses, Lookup(a)
  PROVE  IInv'
<1> USE TrieAssumption DEF Lookup, trieVars
<1>1. TypeOK'
  BY RootIsPath DEF IInv, TypeOK, Lengths
<1>2. Linked'
  BY DEF IInv, Linked
<1>3. Counted'
  BY DEF IInv, Counted, Routed
<1>4. LookupInv'
  <2>1. entry'[Path(a, 0)] = best_match'
    BY RootIsPath
  <2>2. \A m \in 0 .. 0 : m = 0
    OBVIOUS
  <2>3. BestUpTo(dest_ip, depth, best_match)'
    <3>1. CASE best_match' = NoRoute
      BY <3>1, <2>1, <2>2 DEF BestUpTo
    <3>2. CASE best_match' # NoRoute
      <4>1. 0 \in 0 .. 0 /\ \A m \in 0 + 1 .. 0 : FALSE  OBVIOUS
      <4> QED BY <3>2, <2>1, <4>1 DEF BestUpTo
    <3> QED BY <3>1, <3>2
  <2> QED BY <2>3 DEF LookupInv
<1> QED BY <1>1, <1>2, <1>3, <1>4 DEF IInv

\* One bit further down keeps it: the node's entry is the best match so far if it has one.
LEMMA DescendIInv ==
  ASSUME IInv, Descend
  PROVE  IInv'
<1> USE TrieAssumption DEF Descend, Better, trieVars
<1>0. /\ dest_ip \in Addresses /\ depth \in Nat /\ depth < Width
      /\ depth + 1 \in Lengths
  BY DEF IInv, TypeOK, Idle, HasChild, Lengths
<1>1. Path(dest_ip, depth + 1) \in Paths
  BY <1>0, PathType
<1>2. TypeOK'
  BY <1>0, <1>1 DEF IInv, TypeOK
<1>3. Linked'
  BY DEF IInv, Linked
<1>4. Counted'
  BY DEF IInv, Counted, Routed
<1>5. LookupInv'
  <2> DEFINE e == entry[Path(dest_ip, depth + 1)]
  <2>1. BestUpTo(dest_ip, depth, best_match)
    BY DEF IInv, LookupInv
  <2>2. best_match' = IF e # NoRoute THEN e ELSE best_match
    OBVIOUS
  <2>3. \A m \in 0 .. depth + 1 : m \in 0 .. depth \/ m = depth + 1
    BY <1>0
  <2>4. BestUpTo(dest_ip, depth + 1, best_match')
    <3>1. CASE e # NoRoute
      <4>1. best_match' = e  BY <3>1, <2>2
      <4>2. depth + 1 \in 0 .. depth + 1 /\ \A m \in (depth + 1) + 1 .. depth + 1 : FALSE
        BY <1>0
      <4> QED BY <3>1, <4>1, <4>2 DEF BestUpTo
    <3>2. CASE e = NoRoute
      <4>1. best_match' = best_match  BY <3>2, <2>2
      <4>2. CASE best_match = NoRoute /\ \A m \in 0 .. depth : entry[Path(dest_ip, m)] = NoRoute
        BY <4>1, <4>2, <2>3, <3>2 DEF BestUpTo
      <4>3. ASSUME NEW n \in 0 .. depth,
                   entry[Path(dest_ip, n)] # NoRoute,
                   best_match = entry[Path(dest_ip, n)],
                   \A m \in n + 1 .. depth : entry[Path(dest_ip, m)] = NoRoute
            PROVE  BestUpTo(dest_ip, depth + 1, best_match')
        <5>1. n \in 0 .. depth + 1  BY <1>0
        <5>2. \A m \in n + 1 .. depth + 1 : m \in n + 1 .. depth \/ m = depth + 1
          BY <1>0
        <5>3. \A m \in n + 1 .. depth + 1 : entry[Path(dest_ip, m)] = NoRoute
          BY <5>2, <4>3, <3>2
        <5> QED BY <5>1, <5>3, <4>3, <4>1 DEF BestUpTo
      <4> QED BY <4>2, <4>3, <2>1 DEF BestUpTo
    <3> QED BY <3>1, <3>2
  <2>5. BestUpTo(dest_ip, depth, best_match)'
    BY <2>4 DEF BestUpTo
  <2> QED BY <2>5 DEF LookupInv
<1> QED BY <1>2, <1>3, <1>4, <1>5 DEF IInv

\* The end of a lookup keeps it.
LEMMA ReturnIInv ==
  ASSUME IInv, Return
  PROVE  IInv'
<1> USE TrieAssumption DEF Return, trieVars
<1>1. TypeOK'  BY DEF IInv, TypeOK, Lengths
<1>2. Linked'  BY DEF IInv, Linked
<1>3. LookupInv'  BY DEF LookupInv, Idle
<1>4. Counted'  BY DEF IInv, Counted, Routed
<1> QED BY <1>1, <1>2, <1>3, <1>4 DEF IInv

\* A remainder is a natural number.
LEMMA Remainder == ASSUME NEW x \in Nat, NEW M \in Nat \ {0} PROVE x % M \in Nat
  OBVIOUS

\* What text is converted to.
LEMMA TextLength == \A text \in TextLengths : LengthFromString(text) \in Nat
<1>1. 0 \in Lengths
  BY TrieAssumption DEF Lengths
<1>2. LengthModulus \in Nat \ {0} /\ TextLengths \subseteq Nat \cup {NoSlash} /\ Width \in Nat
  BY <1>1, TrieAssumption
<1> QED BY <1>2, Remainder DEF LengthFromString

\* Text becomes an address, whether or not it is one.
LEMMA TextAddress == \A text \in Addresses \cup {NoAddress} : IpFromString(text) \in Addresses
  BY DEF IpFromString, Addresses, Bit

\* Every step keeps the invariant.
LEMMA NextIInv == IInv /\ [Next]_vars => IInv'
<1> SUFFICES ASSUME IInv, [Next]_vars PROVE IInv'  OBVIOUS
<1> USE TrieAssumption
<1>1. ASSUME NEW a \in Addresses, NEW n \in 0 .. Width + 1, NEW hop \in Hops,
             Insert(a, n, hop)
      PROVE  IInv'
  <2>1. Idle /\ UNCHANGED lookupVars /\ n \in Nat  BY <1>1 DEF Insert
  <2>2. CASE InsertRoute(a, n, hop)  BY <2>1, <2>2, InsertRouteIInv
  <2>3. CASE TooLong(n)  BY <2>1, <2>3, FailureIInv DEF TooLong
  <2> QED BY <1>1, <2>2, <2>3 DEF Insert
<1>2. ASSUME NEW address \in Addresses \cup {NoAddress}, NEW length \in TextLengths,
             NEW hop \in Hops, InsertCidr(address, length, hop)
      PROVE  IInv'
  <2> DEFINE a == IpFromString(address)
             n == LengthFromString(length)
  <2>1. Idle /\ UNCHANGED lookupVars /\ n \in Nat /\ a \in Addresses
    BY <1>2, TextLength, TextAddress DEF InsertCidr
  <2>4. InsertRoute(a, n, hop) \/ TooLong(n)  BY <1>2 DEF InsertCidr
  <2> HIDE DEF a, n
  <2>2. CASE InsertRoute(a, n, hop)  BY <2>1, <2>2, InsertRouteIInv
  <2>3. CASE TooLong(n)  BY <2>1, <2>3, FailureIInv DEF TooLong
  <2> QED BY <2>2, <2>3, <2>4
<1>3. ASSUME NEW a \in Addresses, NEW n \in 0 .. Width + 1, DeleteAbsent(a, n)
      PROVE  IInv'
  BY <1>3, FailureIInv DEF DeleteAbsent
<1>4. ASSUME NEW a \in Addresses, NEW n \in 0 .. Width + 1, Delete(a, n)
      PROVE  IInv'
  BY <1>4, DeleteIInv
<1>5. ASSUME NEW address \in Addresses \cup {NoAddress}, Lookup(IpFromString(address))
      PROVE  IInv'
  BY <1>5, LookupIInv, TextAddress
<1>6. CASE Descend  BY <1>6, DescendIInv
<1>7. CASE Return  BY <1>7, ReturnIInv
<1>8. CASE UNCHANGED vars
  <2> USE <1>8 DEF vars, trieVars, lookupVars
  <2>1. TypeOK'  BY DEF IInv, TypeOK
  <2>2. Linked'  BY DEF IInv, Linked
  <2>3. LookupInv'  BY DEF IInv, LookupInv, Idle, BestUpTo
  <2>4. Counted'  BY DEF IInv, Counted, Routed
  <2> QED BY <2>1, <2>2, <2>3, <2>4 DEF IInv
<1> QED BY <1>1, <1>2, <1>3, <1>4, <1>5, <1>6, <1>7, <1>8 DEF Next

\* The invariant holds throughout.
LEMMA Invariance == Spec => []IInv
  BY InitIInv, NextIInv, PTL DEF Spec

\* Nodes, entries and the lookup under way keep their types for every width.
THEOREM TypeCorrect == Spec => []TypeOK
<1>1. IInv => TypeOK  BY DEF IInv
<1> QED BY <1>1, Invariance, PTL

\* Whatever was inserted, replaced and deleted, every route can be reached from
\* the root by the bits of its prefix.
THEOREM TrieConnected == Spec => []Connected
<1>1. IInv => Connected  BY DEF IInv, Connected
<1> QED BY <1>1, Invariance, PTL

\* route_count_ is the number of routes in the trie.
THEOREM CountIsExact == Spec => []CountExact
<1>1. IInv => CountExact  BY DEF IInv, Counted, Routed, CountExact
<1> QED BY <1>1, Invariance, PTL

-----------------------------------------------------------------------------
(* Refinement. *)

\* The table and the trie have the same addresses, lengths, paths and routes.
LEMMA SameSets ==
  /\ Table!Addresses = Addresses /\ Table!Lengths = Lengths /\ Table!Paths = Paths
  /\ Table!Routes = Routes
  /\ \A a, n : Table!Path(a, n) = Path(a, n)
  BY DEF Table!Addresses, Addresses, Table!Lengths, Lengths, Table!Paths, Paths,
         Table!Routes, Routes, Table!Path, Path, Table!Bit, Bit

\* The empty trie is the empty table.
LEMMA InitRefines == Init => Table!Init
  BY SameSets DEF Init, Table!Init, False

\* Inserting a route is a step of the table.
LEMMA InsertRefines ==
  ASSUME Idle, NEW a \in Addresses, NEW n \in Nat, NEW hop \in Hops,
         InsertRoute(a, n, hop), UNCHANGED lookupVars
  PROVE  Table!Next
<1>1. n \in Table!Lengths /\ a \in Table!Addresses
  BY SameSets DEF InsertRoute
<1>2. Table!Insert(a, n, hop)
  BY SameSets DEF InsertRoute, Table!Insert, Idle, lookupVars, True
<1> QED BY <1>1, <1>2 DEF Table!Next

\* So is refusing a prefix that is too long, ...
LEMMA TooLongRefines ==
  ASSUME Idle, NEW n, TooLong(n), UNCHANGED lookupVars
  PROVE  Table!Next
<1>1. Table!Reject
  BY DEF TooLong, Table!Reject, Idle, lookupVars, trieVars, False
<1> QED BY <1>1 DEF Table!Next

\* A call of delete_route that finds nothing has either no such length or no
\* such route: the trie being connected, a missing node means a missing route.
LEMMA DeleteAbsentRefines ==
  ASSUME IInv, NEW a \in Addresses, NEW n \in 0 .. Width + 1, DeleteAbsent(a, n)
  PROVE  Table!Next
<1> USE TrieAssumption DEF DeleteAbsent
<1>1. CASE n \notin Lengths
  <2>1. Table!Reject
    BY DEF Table!Reject, Idle, lookupVars, trieVars, False
  <2> QED BY <2>1 DEF Table!Next
<1>2. CASE n \in Lengths
  <2>1. Path(a, n) \in Paths
    BY <1>2, PathType
  <2>2. entry[Path(a, n)] = NoRoute
    <3>1. ASSUME NEW m \in 0 .. n, Path(a, m) \notin nodes
          PROVE  Path(a, n) \notin nodes
      BY <3>1, <1>2 DEF IInv, Linked
    <3>2. entry[Path(a, n)] # NoRoute => Path(a, n) \in nodes
      BY <2>1 DEF IInv, Linked
    <3> QED BY <3>1, <3>2, <1>2 DEF Present
  <2>3. [entry EXCEPT ![Path(a, n)] = NoRoute] = entry
    BY <2>1, <2>2 DEF IInv, TypeOK
  <2>4. Table!Delete(a, n)
    BY <2>2, <2>3, SameSets
       DEF Table!Delete, Table!Matches, Idle, lookupVars, trieVars, False
  <2> QED BY <2>4, <1>2, SameSets DEF Table!Next
<1> QED BY <1>1, <1>2

\* ... and deleting a route, or failing to.
LEMMA DeleteRefines ==
  ASSUME NEW a \in Addresses, NEW n \in 0 .. Width + 1, Delete(a, n)
  PROVE  Table!Next
<1>1. n \in Table!Lengths /\ a \in Table!Addresses
  BY SameSets DEF Delete, Present
<1>2. Table!Delete(a, n)
  BY SameSets DEF Delete, Present, Table!Delete, Table!Matches, Idle, lookupVars, True
<1> QED BY <1>1, <1>2 DEF Table!Next

\* Where the descent ends, no longer prefix of the address has a route.
LEMMA ReturnRefines ==
  ASSUME IInv, Return
  PROVE  Table!Next
<1> USE TrieAssumption
<1>1. dest_ip \in Addresses /\ depth \in Lengths /\ best_match \in Routes \cup {NoRoute}
  BY DEF Return, Idle, IInv, TypeOK
<1>2. BestUpTo(dest_ip, depth, best_match)
  BY DEF Return, IInv, LookupInv
<1>3. ASSUME NEW m \in depth + 1 .. Width
      PROVE  entry[Path(dest_ip, m)] = NoRoute
  <2>1. depth < Width /\ m \in Lengths /\ depth + 1 \in 0 .. m
    BY <1>1, <1>3 DEF Lengths
  <2>2. Path(dest_ip, depth + 1) \notin nodes
    BY <2>1 DEF Return, HasChild
  <2>3. Path(dest_ip, m) \notin nodes
    BY <2>1, <2>2, <1>1 DEF IInv, Linked
  <2>4. Path(dest_ip, m) \in Paths
    BY <2>1, <1>1, PathType
  <2> QED BY <2>3, <2>4 DEF IInv, Linked
<1>4. Table!IsLongestMatch(entry, dest_ip, best_match)
  <2>1. \A m \in Lengths : m \in 0 .. depth \/ m \in depth + 1 .. Width
    BY <1>1 DEF Lengths
  <2>2. CASE best_match = NoRoute /\ \A m \in 0 .. depth : entry[Path(dest_ip, m)] = NoRoute
    <3>1. \A m \in Lengths : entry[Path(dest_ip, m)] = NoRoute
      BY <2>1, <2>2, <1>3
    <3> QED BY <2>2, <3>1, SameSets DEF Table!IsLongestMatch, Table!Matches
  <2>3. ASSUME NEW n \in 0 .. depth,
               entry[Path(dest_ip, n)] # NoRoute,
               best_match = entry[Path(dest_ip, n)],
               \A m \in n + 1 .. depth : entry[Path(dest_ip, m)] = NoRoute
        PROVE  Table!IsLongestMatch(entry, dest_ip, best_match)
    <3>1. n \in Lengths
      BY <1>1 DEF Lengths
    <3>2. \A m \in n + 1 .. Width : m \in n + 1 .. depth \/ m \in depth + 1 .. Width
      BY <1>1 DEF Lengths
    <3>3. \A m \in n + 1 .. Width : entry[Path(dest_ip, m)] = NoRoute
      BY <3>2, <2>3, <1>3
    <3> QED BY <2>3, <3>1, <3>3, SameSets DEF Table!IsLongestMatch, Table!Matches
  <2> QED BY <1>2, <2>2, <2>3 DEF BestUpTo
<1>5. Table!Reply
  BY <1>1, <1>4, SameSets DEF Return, Table!Reply, Idle, trieVars
<1> QED BY <1>5 DEF Table!Next

\* Every step of the trie is a step of the table or changes nothing there.
LEMMA StepRefines == IInv /\ [Next]_vars => [Table!Next]_(Table!vars)
<1> SUFFICES ASSUME IInv, [Next]_vars PROVE Table!Next \/ UNCHANGED Table!vars
  OBVIOUS
<1> USE TrieAssumption DEF Table!vars
<1>1. ASSUME NEW a \in Addresses, NEW n \in 0 .. Width + 1, NEW hop \in Hops,
             Insert(a, n, hop)
      PROVE  Table!Next
  <2>1. Idle /\ UNCHANGED lookupVars /\ n \in Nat  BY <1>1 DEF Insert
  <2> QED BY <1>1, <2>1, InsertRefines, TooLongRefines DEF Insert
<1>2. ASSUME NEW address \in Addresses \cup {NoAddress}, NEW length \in TextLengths,
             NEW hop \in Hops, InsertCidr(address, length, hop)
      PROVE  Table!Next
  <2> DEFINE a == IpFromString(address)
             n == LengthFromString(length)
  <2>1. Idle /\ UNCHANGED lookupVars /\ n \in Nat /\ a \in Addresses
    BY <1>2, TextLength, TextAddress DEF InsertCidr
  <2>2. InsertRoute(a, n, hop) \/ TooLong(n)  BY <1>2 DEF InsertCidr
  <2> HIDE DEF a, n
  <2> QED BY <2>1, <2>2, InsertRefines, TooLongRefines
<1>3. ASSUME NEW a \in Addresses, NEW n \in 0 .. Width + 1, DeleteAbsent(a, n) \/ Delete(a, n)
      PROVE  Table!Next
  BY <1>3, DeleteAbsentRefines, DeleteRefines
<1>4. ASSUME NEW address \in Addresses \cup {NoAddress}, Lookup(IpFromString(address))
      PROVE  Table!Next
  <2> DEFINE a == IpFromString(address)
  <2>1. a \in Addresses  BY TextAddress
  <2>2. Table!Ask(a)  BY <1>4 DEF Lookup, Table!Ask, Idle, trieVars
  <2> QED BY <2>1, <2>2, SameSets DEF Table!Next
<1>5. CASE Descend
  BY <1>5 DEF Descend, trieVars
<1>6. CASE Return
  BY <1>6, ReturnRefines
<1>7. CASE UNCHANGED vars
  BY <1>7 DEF vars, trieVars, lookupVars
<1> QED BY <1>1, <1>2, <1>3, <1>4, <1>5, <1>6, <1>7 DEF Next

\* For addresses of any width the trie is a longest-prefix-match table: every
\* answer is the route of the longest prefix that has one.
THEOREM TrieImplementsTable == Spec => ImplementsTable
<1>1. Init => Table!Init  BY InitRefines
<1>2. IInv /\ [Next]_vars => [Table!Next]_(Table!vars)  BY StepRefines
<1> QED BY <1>1, <1>2, Invariance, PTL DEF Spec, ImplementsTable, Table!Spec

-----------------------------------------------------------------------------
(* TelemetryServer: sums of occupancies. *)

\* The queues the daemon has read when it has read n of them.
FirstQueues(n) == 0 .. n - 1

\* The total of TelemetryServer is the sum the lemmas on sums are about.
LEMMA TotalIsSum ==
  ASSUME NEW occ
  PROVE  T!Total(occ) = SumFunctionOnSet(occ, DOMAIN occ)
BY DEF T!Total, T!SumFunction, T!SumFunctionOnSet, T!FoldFunctionOnSet, T!MapThenFoldSet,
       SumFunctionOnSet, FoldFunctionOnSet, MapThenFoldSet

\* Sums over the first queues, up to all of them.
LEMMA OccupancySums ==
  ASSUME T!TelemetryAssumption, NEW occ \in [T!Queues -> Nat]
  PROVE  /\ T!Total(occ) \in Nat /\ T!Total(occ) = SumFunctionOnSet(occ, FirstQueues(NumQueues))
         /\ \A n \in 0 .. NumQueues : SumFunctionOnSet(occ, FirstQueues(n)) \in Nat
         /\ SumFunctionOnSet(occ, FirstQueues(0)) = 0
         /\ \A q \in T!Queues : SumFunctionOnSet(occ, FirstQueues(q + 1))
                                = SumFunctionOnSet(occ, FirstQueues(q)) + occ[q]
<1>0. NumQueues \in Nat
  BY DEF T!TelemetryAssumption
<1>1. ASSUME NEW n \in 0 .. NumQueues
      PROVE  /\ IsFiniteSet(FirstQueues(n)) /\ FirstQueues(n) \subseteq T!Queues
             /\ SumFunctionOnSet(occ, FirstQueues(n)) \in Nat
  <2> DEFINE Q == FirstQueues(n)
  <2>1. IsFiniteSet(Q)
    <3>1. 0 \in Int /\ n - 1 \in Int
      BY <1>0
    <3>2. IsFiniteSet(0 .. n - 1)
      BY <3>1, FS_Interval
    <3> QED BY <3>2 DEF FirstQueues
  <2>2. Q \subseteq T!Queues
    BY <1>0 DEF FirstQueues, T!Queues
  <2> HIDE DEF Q
  <2>3. \A x \in Q : occ[x] \in Nat
    BY <2>2
  <2>4. SumFunctionOnSet(occ, Q) \in Nat
    BY <2>1, <2>3, SumNat
  <2> QED BY <2>1, <2>2, <2>4 DEF Q
<1>2. T!Total(occ) = SumFunctionOnSet(occ, FirstQueues(NumQueues))
  <2>1. DOMAIN occ = FirstQueues(NumQueues)
    BY DEF FirstQueues, T!Queues
  <2> QED BY <2>1, TotalIsSum
<1>3. T!Total(occ) \in Nat
  BY <1>0, <1>1, <1>2
<1>4. SumFunctionOnSet(occ, FirstQueues(0)) = 0
  <2>1. FirstQueues(0) = {}
    BY DEF FirstQueues
  <2> QED BY <2>1, SumEmpty
<1>5. ASSUME NEW q \in T!Queues
      PROVE  SumFunctionOnSet(occ, FirstQueues(q + 1))
               = SumFunctionOnSet(occ, FirstQueues(q)) + occ[q]
  <2> DEFINE Q == FirstQueues(q + 1)
             R == FirstQueues(q)
  <2>1. q + 1 \in 0 .. NumQueues /\ q \in 0 .. NumQueues /\ q \in Nat
    BY <1>0 DEF T!Queues
  <2>2. q \in Q /\ Q \ {q} = R
    BY <2>1 DEF FirstQueues
  <2>3. IsFiniteSet(Q) /\ \A x \in Q : occ[x] \in Int
    <3>1. IsFiniteSet(Q) /\ Q \subseteq T!Queues
      BY <1>1, <2>1
    <3> HIDE DEF Q
    <3> QED BY <3>1
  <2>4. SumFunctionOnSet(occ, R) \in Nat
    BY <1>1, <2>1
  <2>5. occ[q] \in Nat
    OBVIOUS
  <2> HIDE DEF Q, R
  <2>6. SumFunctionOnSet(occ, Q) = occ[q] + SumFunctionOnSet(occ, Q \ {q})
    BY <2>2, <2>3, SumOut
  <2>7. SumFunctionOnSet(occ, Q) = SumFunctionOnSet(occ, R) + occ[q]
    BY <2>2, <2>4, <2>5, <2>6
  <2> QED BY <2>7 DEF Q, R
<1> QED BY <1>1, <1>2, <1>3, <1>4, <1>5

\* Queues that hold no less add up to no less.
LEMMA OccupancyGrows ==
  ASSUME T!TelemetryAssumption, NEW occ \in [T!Queues -> Nat],
         NEW more \in [T!Queues -> Nat], \A q \in T!Queues : occ[q] <= more[q]
  PROVE  /\ T!Total(occ) <= T!Total(more)
         /\ \A n \in 0 .. NumQueues : SumFunctionOnSet(occ, FirstQueues(n))
                                        <= SumFunctionOnSet(more, FirstQueues(n))
<1>0. NumQueues \in Nat
  BY DEF T!TelemetryAssumption
<1>1. ASSUME NEW n \in 0 .. NumQueues
      PROVE  SumFunctionOnSet(occ, FirstQueues(n)) <= SumFunctionOnSet(more, FirstQueues(n))
  <2> DEFINE Q == FirstQueues(n)
  <2>1. IsFiniteSet(Q)
    <3>1. 0 \in Int /\ n - 1 \in Int
      BY <1>0
    <3>2. IsFiniteSet(0 .. n - 1)
      BY <3>1, FS_Interval
    <3> QED BY <3>2 DEF FirstQueues
  <2>2. Q \subseteq T!Queues
    BY <1>0 DEF FirstQueues, T!Queues
  <2> HIDE DEF Q
  <2>3. \A x \in Q : occ[x] \in Int /\ more[x] \in Int /\ occ[x] <= more[x]
    BY <2>2
  <2>4. SumFunctionOnSet(occ, Q) <= SumFunctionOnSet(more, Q)
    BY <2>1, <2>3, SumMonotone
  <2> QED BY <2>4 DEF Q
<1>2. NumQueues \in 0 .. NumQueues
  BY <1>0
<1> QED BY <1>1, <1>2, OccupancySums

\* One queue that holds more than the threshold overloads them all.
LEMMA OneOverloads ==
  ASSUME T!TelemetryAssumption, NEW occ \in [T!Queues -> Nat], NEW q \in T!Queues,
         occ[q] > Threshold
  PROVE  T!Total(occ) > Threshold
<1>1. q \in Nat /\ q + 1 \in 0 .. NumQueues /\ q \in 0 .. NumQueues /\ Threshold \in Nat
  BY DEF T!TelemetryAssumption, T!Queues
<1> DEFINE part == [x \in T!Queues |-> IF x = q THEN occ[q] ELSE 0]
           rest == SumFunctionOnSet(part, T!Queues \ {q})
<1>2. IsFiniteSet(T!Queues) /\ NumQueues \in Nat
  <2>1. 0 \in Int /\ NumQueues - 1 \in Int /\ NumQueues \in Nat
    BY DEF T!TelemetryAssumption
  <2> QED BY <2>1, FS_Interval DEF T!Queues
<1>3. part \in [T!Queues -> Nat] /\ \A x \in T!Queues : part[x] <= occ[x]
  OBVIOUS
<1>4. part[q] = occ[q] /\ \A x \in T!Queues : part[x] \in Nat /\ part[x] \in Int
  OBVIOUS
<1> HIDE DEF part
<1>5. SumFunctionOnSet(part, T!Queues) = part[q] + rest
  BY <1>2, <1>4, SumOut
<1>6. rest \in Nat
  <2> DEFINE Q == T!Queues \ {q}
  <2>1. IsFiniteSet(Q) /\ \A x \in Q : part[x] \in Nat
    BY <1>2, <1>4, FS_Subset
  <2> HIDE DEF Q
  <2>2. SumFunctionOnSet(part, Q) \in Nat
    BY <2>1, SumNat
  <2> QED BY <2>2 DEF Q
<1>7. T!Total(part) <= T!Total(occ)
  BY <1>3, OccupancyGrows
<1>8. T!Total(part) = SumFunctionOnSet(part, T!Queues)
  BY <1>3, OccupancySums DEF FirstQueues, T!Queues
<1>9. T!Total(occ) \in Nat
  BY OccupancySums
<1>10. occ[q] \in Nat
  OBVIOUS
<1> HIDE DEF rest
<1> QED BY <1>1, <1>4, <1>5, <1>6, <1>7, <1>8, <1>9, <1>10

-----------------------------------------------------------------------------
(* TelemetryServer: alarms. *)

\* The cause an alarm has to have.
Overloaded == T!Total(occupancy) > Threshold

\* What the daemon has added up so far is in the queues, or they are overloaded by
\* now.
SumCaused ==
  /\ total_occ <= summed * MaxOccupancy
  /\ total_occ <= SumFunctionOnSet(occupancy, FirstQueues(summed)) \/ Overloaded

\* The request in hand is not answered yet, and has its cause before its flag.
HandlerRight ==
  /\ handling # NoSlot => fetches[handling].stage = "sent"
  /\ T!Handles("bufferbloat") /\ written # 0 => Overloaded

AlarmIInv == T!AlarmHasCause /\ SumCaused /\ HandlerRight

\* The requests of the page.
Fetch == [kind : T!Kinds \cup {"none"}, flag : BOOLEAN, stage : {"idle", "sent", "answered"}]
Fetches == [Slots -> Fetch]

\* Nothing is under way at first.
LEMMA AlarmInit == T!TelemetryAssumption /\ T!Init => AlarmIInv
<1> SUFFICES ASSUME T!TelemetryAssumption, T!Init PROVE AlarmIInv
  OBVIOUS
<1>0. /\ NumQueues \in Nat /\ NumQueues # 0 /\ MaxOccupancy \in Nat
      /\ InitialOccupancy \in [T!Queues -> 0 .. MaxOccupancy]
      /\ InitialOccupancy \in [T!Queues -> Nat] /\ MaxFailures \in Nat
  BY DEF T!TelemetryAssumption, T!Queues
<1>1. fetches \in Fetches /\ \A i \in Slots : ~fetches[i].flag
  BY DEF T!Init, T!Idle, Fetches, Fetch, T!Kinds
<1>2. shown \in [alarm : BOOLEAN, live : BOOLEAN] /\ ~shown.alarm
  BY DEF T!Init
<1>3. NumQueues * MaxOccupancy \in Nat /\ 0 * MaxOccupancy = 0
  BY <1>0
<1>4. T!TypeOK
  <2>1. occupancy \in [T!Queues -> 0 .. MaxOccupancy] /\ bufferbloat \in BOOLEAN
    BY <1>0 DEF T!Init
  <2>2. summed \in 0 .. NumQueues /\ total_occ \in 0 .. NumQueues * MaxOccupancy
    BY <1>0, <1>3 DEF T!Init
  <2>3. handling \in Slots \cup {NoSlot} /\ written \in (0 .. NumQueues) \cup {2}
    BY <1>0 DEF T!Init
  <2>4. simBufferbloat \in BOOLEAN /\ failures \in 0 .. MaxFailures
    <3>1. simBufferbloat \in BOOLEAN
      BY Zenon DEF T!Init
    <3>2. failures = 0
      BY DEF T!Init
    <3> QED BY <1>0, <3>1, <3>2
  <2>5. shown \in [alarm : BOOLEAN, live : BOOLEAN]
    BY <1>2
  <2> QED BY <1>1, <2>1, <2>2, <2>3, <2>4, <2>5, Zenon DEF T!TypeOK, Fetches, Fetch
<1>5. T!AlarmHasCause
  BY <1>1, <1>2, <1>4 DEF T!AlarmHasCause, T!Init
<1>6. SumCaused
  BY <1>0, <1>3, OccupancySums DEF SumCaused, T!Init
<1>7. HandlerRight
  BY DEF HandlerRight, T!Init, T!Handles
<1> QED BY <1>5, <1>6, <1>7 DEF AlarmIInv

\* What holds while occupancies, flag and daemon stay as they are: only the slots,
\* the request in hand and what is shown have to be looked at.
LEMMA AlarmPage ==
  ASSUME AlarmIInv, UNCHANGED <<T!sharedVars, T!daemonVars>>,
         fetches' \in Fetches, \A i \in Slots : fetches'[i].flag => Overloaded,
         handling' \in Slots \cup {NoSlot}, written' \in (0 .. NumQueues) \cup {2},
         shown' \in [alarm : BOOLEAN, live : BOOLEAN],
         shown'.live /\ shown'.alarm => Overloaded,
         simBufferbloat' \in BOOLEAN, failures' \in 0 .. MaxFailures,
         handling' # NoSlot => fetches'[handling'].stage = "sent",
         T!Handles("bufferbloat")' /\ written' # 0 => Overloaded
  PROVE  AlarmIInv'
<1>0. Overloaded' <=> Overloaded
  BY DEF T!sharedVars, Overloaded
<1>1. T!TypeOK'
  BY DEF AlarmIInv, T!AlarmHasCause, T!TypeOK, T!sharedVars, T!daemonVars, Fetches, Fetch
<1>2. bufferbloat' => Overloaded'
  BY <1>0 DEF AlarmIInv, T!AlarmHasCause, Overloaded, T!sharedVars
<1>3. T!AlarmHasCause'
  BY <1>0, <1>1, <1>2 DEF T!AlarmHasCause, Overloaded
<1>4. SumCaused'
  BY <1>0 DEF AlarmIInv, SumCaused, T!sharedVars, T!daemonVars
<1>5. HandlerRight'
  BY <1>0 DEF HandlerRight
<1> QED BY <1>3, <1>4, <1>5 DEF AlarmIInv

\* What the invariant says of the slots.
LEMMA SlotsTyped ==
  ASSUME AlarmIInv
  PROVE  /\ fetches \in Fetches /\ \A i \in Slots : fetches[i].flag => Overloaded
         /\ handling \in Slots \cup {NoSlot} /\ written \in (0 .. NumQueues) \cup {2}
         /\ shown \in [alarm : BOOLEAN, live : BOOLEAN]
         /\ shown.live /\ shown.alarm => Overloaded
         /\ simBufferbloat \in BOOLEAN /\ failures \in 0 .. MaxFailures
         /\ handling # NoSlot => fetches[handling].stage = "sent"
         /\ T!Handles("bufferbloat") /\ written # 0 => Overloaded
<1>1. T!TypeOK
  BY DEF AlarmIInv, T!AlarmHasCause
<1>2. /\ \A i \in Slots : fetches[i].flag => Overloaded
      /\ shown.live /\ shown.alarm => Overloaded
  BY DEF AlarmIInv, T!AlarmHasCause, Overloaded
<1> QED BY <1>1, <1>2 DEF AlarmIInv, HandlerRight, T!TypeOK, Fetches, Fetch

\* A slot whose request is not in hand may change, and what is shown with it.
LEMMA AlarmSlot ==
  ASSUME AlarmIInv, NEW i \in Slots, handling # i, NEW r \in Fetch, r.flag => Overloaded,
         fetches' = [fetches EXCEPT ![i] = r],
         UNCHANGED <<T!sharedVars, T!daemonVars, T!serverVars>>,
         shown' \in [alarm : BOOLEAN, live : BOOLEAN],
         shown'.live /\ shown'.alarm => Overloaded,
         simBufferbloat' \in BOOLEAN, failures' \in 0 .. MaxFailures
  PROVE  AlarmIInv'
<1>1. /\ fetches \in Fetches /\ \A j \in Slots : fetches[j].flag => Overloaded
      /\ handling \in Slots \cup {NoSlot} /\ written \in (0 .. NumQueues) \cup {2}
      /\ handling # NoSlot => fetches[handling].stage = "sent"
      /\ T!Handles("bufferbloat") /\ written # 0 => Overloaded
  BY SlotsTyped
<1>2. handling' = handling /\ written' = written
  BY DEF T!serverVars
<1>3. fetches' \in Fetches /\ \A j \in Slots : fetches'[j] = IF j = i THEN r ELSE fetches[j]
  BY <1>1 DEF Fetches
<1>4. \A j \in Slots : fetches'[j].flag => Overloaded
  BY <1>1, <1>3
<1>5. handling # NoSlot => fetches'[handling] = fetches[handling]
  BY <1>1, <1>3
<1>6. /\ handling' # NoSlot => fetches'[handling'].stage = "sent"
      /\ T!Handles("bufferbloat")' /\ written' # 0 => Overloaded
  BY <1>1, <1>2, <1>5 DEF T!Handles
<1>7. handling' \in Slots \cup {NoSlot} /\ written' \in (0 .. NumQueues) \cup {2}
  BY <1>1, <1>2
<1> QED BY <1>3, <1>4, <1>6, <1>7, AlarmPage

\* Requests sent by the page's timer and buttons, and after an injection.
LEMMA AlarmSend ==
  ASSUME T!TelemetryAssumption, AlarmIInv, NEW i \in Slots,
         NEW kind \in T!Kinds \ {"telemetry"}, T!Poll(i) \/ T!Inject(i, kind) \/ T!Refetch(i)
  PROVE  AlarmIInv'
<1>1. PICK k \in T!Kinds : fetches' = [fetches EXCEPT ![i] = T!Sent(k)]
  BY DEF T!Poll, T!Inject, T!Refetch, T!Kinds
<1>2. T!Sent(k) \in Fetch /\ ~T!Sent(k).flag
  BY DEF T!Sent, Fetch
<1>3. handling # i
  <2>1. fetches[i].stage # "sent" /\ i # NoSlot
    BY DEF T!Poll, T!Inject, T!Refetch, T!Idle, T!TelemetryAssumption
  <2> QED BY <2>1, SlotsTyped
<1>4. /\ UNCHANGED <<T!sharedVars, T!daemonVars, T!serverVars>>
      /\ shown' = shown /\ simBufferbloat' = simBufferbloat /\ failures' = failures
  BY DEF T!Poll, T!Inject, T!Refetch
<1> DEFINE r == T!Sent(k)
<1>5. r \in Fetch /\ (r.flag => Overloaded) /\ fetches' = [fetches EXCEPT ![i] = r]
  BY <1>1, <1>2
<1> HIDE DEF r
<1>6. /\ shown' \in [alarm : BOOLEAN, live : BOOLEAN]
      /\ shown'.live /\ shown'.alarm => Overloaded
      /\ simBufferbloat' \in BOOLEAN /\ failures' \in 0 .. MaxFailures
  BY <1>4, SlotsTyped
<1> QED BY <1>3, <1>4, <1>5, <1>6, AlarmSlot

\* An answer drawn shows the flag it carries.
LEMMA AlarmDraw ==
  ASSUME T!TelemetryAssumption, AlarmIInv, NEW i \in Slots, T!Draw(i)
  PROVE  AlarmIInv'
<1>1. fetches \in Fetches /\ (fetches[i].flag => Overloaded)
  BY SlotsTyped
<1>2. T!Idle \in Fetch /\ ~T!Idle.flag
  BY DEF T!Idle, Fetch
<1>3. handling # i
  <2>1. fetches[i].stage # "sent" /\ i # NoSlot
    BY DEF T!Draw, T!TelemetryAssumption
  <2> QED BY <2>1, SlotsTyped
<1>4. /\ UNCHANGED <<T!sharedVars, T!daemonVars, T!serverVars>>
      /\ fetches' = [fetches EXCEPT ![i] = T!Idle]
      /\ shown' = [alarm |-> fetches[i].flag, live |-> TRUE]
      /\ simBufferbloat' = simBufferbloat /\ failures' = failures
  BY DEF T!Draw
<1>5. fetches[i].flag \in BOOLEAN
  BY <1>1 DEF Fetches, Fetch
<1>6. /\ shown' \in [alarm : BOOLEAN, live : BOOLEAN]
      /\ shown'.live /\ shown'.alarm => Overloaded
  BY <1>1, <1>4, <1>5
<1>7. simBufferbloat' \in BOOLEAN /\ failures' \in 0 .. MaxFailures
  BY <1>4, SlotsTyped
<1> QED BY <1>2, <1>3, <1>4, <1>6, <1>7, AlarmSlot

\* A request that fails makes the page show its simulation, which is not live.
LEMMA AlarmFail ==
  ASSUME T!TelemetryAssumption, AlarmIInv, NEW i \in Slots,
         T!FetchFails(i) \/ T!InjectFails(i)
  PROVE  AlarmIInv'
<1>1. T!Idle \in Fetch /\ ~T!Idle.flag
  BY DEF T!Idle, Fetch
<1>2. /\ handling # i /\ failures < MaxFailures /\ failures' = failures + 1
      /\ fetches' = [fetches EXCEPT ![i] = T!Idle]
      /\ UNCHANGED <<T!sharedVars, T!daemonVars, T!serverVars>>
  BY DEF T!FetchFails, T!InjectFails, T!Fails
<1>3. simBufferbloat' \in BOOLEAN /\ shown' = [alarm |-> simBufferbloat', live |-> FALSE]
  <2>1. simBufferbloat \in BOOLEAN
    BY SlotsTyped
  <2>2. CASE T!FetchFails(i)
    BY <2>1, <2>2 DEF T!FetchFails
  <2>3. CASE T!InjectFails(i)
    BY <2>1, <2>3 DEF T!InjectFails
  <2> QED BY <2>2, <2>3
<1>4. shown' \in [alarm : BOOLEAN, live : BOOLEAN] /\ ~shown'.live
  BY <1>3
<1>5. failures' \in 0 .. MaxFailures
  <2>1. failures \in 0 .. MaxFailures /\ MaxFailures \in Nat
    BY SlotsTyped DEF T!TelemetryAssumption
  <2> QED BY <1>2, <2>1
<1> QED BY <1>1, <1>2, <1>3, <1>4, <1>5, AlarmSlot

\* A request taken up is one that was sent.
LEMMA AlarmAccept ==
  ASSUME T!TelemetryAssumption, AlarmIInv, NEW i \in Slots, T!Accept(i)
  PROVE  AlarmIInv'
<1>1. /\ handling' = i /\ written' = 0 /\ fetches[i].stage = "sent" /\ fetches' = fetches
      /\ UNCHANGED <<T!sharedVars, T!daemonVars>>
      /\ shown' = shown /\ simBufferbloat' = simBufferbloat /\ failures' = failures
  BY DEF T!Accept, T!pageVars
<1>2. 0 \in (0 .. NumQueues) \cup {2}
  BY DEF T!TelemetryAssumption
<1> QED BY <1>1, <1>2, SlotsTyped, AlarmPage

\* The flag an answer carries had its cause when it was read, and causes stay.
LEMMA AlarmRespond ==
  ASSUME T!TelemetryAssumption, AlarmIInv, T!Respond
  PROVE  AlarmIInv'
<1> DEFINE h == handling
           r == [kind |-> fetches[h].kind, stage |-> "answered",
                 flag |-> T!Handles("telemetry") /\ bufferbloat]
<1>1. h \in Slots
  <2>1. h # NoSlot
    BY DEF T!Respond, T!Handles
  <2> QED BY <2>1, SlotsTyped
<1>2. fetches \in Fetches /\ fetches[h] \in Fetch
  BY <1>1, SlotsTyped DEF Fetches
<1>3. r.flag \in BOOLEAN /\ (r.flag => bufferbloat)
  <2>1. bufferbloat \in BOOLEAN
    BY DEF AlarmIInv, T!AlarmHasCause, T!TypeOK
  <2> QED BY <2>1 DEF T!Handles
<1>4. r \in Fetch /\ (r.flag => Overloaded)
  <2>1. r.flag => Overloaded
    BY <1>3 DEF AlarmIInv, T!AlarmHasCause, Overloaded
  <2>2. r \in Fetch
    BY <1>2, <1>3 DEF Fetch
  <2> QED BY <2>1, <2>2
<1>5. fetches' = [fetches EXCEPT ![h] = r]
  <2>1. fetches' = [fetches EXCEPT ![h].stage = "answered",
                                  ![h].flag = T!Handles("telemetry") /\ bufferbloat]
    BY DEF T!Respond
  <2> DEFINE f == T!Handles("telemetry") /\ bufferbloat
             one == [fetches[h] EXCEPT !.stage = "answered"]
             two == [one EXCEPT !.flag = f]
  <2>2. two = r
    <3>1. one = [kind |-> fetches[h].kind, stage |-> "answered", flag |-> fetches[h].flag]
      BY <1>2 DEF Fetch
    <3> HIDE DEF one
    <3> QED BY <3>1
  <2>3. [fetches EXCEPT ![h].stage = "answered", ![h].flag = f]
          = [fetches EXCEPT ![h] = two]
    BY <1>1, <1>2 DEF Fetches
  <2> QED BY <2>1, <2>2, <2>3
<1>6. /\ handling' = NoSlot /\ written' = 0 /\ UNCHANGED <<T!sharedVars, T!daemonVars>>
      /\ shown' = shown /\ simBufferbloat' = simBufferbloat /\ failures' = failures
  BY DEF T!Respond
<1> HIDE DEF h, r
<1>7. fetches' \in Fetches /\ \A j \in Slots : fetches'[j] = IF j = h THEN r ELSE fetches[j]
  BY <1>1, <1>2, <1>4, <1>5 DEF Fetches
<1>8. \A j \in Slots : fetches'[j].flag => Overloaded
  BY <1>4, <1>7, SlotsTyped
<1>9. 0 \in (0 .. NumQueues) \cup {2}
  BY DEF T!TelemetryAssumption
<1>10. ~(T!Handles("bufferbloat")')
  BY <1>6 DEF T!Handles
<1> QED BY <1>6, <1>7, <1>8, <1>9, <1>10, SlotsTyped, AlarmPage

-----------------------------------------------------------------------------
(* TelemetryServer: steps of the daemon and writes of the server. *)

\* Occupancies that change while a handler writes: what they were below the
\* threshold they only grow.
LEMMA AlarmWrite ==
  ASSUME T!TelemetryAssumption, AlarmIInv, occupancy' \in [T!Queues -> 0 .. MaxOccupancy],
         Overloaded' \/ \A q \in T!Queues : occupancy[q] <= occupancy'[q],
         UNCHANGED <<bufferbloat, T!daemonVars, handling, T!pageVars>>,
         written' \in (0 .. NumQueues) \cup {2},
         T!Handles("bufferbloat") /\ written' # 0 => Overloaded'
  PROVE  AlarmIInv'
<1>0. /\ T!TypeOK /\ occupancy \in [T!Queues -> Nat] /\ occupancy' \in [T!Queues -> Nat]
      /\ summed \in 0 .. NumQueues /\ Threshold \in Nat /\ total_occ \in Int
  BY DEF AlarmIInv, T!AlarmHasCause, T!TypeOK, T!TelemetryAssumption
<1>1. Overloaded => Overloaded'
  <2> SUFFICES ASSUME Overloaded, \A q \in T!Queues : occupancy[q] <= occupancy'[q]
               PROVE  Overloaded'
    OBVIOUS
  <2> DEFINE a == occupancy
             b == occupancy'
  <2>1. /\ a \in [T!Queues -> Nat] /\ b \in [T!Queues -> Nat]
        /\ \A q \in T!Queues : a[q] <= b[q]
    BY <1>0
  <2>2. (Overloaded <=> T!Total(a) > Threshold) /\ (Overloaded' <=> T!Total(b) > Threshold)
    BY DEF Overloaded
  <2> HIDE DEF a, b
  <2>3. T!Total(a) <= T!Total(b) /\ T!Total(a) \in Nat /\ T!Total(b) \in Nat
    BY <2>1, OccupancyGrows, OccupancySums
  <2> QED BY <1>0, <2>2, <2>3
<1>2. SumCaused'
  <2> DEFINE a == occupancy
             b == occupancy'
             t == total_occ
             n == summed
             Q == FirstQueues(n)
  <2>1. t <= n * MaxOccupancy /\ (t <= SumFunctionOnSet(a, Q) \/ Overloaded)
    BY DEF AlarmIInv, SumCaused
  <2>2. SumCaused' <=> t <= n * MaxOccupancy /\ (t <= SumFunctionOnSet(b, Q) \/ Overloaded')
    BY DEF SumCaused, T!daemonVars
  <2>3. a \in [T!Queues -> Nat] /\ b \in [T!Queues -> Nat] /\ n \in 0 .. NumQueues /\ t \in Int
    BY <1>0
  <2>4. Overloaded' \/ \A q \in T!Queues : a[q] <= b[q]
    OBVIOUS
  <2> HIDE DEF a, b, t, n
  <2>5. SumFunctionOnSet(a, Q) \in Nat /\ SumFunctionOnSet(b, Q) \in Nat
    BY <2>3, OccupancySums
  <2>6. ASSUME \A q \in T!Queues : a[q] <= b[q]
        PROVE  SumFunctionOnSet(a, Q) <= SumFunctionOnSet(b, Q)
    BY <2>3, <2>6, OccupancyGrows
  <2> HIDE DEF Q
  <2> QED BY <1>1, <2>1, <2>2, <2>3, <2>4, <2>5, <2>6
<1>3. T!TypeOK'
  BY <1>0 DEF T!TypeOK, T!daemonVars, T!pageVars
<1>4. bufferbloat' = bufferbloat /\ fetches' = fetches /\ shown' = shown /\ handling' = handling
  BY DEF T!pageVars
<1>5. /\ bufferbloat => Overloaded
      /\ \A i \in Slots : fetches[i].flag => Overloaded
      /\ shown.live /\ shown.alarm => Overloaded
  BY DEF AlarmIInv, T!AlarmHasCause, Overloaded
<1>6. T!AlarmHasCause'
  <2>1. T!AlarmHasCause'
          <=> /\ T!TypeOK'
              /\ \/ bufferbloat'
                 \/ \E i \in Slots : fetches'[i].flag
                 \/ shown'.live /\ shown'.alarm
                 => Overloaded'
    BY DEF T!AlarmHasCause, Overloaded
  <2> QED BY <1>1, <1>3, <1>4, <1>5, <2>1
<1>7. HandlerRight'
  BY <1>4, SlotsTyped DEF HandlerRight, T!Handles
<1> QED BY <1>2, <1>6, <1>7 DEF AlarmIInv

\* A burst adds to one queue after the other.
LEMMA AlarmBurst ==
  ASSUME T!TelemetryAssumption, AlarmIInv, NEW n \in Bursts, T!Burst(n)
  PROVE  AlarmIInv'
<1>0. /\ NumQueues \in Nat /\ MaxOccupancy \in Nat /\ n \in Nat
      /\ occupancy \in [T!Queues -> 0 .. MaxOccupancy]
      /\ written \in (0 .. NumQueues) \cup {2}
  BY DEF T!TelemetryAssumption, AlarmIInv, T!AlarmHasCause, T!TypeOK
<1>1. /\ T!Handles("burst") /\ written < NumQueues /\ written' = written + 1
      /\ occupancy' = [occupancy EXCEPT ![written] =
                         IF @ + n < MaxOccupancy THEN @ + n ELSE MaxOccupancy]
      /\ UNCHANGED <<bufferbloat, T!daemonVars, handling, T!pageVars>>
  BY DEF T!Burst
<1>2. written \in T!Queues /\ written' \in (0 .. NumQueues) \cup {2}
  BY <1>0, <1>1 DEF T!Queues
<1>3. /\ occupancy' \in [T!Queues -> 0 .. MaxOccupancy]
      /\ \A q \in T!Queues : occupancy[q] <= occupancy'[q]
  <2> DEFINE o == occupancy[written]
             x == IF o + n < MaxOccupancy THEN o + n ELSE MaxOccupancy
  <2>1. o \in 0 .. MaxOccupancy
    BY <1>0, <1>2
  <2>2. x \in 0 .. MaxOccupancy /\ o <= x
    <3> HIDE DEF o
    <3> QED BY <1>0, <2>1
  <2>3. occupancy' = [occupancy EXCEPT ![written] = x]
    BY <1>1
  <2> HIDE DEF x
  <2>4. \A q \in T!Queues : occupancy[q] \in 0 .. MaxOccupancy /\ occupancy[q] <= occupancy[q]
    BY <1>0
  <2> QED BY <1>0, <1>2, <2>2, <2>3, <2>4
<1>4. ~T!Handles("bufferbloat")
  BY <1>1 DEF T!Handles
<1> QED BY <1>1, <1>2, <1>3, <1>4, AlarmWrite

\* A saturated queue is over the threshold; only then is the flag raised.
LEMMA AlarmSaturate ==
  ASSUME T!TelemetryAssumption, AlarmIInv, T!Saturate
  PROVE  AlarmIInv'
<1>0. /\ NumQueues \in Nat /\ NumQueues >= 1 /\ Bulk \in T!Queues
      /\ MaxOccupancy \in Nat /\ Threshold \in Nat
      /\ Saturated \in 0 .. MaxOccupancy /\ Saturated > Threshold
      /\ occupancy \in [T!Queues -> 0 .. MaxOccupancy]
      /\ written \in (0 .. NumQueues) \cup {2}
  BY DEF T!TelemetryAssumption, AlarmIInv, T!AlarmHasCause, T!TypeOK, T!Queues
<1>1. /\ T!Handles("bufferbloat") /\ written < 2 /\ written' = written + 1
      /\ UNCHANGED <<T!daemonVars, handling, T!pageVars>>
  BY DEF T!Saturate
<1>2. written' \in (0 .. NumQueues) \cup {2}
  BY <1>0, <1>1
<1>3. CASE written = 0
  <2>1. occupancy' = [occupancy EXCEPT ![Bulk] = Saturated] /\ bufferbloat' = bufferbloat
    BY <1>3 DEF T!Saturate, T!CauseNext
  <2>2. /\ occupancy' \in [T!Queues -> 0 .. MaxOccupancy] /\ occupancy'[Bulk] = Saturated
        /\ occupancy' \in [T!Queues -> Nat]
    BY <1>0, <2>1
  <2>3. Overloaded'
    <3> DEFINE b == occupancy'
    <3>1. b \in [T!Queues -> Nat] /\ b[Bulk] > Threshold
      BY <1>0, <2>2
    <3>2. Overloaded' <=> T!Total(b) > Threshold
      BY DEF Overloaded
    <3> HIDE DEF b
    <3> QED BY <1>0, <3>1, <3>2, OneOverloads
  <2> QED BY <1>1, <1>2, <2>1, <2>2, <2>3, AlarmWrite
<1>4. CASE written # 0
  <2>1. bufferbloat' = TRUE /\ occupancy' = occupancy
    BY <1>4 DEF T!Saturate, T!CauseNext
  <2>2. Overloaded
    BY <1>1, <1>4, SlotsTyped
  <2>3. Overloaded'
    BY <2>1, <2>2 DEF Overloaded
  <2>4. T!TypeOK'
    BY <1>0, <1>1, <1>2, <2>1 DEF AlarmIInv, T!AlarmHasCause, T!TypeOK, T!daemonVars, T!pageVars
  <2>5. T!AlarmHasCause'
    BY <2>3, <2>4 DEF T!AlarmHasCause, Overloaded
  <2>6. SumCaused'
    BY <1>1, <2>3 DEF AlarmIInv, SumCaused, T!daemonVars
  <2>7. HandlerRight'
    BY <1>1, <2>3 DEF AlarmIInv, HandlerRight, T!pageVars
  <2> QED BY <2>5, <2>6, <2>7 DEF AlarmIInv
<1> QED BY <1>3, <1>4

\* The daemon adds what a queue holds now to what others held before.
LEMMA AlarmDaemonSum ==
  ASSUME T!TelemetryAssumption, AlarmIInv, T!DaemonSum
  PROVE  AlarmIInv'
<1> DEFINE n == summed
           t == total_occ
           M == MaxOccupancy
           x == occupancy[n]
           old == SumFunctionOnSet(occupancy, FirstQueues(n))
           new == SumFunctionOnSet(occupancy, FirstQueues(n + 1))
<1>0. /\ NumQueues \in Nat /\ M \in Nat /\ n \in 0 .. NumQueues /\ n < NumQueues
      /\ occupancy \in [T!Queues -> 0 .. M] /\ occupancy \in [T!Queues -> Nat]
      /\ t \in 0 .. NumQueues * M
  BY DEF T!TelemetryAssumption, AlarmIInv, T!AlarmHasCause, T!TypeOK, T!DaemonSum
<1>1. /\ total_occ' = t + x /\ summed' = n + 1
      /\ UNCHANGED <<T!sharedVars, T!serverVars, T!pageVars>>
  BY DEF T!DaemonSum, T!Reading
<1>2. n \in T!Queues /\ n + 1 \in 0 .. NumQueues
  BY <1>0 DEF T!Queues
<1>3. x \in 0 .. M
  BY <1>0, <1>2
<1>4. old \in Nat /\ new = old + x
  <2> HIDE DEF n
  <2> QED BY <1>0, <1>2, OccupancySums
<1>5. t <= n * M /\ (t <= old \/ Overloaded)
  BY DEF AlarmIInv, SumCaused
<1>6. SumCaused' <=> total_occ' <= summed' * M /\ (total_occ' <= new \/ Overloaded)
  BY <1>1 DEF SumCaused, Overloaded, T!sharedVars
<1> HIDE DEF n, t, M, x, old, new
<1>7. (n + 1) * M = n * M + M /\ n * M \in Nat /\ (n + 1) * M <= NumQueues * M
      /\ NumQueues * M \in Nat
  <2>1. n \in Nat /\ n + 1 \in Nat /\ n + 1 <= NumQueues
    BY <1>0
  <2>2. (n + 1) * M = n * M + M
    BY <1>0, <2>1
  <2>3. (n + 1) * M <= NumQueues * M
    BY <1>0, <2>1
  <2> QED BY <1>0, <2>1, <2>2, <2>3
<1>8. t \in Nat
  BY <1>0, <1>7
<1>9. total_occ' \in 0 .. NumQueues * M /\ total_occ' <= (n + 1) * M
  <2> DEFINE u == n * M
             v == (n + 1) * M
             w == NumQueues * M
  <2>1. u \in Nat /\ v = u + M /\ v <= w /\ w \in Nat /\ t <= u
    BY <1>5, <1>7
  <2> HIDE DEF u, v, w
  <2>2. t + x \in 0 .. w /\ t + x <= v
    BY <1>0, <1>3, <1>8, <2>1
  <2> QED BY <1>1, <2>2 DEF v, w
<1>10. SumCaused'
  BY <1>1, <1>3, <1>4, <1>5, <1>6, <1>8, <1>9
<1>11. T!TypeOK'
  BY <1>1, <1>2, <1>9 DEF AlarmIInv, T!AlarmHasCause, T!TypeOK, T!sharedVars,
              T!serverVars, T!pageVars, M
<1>12. T!AlarmHasCause'
  BY <1>1, <1>11 DEF AlarmIInv, T!AlarmHasCause, T!sharedVars, T!pageVars
<1>13. HandlerRight'
  BY <1>1 DEF AlarmIInv, HandlerRight, T!Handles, Overloaded, T!sharedVars,
              T!serverVars, T!pageVars
<1> QED BY <1>10, <1>12, <1>13 DEF AlarmIInv

\* Its verdict on them is late, never unfounded.
LEMMA AlarmDaemonFlag ==
  ASSUME T!TelemetryAssumption, AlarmIInv, T!DaemonFlag
  PROVE  AlarmIInv'
<1>0. /\ NumQueues \in Nat /\ MaxOccupancy \in Nat /\ Threshold \in Nat
      /\ occupancy \in [T!Queues -> Nat]
      /\ total_occ \in Int /\ occupancy \in [T!Queues -> 0 .. MaxOccupancy]
  BY DEF T!TelemetryAssumption, AlarmIInv, T!AlarmHasCause, T!TypeOK
<1>1. /\ summed = NumQueues /\ bufferbloat' = (total_occ > Threshold)
      /\ summed' = 0 /\ total_occ' = 0
      /\ UNCHANGED <<occupancy, T!serverVars, T!pageVars>>
  BY DEF T!DaemonFlag
<1>2. /\ SumFunctionOnSet(occupancy, FirstQueues(NumQueues)) = T!Total(occupancy)
      /\ T!Total(occupancy) \in Nat /\ SumFunctionOnSet(occupancy, FirstQueues(0)) = 0
  BY <1>0, OccupancySums
<1>3. total_occ > Threshold => Overloaded
  <2>1. total_occ <= T!Total(occupancy) \/ Overloaded
    BY <1>1, <1>2 DEF AlarmIInv, SumCaused
  <2> QED BY <1>0, <1>2, <2>1 DEF Overloaded
<1>4. Overloaded' <=> Overloaded
  BY <1>1 DEF Overloaded
<1>5. SumCaused'
  <2>1. 0 <= 0 * MaxOccupancy
    BY <1>0
  <2>2. SumCaused' <=> /\ 0 <= 0 * MaxOccupancy
                       /\ (0 <= SumFunctionOnSet(occupancy, FirstQueues(0)) \/ Overloaded)
    BY <1>1, <1>4 DEF SumCaused
  <2> QED BY <1>2, <2>1, <2>2
<1>6. NumQueues * MaxOccupancy \in Nat
  BY <1>0
<1>7. T!TypeOK'
  BY <1>0, <1>1, <1>6 DEF AlarmIInv, T!AlarmHasCause, T!TypeOK, T!serverVars, T!pageVars
<1>8. T!AlarmHasCause'
  BY <1>1, <1>3, <1>4, <1>7 DEF AlarmIInv, T!AlarmHasCause, Overloaded, T!pageVars
<1>9. HandlerRight'
  BY <1>1, <1>4 DEF AlarmIInv, HandlerRight, T!Handles, T!serverVars, T!pageVars
<1> QED BY <1>5, <1>8, <1>9 DEF AlarmIInv

\* Every step.
LEMMA AlarmNext == T!TelemetryAssumption /\ AlarmIInv /\ [T!Next]_(T!vars) => AlarmIInv'
<1> SUFFICES ASSUME T!TelemetryAssumption, AlarmIInv, [T!Next]_(T!vars) PROVE AlarmIInv'
  OBVIOUS
<1>1. CASE T!Daemon
  BY <1>1, AlarmDaemonSum, AlarmDaemonFlag DEF T!Daemon
<1>2. CASE T!Server
  BY <1>2, AlarmAccept, AlarmBurst, AlarmSaturate, AlarmRespond DEF T!Server
<1>3. ASSUME NEW i \in Slots, T!Poll(i) \/ T!Receive(i) \/ T!FetchFails(i) \/ T!InjectFails(i)
      PROVE  AlarmIInv'
  <2>1. "burst" \in T!Kinds \ {"telemetry"}
    BY DEF T!Kinds
  <2> QED BY <1>3, <2>1, AlarmSend, AlarmDraw, AlarmFail DEF T!Receive
<1>4. ASSUME NEW i \in Slots, NEW kind \in T!Kinds \ {"telemetry"}, T!Inject(i, kind)
      PROVE  AlarmIInv'
  BY <1>4, AlarmSend
<1>5. CASE UNCHANGED T!vars
  BY <1>5 DEF T!vars, T!sharedVars, T!daemonVars, T!serverVars, T!pageVars, AlarmIInv,
              T!AlarmHasCause, T!TypeOK, SumCaused, HandlerRight, T!Handles, Overloaded
<1> QED BY <1>1, <1>2, <1>3, <1>4, <1>5 DEF T!Next

\* An alarm has its cause in the queues, for any number of queues and requests and
\* whatever the bursts add.
THEOREM AlarmsCaused == T!TelemetryAssumption /\ T!Spec => []T!AlarmHasCause
<1> DEFINE Both == T!TelemetryAssumption /\ AlarmIInv
<1>1. T!TelemetryAssumption => T!TelemetryAssumption'
  BY DEF T!TelemetryAssumption
<1>2. T!TelemetryAssumption /\ T!Init => Both
  BY AlarmInit
<1>3. Both /\ [T!Next]_(T!vars) => Both'
  BY <1>1, AlarmNext
<1>4. Both => T!AlarmHasCause
  BY DEF AlarmIInv
<1> QED BY <1>2, <1>3, <1>4, PTL DEF T!Spec
==============================================================================
