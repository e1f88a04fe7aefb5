--------------------------- MODULE CountingLemmas ---------------------------
(***************************************************************************)
(* Facts about counters that the proofs of several components share:       *)
(* induction over the naturals in the form of a set closed under the       *)
(* successor, the remainders of unsigned integers, and the sums that       *)
(* SumFunction of the community modules computes.                          *)
(***************************************************************************)
EXTENDS Integers, Sequences, Functions, FiniteSetTheorems, SequenceTheorems,
        WellFoundedInduction, TLAPS

\* A set that holds 0 and with each number the next one holds every natural number.
LEMMA NatSetInduction ==
  ASSUME NEW S, 0 \in S, \A n \in Nat : n \in S => n + 1 \in S
  PROVE  \A n \in Nat : n \in S
<1> DEFINE T == {n \in Nat : n \notin S}
           R == OpToRel(<, Nat)
<1> SUFFICES ASSUME T # {} PROVE FALSE
  OBVIOUS
<1>1. IsWellFoundedOn(R, Nat)
  BY NatLessThanWellFounded
<1>2. T \subseteq Nat
  OBVIOUS
<1>3. \E x \in T : \A y \in T : ~(<<y, x>> \in R)
  <2> HIDE DEF T, R
  <2> QED BY <1>1, <1>2, WFMin
<1>4. PICK x \in T : \A y \in T : ~(<<y, x>> \in R)
  BY <1>3
<1>5. x \in Nat /\ x # 0 /\ x - 1 \in Nat /\ x - 1 < x
  OBVIOUS
<1>6. x - 1 \notin T
  <2>1. <<x - 1, x>> \in R
    BY <1>5 DEF OpToRel
  <2> QED BY <2>1, <1>4
<1>7. x - 1 \in S
  BY <1>5, <1>6
<1>8. (x - 1) + 1 \in S
  BY <1>5, <1>7
<1> QED BY <1>5, <1>8

-----------------------------------------------------------------------------
(* Remainders. *)

\* What is left after full turns of M.
LEMMA Turns ==
  ASSUME NEW M \in Nat \ {0}, NEW q \in Int, NEW r \in 0 .. M - 1
  PROVE  (q * M + r) % M = r
OBVIOUS

\* Every number is some full turns of M and a rest.
LEMMA Division ==
  ASSUME NEW M \in Nat \ {0}, NEW x \in Nat
  PROVE  \E q \in Nat, r \in 0 .. M - 1 : x = q * M + r
<1> DEFINE S == {n \in Nat : \E q \in Nat, r \in 0 .. M - 1 : n = q * M + r}
<1>1. 0 \in S
  <2>1. 0 \in 0 .. M - 1 /\ 0 = 0 * M + 0
    OBVIOUS
  <2> QED BY <2>1
<1>2. ASSUME NEW n \in Nat, n \in S PROVE n + 1 \in S
  <2>1. PICK q \in Nat, r \in 0 .. M - 1 : n = q * M + r
    BY <1>2
  <2>2. CASE r + 1 < M
    <3>1. r + 1 \in 0 .. M - 1 /\ n + 1 = q * M + (r + 1)
      BY <2>1, <2>2
    <3> QED BY <3>1
  <2>3. CASE r + 1 = M
    <3>1. (q + 1) * M = q * M + M
      OBVIOUS
    <3>2. q + 1 \in Nat /\ 0 \in 0 .. M - 1 /\ n + 1 = (q + 1) * M + 0
      BY <2>1, <2>3, <3>1
    <3> QED BY <3>2
  <2> QED BY <2>2, <2>3
<1> HIDE DEF S
<1>3. x \in S
  BY <1>1, <1>2, NatSetInduction
<1> QED BY <1>3 DEF S

\* A sum counted modulo M may be reduced after any of its parts.
LEMMA ModAdd ==
  ASSUME NEW M \in Nat \ {0}, NEW x \in Nat, NEW b \in Nat
  PROVE  /\ x % M \in 0 .. M - 1
         /\ ((x % M) + b) % M = (x + b) % M
<1>1. PICK q \in Nat, r \in 0 .. M - 1 : x = q * M + r
  BY Division
<1>2. x % M = r
  BY <1>1, Turns
<1>3. r + b \in Nat
  OBVIOUS
<1>4. PICK p \in Nat, s \in 0 .. M - 1 : r + b = p * M + s
  BY <1>3, Division
<1>5. (r + b) % M = s
  <2>1. (p * M + s) % M = s
    BY Turns
  <2> QED BY <1>4, <2>1
<1>6. x + b = (q + p) * M + s
  <2>1. (q + p) * M = q * M + p * M
    OBVIOUS
  <2>2. q * M \in Int /\ p * M \in Int
    OBVIOUS
  <2> QED BY <1>1, <1>4, <2>1, <2>2
<1>7. (x + b) % M = s
  <2>1. q + p \in Int
    OBVIOUS
  <2>2. ((q + p) * M + s) % M = s
    BY <2>1, Turns
  <2> QED BY <1>6, <2>2
<1> QED BY <1>2, <1>5, <1>7

\* Counting on by one, to the next multiple of M or not.
LEMMA NextRemainder ==
  ASSUME NEW M \in Nat \ {0}, NEW n \in Nat
  PROVE  /\ n % M \in 0 .. M - 1
         /\ (n + 1) % M # 0 => (n + 1) - ((n + 1) % M) = n - (n % M)
<1>1. PICK q \in Nat, r \in 0 .. M - 1 : n = q * M + r
  BY Division
<1>2. n % M = r
  BY <1>1, Turns
<1>3. CASE r + 1 < M
  <2> DEFINE t == r + 1
  <2>1. t \in 0 .. M - 1
    BY <1>3
  <2>2. n + 1 = q * M + t
    BY <1>1
  <2> HIDE DEF t
  <2>3. (q * M + t) % M = t
    BY <2>1, Turns
  <2>4. (n + 1) % M = t
    BY <2>2, <2>3
  <2> QED BY <1>2, <2>4 DEF t
<1>4. CASE r + 1 = M
  <2>1. (q + 1) * M = q * M + M
    OBVIOUS
  <2>2. q + 1 \in Nat /\ 0 \in 0 .. M - 1 /\ n + 1 = (q + 1) * M + 0
    BY <1>1, <1>4, <2>1
  <2>3. (n + 1) % M = 0
    <3>1. ((q + 1) * M + 0) % M = 0
      BY <2>2, Turns
    <3> QED BY <2>2, <3>1
  <2> QED BY <1>2, <2>3
<1> QED BY <1>3, <1>4

-----------------------------------------------------------------------------
(* Sums. *)

\* The order in which SumFunctionOnSet takes the elements of a set.
Pick(s) == CHOOSE x \in s : TRUE

\* it is the sum of f on each of the sets in D, taken in that order.
IsSum(f, D, it) ==
  it = [s \in D |-> IF s = {} THEN 0 ELSE f[Pick(s)] + it[s \ {Pick(s)}]]

\* it is the sum of f on each subset of S.
SumsOf(f, S, it) == IsSum(f, SUBSET S, it)

\* Only an empty set has no element to take.
LEMMA PickIn == ASSUME NEW s, s # {} PROVE Pick(s) \in s
BY DEF Pick

\* SumFunctionOnSet is such a function, applied to S.
LEMMA SumIsIter ==
  ASSUME NEW f, NEW S
  PROVE  SumFunctionOnSet(f, S) = (CHOOSE it : SumsOf(f, S, it))[S]
BY DEF SumFunctionOnSet, FoldFunctionOnSet, MapThenFoldSet, SumsOf, IsSum, Pick

\* The subsets of S with at most n elements.
UpTo(S, n) == {s \in SUBSET S : Cardinality(s) <= n}

\* Taking an element out of a subset of S leaves one of one element less.
LEMMA SmallSets ==
  ASSUME NEW S, IsFiniteSet(S)
  PROVE  /\ \A s \in SUBSET S : IsFiniteSet(s) /\ Cardinality(s) \in Nat
         /\ \A s \in SUBSET S : s # {} =>
              /\ Pick(s) \in s /\ s \ {Pick(s)} \in SUBSET S
              /\ Cardinality(s \ {Pick(s)}) = Cardinality(s) - 1
              /\ Cardinality(s) # 0
         /\ UpTo(S, Cardinality(S)) = SUBSET S
<1>1. \A s \in SUBSET S : IsFiniteSet(s) /\ Cardinality(s) \in Nat /\ Cardinality(s) <= Cardinality(S)
  BY FS_Subset, FS_CardinalityType
<1>2. ASSUME NEW s \in SUBSET S, s # {}
      PROVE  /\ Pick(s) \in s /\ s \ {Pick(s)} \in SUBSET S
             /\ Cardinality(s \ {Pick(s)}) = Cardinality(s) - 1
             /\ Cardinality(s) # 0
  <2>1. Pick(s) \in s
    BY <1>2, PickIn
  <2> QED BY <1>1, <1>2, <2>1, FS_RemoveElement, FS_EmptySet
<1> QED BY <1>1, <1>2 DEF UpTo

\* There is such a function on the subsets of any finite set.
LEMMA SumExists ==
  ASSUME NEW f, NEW S, IsFiniteSet(S)
  PROVE  \E it : SumsOf(f, S, it)
<1> DEFINE N == {n \in Nat : \E it : IsSum(f, UpTo(S, n), it)}
<1>1. 0 \in N
  <2> DEFINE it == [s \in UpTo(S, 0) |-> 0]
  <2>1. \A s \in UpTo(S, 0) : s = {}
    BY SmallSets, FS_EmptySet DEF UpTo
  <2>2. IsSum(f, UpTo(S, 0), it)
    BY <2>1 DEF IsSum
  <2> HIDE DEF it
  <2> QED BY <2>2
<1>2. ASSUME NEW n \in Nat, n \in N PROVE n + 1 \in N
  <2>1. PICK it : IsSum(f, UpTo(S, n), it)
    BY <1>2
  <2> DEFINE next == [s \in UpTo(S, n + 1) |->
                        IF s = {} THEN 0 ELSE f[Pick(s)] + it[s \ {Pick(s)}]]
  <2>2. \A s \in UpTo(S, n) : s \in UpTo(S, n + 1) /\ next[s] = it[s]
    <3>1. \A s \in UpTo(S, n) : s \in UpTo(S, n + 1)
      BY SmallSets DEF UpTo
    <3> QED BY <2>1, <3>1 DEF IsSum
  <2>3. \A s \in UpTo(S, n + 1) : s # {} => s \ {Pick(s)} \in UpTo(S, n)
    BY SmallSets DEF UpTo
  <2>4. IsSum(f, UpTo(S, n + 1), next)
    BY <2>2, <2>3 DEF IsSum
  <2> HIDE DEF next
  <2> QED BY <2>4
<1> HIDE DEF N
<1>3. Cardinality(S) \in N
  BY <1>1, <1>2, NatSetInduction, FS_CardinalityType
<1> QED BY <1>3, SmallSets DEF N, SumsOf

\* f and g have the same values on S.
Agree(f, g, S) == \A x \in S : f[x] = g[x]

\* The values of f on T decide its sum on T, whichever set the sums are taken in.
LEMMA SumAgrees ==
  ASSUME NEW f, NEW g, NEW S, IsFiniteSet(S), NEW T \in SUBSET S,
         NEW a, SumsOf(f, S, a), NEW b, SumsOf(g, T, b),
         Agree(f, g, T)
  PROVE  a[T] = b[T]
<1> DEFINE N == {n \in Nat : \A s \in UpTo(T, n) : a[s] = b[s]}
<1>0. IsFiniteSet(T)
  BY FS_Subset
<1>1. 0 \in N
  <2>1. \A s \in UpTo(T, 0) : s = {} /\ s \in SUBSET S /\ s \in SUBSET T
    BY <1>0, SmallSets, FS_EmptySet DEF UpTo
  <2> QED BY <2>1 DEF SumsOf, IsSum
<1>2. ASSUME NEW n \in Nat, n \in N PROVE n + 1 \in N
  <2> SUFFICES ASSUME NEW s \in UpTo(T, n + 1) PROVE a[s] = b[s]
    OBVIOUS
  <2>1. s \in SUBSET S /\ s \in SUBSET T
    BY DEF UpTo
  <2>2. CASE s = {}
    BY <2>1, <2>2 DEF SumsOf, IsSum
  <2>3. CASE s # {}
    <3>1. Pick(s) \in T /\ s \ {Pick(s)} \in UpTo(T, n)
      BY <1>0, <2>1, <2>3, SmallSets DEF UpTo
    <3>2. a[s \ {Pick(s)}] = b[s \ {Pick(s)}]
      BY <1>2, <3>1
    <3>3. /\ a[s] = f[Pick(s)] + a[s \ {Pick(s)}]
          /\ b[s] = g[Pick(s)] + b[s \ {Pick(s)}]
      BY <2>1, <2>3 DEF SumsOf, IsSum
    <3> QED BY <3>1, <3>2, <3>3 DEF Agree
  <2> QED BY <2>2, <2>3
<1> HIDE DEF N
<1>3. Cardinality(T) \in N
  BY <1>0, <1>1, <1>2, NatSetInduction, FS_CardinalityType
<1>4. T \in UpTo(T, Cardinality(T))
  BY <1>0, SmallSets
<1> QED BY <1>3, <1>4 DEF N

\* The sum on a set from that on the set without the element picked first.
LEMMA SumStep ==
  ASSUME NEW f, NEW S, IsFiniteSet(S)
  PROVE  /\ S = {} => SumFunctionOnSet(f, S) = 0
         /\ S # {} => SumFunctionOnSet(f, S) = f[Pick(S)] + SumFunctionOnSet(f, S \ {Pick(S)})
<1> DEFINE T == S \ {Pick(S)}
           a == CHOOSE it : SumsOf(f, S, it)
           b == CHOOSE it : SumsOf(f, T, it)
<1>1. IsFiniteSet(T) /\ T \in SUBSET S
  BY FS_Subset
<1> HIDE DEF T
<1>2. SumsOf(f, S, a) /\ SumsOf(f, T, b)
  BY <1>1, SumExists
<1>3. SumFunctionOnSet(f, S) = a[S] /\ SumFunctionOnSet(f, T) = b[T]
  BY SumIsIter
<1> HIDE DEF a, b
<1>4. a[T] = b[T]
  <2>1. Agree(f, f, T)
    BY DEF Agree
  <2> QED BY <1>1, <1>2, <2>1, SumAgrees
<1>5. a[S] = IF S = {} THEN 0 ELSE f[Pick(S)] + a[T]
  BY <1>2 DEF SumsOf, IsSum, T
<1> QED BY <1>3, <1>4, <1>5 DEF T

\* Functions that agree on a set have the same sum on it.
LEMMA SumCongruent ==
  ASSUME NEW f, NEW g, NEW S, IsFiniteSet(S), Agree(f, g, S)
  PROVE  SumFunctionOnSet(f, S) = SumFunctionOnSet(g, S)
<1> DEFINE a == CHOOSE it : SumsOf(f, S, it)
           b == CHOOSE it : SumsOf(g, S, it)
<1>1. SumsOf(f, S, a) /\ SumsOf(g, S, b)
  BY SumExists
<1>2. SumFunctionOnSet(f, S) = a[S] /\ SumFunctionOnSet(g, S) = b[S]
  BY SumIsIter
<1> HIDE DEF a, b
<1>3. S \in SUBSET S
  OBVIOUS
<1>4. a[S] = b[S]
  BY <1>1, <1>3, SumAgrees
<1> QED BY <1>2, <1>4

\* Any element may be taken out of a sum of numbers.
LEMMA SumOut ==
  ASSUME NEW f, NEW S, IsFiniteSet(S), \A x \in S : f[x] \in Int
  PROVE  /\ SumFunctionOnSet(f, S) \in Int
         /\ \A x \in S : SumFunctionOnSet(f, S) = f[x] + SumFunctionOnSet(f, S \ {x})
<1> DEFINE Out(s) == /\ SumFunctionOnSet(f, s) \in Int
                     /\ \A x \in s : SumFunctionOnSet(f, s) = f[x] + SumFunctionOnSet(f, s \ {x})
           N == {n \in Nat : \A s \in UpTo(S, n) : Out(s)}
<1>1. 0 \in N
  <2>1. \A s \in UpTo(S, 0) : s = {} /\ IsFiniteSet(s)
    BY SmallSets, FS_EmptySet DEF UpTo
  <2>2. Out({})
    <3>1. IsFiniteSet({})
      BY FS_EmptySet
    <3>2. SumFunctionOnSet(f, {}) = 0
      BY <3>1, SumStep
    <3> QED BY <3>2
  <2> HIDE DEF Out
  <2> QED BY <2>1, <2>2
<1>2. ASSUME NEW n \in Nat, n \in N PROVE n + 1 \in N
  <2>0. Out({})
    <3>1. IsFiniteSet({})
      BY FS_EmptySet
    <3>2. SumFunctionOnSet(f, {}) = 0
      BY <3>1, SumStep
    <3> QED BY <3>2
  <2> SUFFICES ASSUME NEW s \in UpTo(S, n + 1), s # {} PROVE Out(s)
    <3> HIDE DEF Out
    <3> QED BY <2>0
  <2> DEFINE p == Pick(s)
  <2>1. /\ s \in SUBSET S /\ IsFiniteSet(s) /\ p \in s
        /\ s \ {p} \in UpTo(S, n)
    BY SmallSets DEF UpTo
  <2>2. SumFunctionOnSet(f, s) = f[p] + SumFunctionOnSet(f, s \ {p})
    BY <2>1, SumStep
  <2> HIDE DEF p
  <2>3. Out(s \ {p})
    BY <1>2, <2>1
  <2>4. SumFunctionOnSet(f, s) \in Int
    BY <2>1, <2>2, <2>3
  <2>5. ASSUME NEW x \in s
        PROVE  SumFunctionOnSet(f, s) = f[x] + SumFunctionOnSet(f, s \ {x})
    <3>1. CASE x = p
      BY <2>2, <3>1
    <3>2. CASE x # p
      <4>1. SumFunctionOnSet(f, s \ {p}) = f[x] + SumFunctionOnSet(f, (s \ {p}) \ {x})
        BY <2>3, <3>2
      <4>2. s \ {x} \in UpTo(S, n) /\ p \in s \ {x}
        <5>1. Cardinality(s \ {x}) = Cardinality(s \ {p})
          BY <2>1, FS_RemoveElement
        <5> QED BY <2>1, <3>2, <5>1 DEF UpTo
      <4>3. SumFunctionOnSet(f, s \ {x}) = f[p] + SumFunctionOnSet(f, (s \ {x}) \ {p})
        BY <1>2, <4>2
      <4>4. (s \ {x}) \ {p} = (s \ {p}) \ {x}
        OBVIOUS
      <4>5. SumFunctionOnSet(f, (s \ {x}) \ {p}) \in Int
        <5>1. (s \ {x}) \ {p} \in UpTo(S, n)
          <6>1. /\ IsFiniteSet(s \ {x}) /\ s \ {x} \in SUBSET S
                /\ Cardinality(s \ {x}) \in Nat /\ Cardinality(s \ {x}) <= n
            BY <4>2, SmallSets DEF UpTo
          <6> DEFINE u == s \ {x}
          <6>2. IsFiniteSet(u) /\ p \in u /\ Cardinality(u) \in Nat /\ Cardinality(u) <= n
            BY <6>1, <4>2
          <6>3. (s \ {x}) \ {p} \in SUBSET S
            BY <6>1
          <6> HIDE DEF u
          <6>4. Cardinality(u \ {p}) = Cardinality(u) - 1
            BY <6>2, FS_RemoveElement
          <6>5. Cardinality(u \ {p}) <= n
            BY <6>2, <6>4
          <6> QED BY <6>3, <6>5 DEF UpTo, u
        <5> QED BY <1>2, <5>1
      <4>6. f[x] \in Int /\ f[p] \in Int
        BY <2>1
      <4> DEFINE v == SumFunctionOnSet(f, (s \ {p}) \ {x})
      <4>7. v \in Int /\ SumFunctionOnSet(f, s) = f[p] + (f[x] + v)
        BY <2>2, <4>1, <4>4, <4>5
      <4>8. SumFunctionOnSet(f, s \ {x}) = f[p] + v
        BY <4>3, <4>4
      <4> HIDE DEF v
      <4> QED BY <4>6, <4>7, <4>8
    <3> QED BY <3>1, <3>2
  <2> QED BY <2>4, <2>5
<1> HIDE DEF N
<1>3. Cardinality(S) \in N
  BY <1>1, <1>2, NatSetInduction, FS_CardinalityType
<1>4. S \in UpTo(S, Cardinality(S))
  BY SmallSets
<1> QED BY <1>3, <1>4 DEF N

\* Nothing adds up to nothing.
LEMMA SumEmpty == ASSUME NEW f PROVE SumFunctionOnSet(f, {}) = 0
<1>1. IsFiniteSet({})
  BY FS_EmptySet
<1> QED BY <1>1, SumStep

\* The larger the parts, the larger the sum.
LEMMA SumMonotone ==
  ASSUME NEW f, NEW g, NEW S, IsFiniteSet(S),
         \A x \in S : f[x] \in Int /\ g[x] \in Int /\ f[x] <= g[x]
  PROVE  SumFunctionOnSet(f, S) <= SumFunctionOnSet(g, S)
<1> DEFINE N == {n \in Nat : \A s \in UpTo(S, n) :
                               SumFunctionOnSet(f, s) <= SumFunctionOnSet(g, s)}
<1>1. 0 \in N
  <2>1. \A s \in UpTo(S, 0) : s = {}
    BY SmallSets, FS_EmptySet DEF UpTo
  <2>2. SumFunctionOnSet(f, {}) <= SumFunctionOnSet(g, {})
    BY SumEmpty
  <2> QED BY <2>1, <2>2
<1>2. ASSUME NEW n \in Nat, n \in N PROVE n + 1 \in N
  <2> SUFFICES ASSUME NEW s \in UpTo(S, n + 1), s # {}
               PROVE  SumFunctionOnSet(f, s) <= SumFunctionOnSet(g, s)
    BY SumEmpty
  <2> DEFINE p == Pick(s)
             t == s \ {p}
  <2>1. /\ s \in SUBSET S /\ IsFiniteSet(s) /\ p \in s
        /\ t \in UpTo(S, n) /\ t \in SUBSET S /\ IsFiniteSet(t)
    BY SmallSets DEF UpTo
  <2>2. /\ SumFunctionOnSet(f, s) = f[p] + SumFunctionOnSet(f, t)
        /\ SumFunctionOnSet(g, s) = g[p] + SumFunctionOnSet(g, t)
    BY <2>1, SumStep
  <2> HIDE DEF p, t
  <2>3. \A x \in t : f[x] \in Int /\ g[x] \in Int
    BY <2>1
  <2>4. SumFunctionOnSet(f, t) \in Int /\ SumFunctionOnSet(g, t) \in Int
    BY <2>1, <2>3, SumOut
  <2>5. SumFunctionOnSet(f, t) <= SumFunctionOnSet(g, t)
    BY <1>2, <2>1
  <2>6. f[p] \in Int /\ g[p] \in Int /\ f[p] <= g[p]
    BY <2>1
  <2> QED BY <2>2, <2>4, <2>5, <2>6
<1> HIDE DEF N
<1>3. Cardinality(S) \in N
  BY <1>1, <1>2, NatSetInduction, FS_CardinalityType
<1>4. S \in UpTo(S, Cardinality(S))
  BY SmallSets
<1> QED BY <1>3, <1>4 DEF N

\* A sum of which one part changes.
LEMMA SumChange ==
  ASSUME NEW f, NEW g, NEW S, IsFiniteSet(S), NEW y \in S, Agree(f, g, S \ {y}),
         \A x \in S : f[x] \in Int, g[y] \in Int
  PROVE  /\ SumFunctionOnSet(f, S) \in Int /\ SumFunctionOnSet(g, S) \in Int
         /\ SumFunctionOnSet(g, S) = (SumFunctionOnSet(f, S) - f[y]) + g[y]
<1> DEFINE T == S \ {y}
<1>1. IsFiniteSet(T)
  BY FS_Subset
<1>2. \A x \in S : g[x] \in Int
  BY DEF Agree
<1>3. Agree(f, g, T)
  OBVIOUS
<1>4. /\ SumFunctionOnSet(f, S) \in Int
      /\ SumFunctionOnSet(f, S) = f[y] + SumFunctionOnSet(f, T)
  BY SumOut
<1>5. /\ SumFunctionOnSet(g, S) \in Int
      /\ SumFunctionOnSet(g, S) = g[y] + SumFunctionOnSet(g, T)
  BY <1>2, SumOut
<1>6. \A x \in T : f[x] \in Int
  OBVIOUS
<1> HIDE DEF T
<1>7. SumFunctionOnSet(f, T) = SumFunctionOnSet(g, T)
  BY <1>1, <1>3, SumCongruent
<1>8. SumFunctionOnSet(f, T) \in Int
  BY <1>1, <1>6, SumOut
<1>9. f[y] \in Int
  OBVIOUS
<1> QED BY <1>4, <1>5, <1>7, <1>8, <1>9

\* The sum of zeros is 0.
LEMMA SumZero ==
  ASSUME NEW zero, NEW S, IsFiniteSet(S), \A x \in S : zero[x] = 0
  PROVE  SumFunctionOnSet(zero, S) = 0
<1> DEFINE N == {n \in Nat : \A s \in UpTo(S, n) : SumFunctionOnSet(zero, s) = 0}
<1>1. 0 \in N
  <2>1. \A s \in UpTo(S, 0) : s = {}
    BY SmallSets, FS_EmptySet DEF UpTo
  <2> QED BY <2>1, SumEmpty
<1>2. ASSUME NEW n \in Nat, n \in N PROVE n + 1 \in N
  <2> SUFFICES ASSUME NEW s \in UpTo(S, n + 1), s # {} PROVE SumFunctionOnSet(zero, s) = 0
    <3>1. SumFunctionOnSet(zero, {}) = 0
      BY SumEmpty
    <3> QED BY <3>1
  <2>1. /\ IsFiniteSet(s) /\ Pick(s) \in S /\ s \ {Pick(s)} \in UpTo(S, n)
    BY SmallSets DEF UpTo
  <2> QED BY <1>2, <2>1, SumStep
<1> HIDE DEF N
<1>3. Cardinality(S) \in N
  BY <1>1, <1>2, NatSetInduction, FS_CardinalityType
<1> QED BY <1>3, SmallSets DEF N

\* The sum of natural numbers is one.
LEMMA SumNat ==
  ASSUME NEW f, NEW S, IsFiniteSet(S), \A x \in S : f[x] \in Nat
  PROVE  SumFunctionOnSet(f, S) \in Nat
<1> DEFINE zero == [x \in S |-> 0]
<1>0. \A x \in S : zero[x] = 0
  OBVIOUS
<1> HIDE DEF zero
<1>4. SumFunctionOnSet(zero, S) = 0
  BY <1>0, SumZero
<1>5. SumFunctionOnSet(zero, S) <= SumFunctionOnSet(f, S)
  BY <1>0, SumMonotone
<1>6. SumFunctionOnSet(f, S) \in Int
  BY SumOut
<1> QED BY <1>4, <1>5, <1>6

-----------------------------------------------------------------------------
(* Sums of sequences. *)

\* The places of a sequence are finitely many.
LEMMA FiniteLength ==
  ASSUME NEW n \in Nat
  PROVE  IsFiniteSet(1 .. n)
<1>1. 1 \in Int /\ n \in Int
  OBVIOUS
<1> QED BY <1>1, FS_Interval

\* The sum of a sequence is its first element and the sum of what follows.
LEMMA SumShift ==
  ASSUME NEW f, NEW g, NEW n \in Nat,
         \A i \in 1 .. n + 1 : f[i] \in Int, \A i \in 1 .. n : g[i] = f[i + 1]
  PROVE  SumFunctionOnSet(f, 1 .. n + 1) = f[1] + SumFunctionOnSet(g, 1 .. n)
<1> DEFINE S == {m \in Nat : m <= n => SumFunctionOnSet(f, 1 .. m + 1)
                                          = f[1] + SumFunctionOnSet(g, 1 .. m)}
<1>0. ASSUME NEW m \in Nat, m <= n
      PROVE  /\ IsFiniteSet(1 .. m) /\ \A i \in 1 .. m + 1 : f[i] \in Int
             /\ \A i \in 1 .. m : g[i] \in Int
  <2>1. IsFiniteSet(1 .. m)
    BY FiniteLength
  <2>2. \A i \in 1 .. m + 1 : i \in 1 .. n + 1
    BY <1>0
  <2>3. \A i \in 1 .. m : g[i] = f[i + 1] /\ i + 1 \in 1 .. n + 1
    BY <1>0
  <2> QED BY <2>1, <2>2, <2>3
<1>1. 0 \in S
  <2>1. 1 .. 0 = {} /\ 1 .. (0 + 1) = {1} /\ {1} \ {1} = {}
    OBVIOUS
  <2>2. IsFiniteSet({1}) /\ f[1] \in Int
    <3>1. IsFiniteSet({1})
      BY FS_Singleton
    <3>2. 1 \in 1 .. n + 1
      OBVIOUS
    <3> QED BY <3>1, <3>2
  <2>3. SumFunctionOnSet(f, {1}) = f[1] + SumFunctionOnSet(f, {})
    BY <2>1, <2>2, SumOut
  <2> QED BY <2>1, <2>2, <2>3, SumEmpty
<1>2. ASSUME NEW m \in Nat, m \in S PROVE m + 1 \in S
  <2> SUFFICES ASSUME m + 1 <= n
               PROVE  SumFunctionOnSet(f, 1 .. (m + 1) + 1)
                        = f[1] + SumFunctionOnSet(g, 1 .. m + 1)
    OBVIOUS
  <2>1. SumFunctionOnSet(f, 1 .. m + 1) = f[1] + SumFunctionOnSet(g, 1 .. m)
    BY <1>2
  <2>2. SumFunctionOnSet(f, 1 .. (m + 1) + 1)
          = f[(m + 1) + 1] + SumFunctionOnSet(f, 1 .. m + 1)
    <3> DEFINE T == 1 .. (m + 1) + 1
    <3>1. IsFiniteSet(T) /\ (m + 1) + 1 \in T /\ T \ {(m + 1) + 1} = 1 .. m + 1
      <4>1. (m + 1) + 1 \in Nat
        OBVIOUS
      <4>2. IsFiniteSet(T)
        BY <4>1, FiniteLength
      <4> QED BY <4>2
    <3>2. \A i \in T : f[i] \in Int
      OBVIOUS
    <3> HIDE DEF T
    <3>3. SumFunctionOnSet(f, T) = f[(m + 1) + 1] + SumFunctionOnSet(f, T \ {(m + 1) + 1})
      BY <3>1, <3>2, SumOut
    <3> QED BY <3>1, <3>3 DEF T
  <2>3. SumFunctionOnSet(g, 1 .. m + 1) = g[m + 1] + SumFunctionOnSet(g, 1 .. m)
    <3> DEFINE T == 1 .. m + 1
    <3>1. IsFiniteSet(T) /\ m + 1 \in T /\ T \ {m + 1} = 1 .. m
      <4>1. m + 1 \in Nat
        OBVIOUS
      <4>2. IsFiniteSet(T)
        BY <4>1, FiniteLength
      <4> QED BY <4>2
    <3>2. \A i \in T : g[i] \in Int
      OBVIOUS
    <3> HIDE DEF T
    <3>3. SumFunctionOnSet(g, T) = g[m + 1] + SumFunctionOnSet(g, T \ {m + 1})
      BY <3>1, <3>2, SumOut
    <3> QED BY <3>1, <3>3 DEF T
  <2>4. g[m + 1] = f[(m + 1) + 1] /\ g[m + 1] \in Int /\ f[1] \in Int
    OBVIOUS
  <2>5. SumFunctionOnSet(g, 1 .. m) \in Int
    <3> DEFINE T == 1 .. m
    <3>1. IsFiniteSet(T)
      BY FiniteLength
    <3>2. \A i \in T : g[i] \in Int
      OBVIOUS
    <3> HIDE DEF T
    <3>3. SumFunctionOnSet(g, T) \in Int
      BY <3>1, <3>2, SumOut
    <3> QED BY <3>3 DEF T
  <2> QED BY <2>1, <2>2, <2>3, <2>4, <2>5
<1> HIDE DEF S
<1>3. n \in S
  BY <1>1, <1>2, NatSetInduction
<1> QED BY <1>3 DEF S

\* f goes on after place k as g goes through its m places.
InTwoParts(f, g, k, m) ==
  (\A i \in 1 .. k + m : f[i] \in Int) /\ (\A i \in 1 .. m : g[i] = f[k + i])

\* A sum in two parts, the second one place by place.
LEMMA SumInParts ==
  ASSUME NEW f, NEW g, NEW k \in Nat, NEW m \in Nat, InTwoParts(f, g, k, m)
  PROVE  SumFunctionOnSet(f, 1 .. k + m) = SumFunctionOnSet(f, 1 .. k) + SumFunctionOnSet(g, 1 .. m)
<1>a. (\A i \in 1 .. k + m : f[i] \in Int) /\ (\A i \in 1 .. m : g[i] = f[k + i])
  BY DEF InTwoParts
<1> DEFINE S == {n \in Nat : n <= m => SumFunctionOnSet(f, 1 .. k + n)
                                         = SumFunctionOnSet(f, 1 .. k) + SumFunctionOnSet(g, 1 .. n)}
<1>0. SumFunctionOnSet(f, 1 .. k) \in Int
  <2> DEFINE T == 1 .. k
  <2>1. IsFiniteSet(T) /\ \A i \in T : f[i] \in Int
    BY <1>a, FiniteLength
  <2> HIDE DEF T
  <2>2. SumFunctionOnSet(f, T) \in Int
    BY <2>1, SumOut
  <2> QED BY <2>2 DEF T
<1>1. 0 \in S
  <2>1. 1 .. k + 0 = 1 .. k /\ 1 .. 0 = {}
    OBVIOUS
  <2>2. SumFunctionOnSet(g, 1 .. 0) = 0
    BY <2>1, SumEmpty
  <2> QED BY <1>0, <2>1, <2>2
<1>2. ASSUME NEW n \in Nat, n \in S PROVE n + 1 \in S
  <2> SUFFICES ASSUME n + 1 <= m
               PROVE  SumFunctionOnSet(f, 1 .. k + (n + 1))
                        = SumFunctionOnSet(f, 1 .. k) + SumFunctionOnSet(g, 1 .. n + 1)
    OBVIOUS
  <2>1. SumFunctionOnSet(f, 1 .. k + n) = SumFunctionOnSet(f, 1 .. k) + SumFunctionOnSet(g, 1 .. n)
    BY <1>2
  <2>2. SumFunctionOnSet(f, 1 .. k + (n + 1)) = f[k + (n + 1)] + SumFunctionOnSet(f, 1 .. k + n)
    <3> DEFINE T == 1 .. k + (n + 1)
    <3>1. IsFiniteSet(T) /\ k + (n + 1) \in T /\ T \ {k + (n + 1)} = 1 .. k + n
      <4>1. k + (n + 1) \in Nat
        OBVIOUS
      <4>2. IsFiniteSet(T)
        BY <4>1, FiniteLength
      <4> QED BY <4>2
    <3>2. \A i \in T : f[i] \in Int
      BY <1>a
    <3> HIDE DEF T
    <3>3. SumFunctionOnSet(f, T) = f[k + (n + 1)] + SumFunctionOnSet(f, T \ {k + (n + 1)})
      BY <3>1, <3>2, SumOut
    <3> QED BY <3>1, <3>3 DEF T
  <2>3. SumFunctionOnSet(g, 1 .. n + 1) = g[n + 1] + SumFunctionOnSet(g, 1 .. n)
    <3> DEFINE T == 1 .. n + 1
    <3>1. IsFiniteSet(T) /\ n + 1 \in T /\ T \ {n + 1} = 1 .. n
      <4>1. n + 1 \in Nat
        OBVIOUS
      <4>2. IsFiniteSet(T)
        BY <4>1, FiniteLength
      <4> QED BY <4>2
    <3>2. \A i \in T : g[i] \in Int
      <4> SUFFICES ASSUME NEW i \in 1 .. n + 1 PROVE g[i] \in Int
        OBVIOUS
      <4>1. i \in 1 .. m /\ k + i \in 1 .. k + m
        OBVIOUS
      <4> QED BY <1>a, <4>1
    <3> HIDE DEF T
    <3>3. SumFunctionOnSet(g, T) = g[n + 1] + SumFunctionOnSet(g, T \ {n + 1})
      BY <3>1, <3>2, SumOut
    <3> QED BY <3>1, <3>3 DEF T
  <2>4. SumFunctionOnSet(g, 1 .. n) \in Int
    <3> DEFINE T == 1 .. n
    <3>1. IsFiniteSet(T)
      BY FiniteLength
    <3>2. \A i \in T : g[i] \in Int
      <4> SUFFICES ASSUME NEW i \in 1 .. n PROVE g[i] \in Int
        OBVIOUS
      <4>1. i \in 1 .. m /\ k + i \in 1 .. k + m
        OBVIOUS
      <4> QED BY <1>a, <4>1
    <3> HIDE DEF T
    <3>3. SumFunctionOnSet(g, T) \in Int
      BY <3>1, <3>2, SumOut
    <3> QED BY <3>3 DEF T
  <2>5. g[n + 1] = f[k + (n + 1)] /\ f[k + (n + 1)] \in Int
    <3>1. n + 1 \in 1 .. m /\ k + (n + 1) \in 1 .. k + m
      OBVIOUS
    <3> QED BY <1>a, <3>1
  <2> QED BY <1>0, <2>1, <2>2, <2>3, <2>4, <2>5
<1> HIDE DEF S
<1>3. m \in S
  BY <1>1, <1>2, NatSetInduction
<1> QED BY <1>3 DEF S

\* The total of a queue of numbers when one comes in and when one goes out.
LEMMA SumQueue ==
  ASSUME NEW q \in Seq(Nat)
  PROVE  /\ SumFunction(q) \in Nat
         /\ SumFunction(<< >>) = 0
         /\ \A x \in Nat : SumFunction(Append(q, x)) = SumFunction(q) + x
         /\ q # << >> => SumFunction(q) = Head(q) + SumFunction(Tail(q))
<1> DEFINE n == Len(q)
<1>0. /\ n \in Nat /\ DOMAIN q = 1 .. n /\ IsFiniteSet(1 .. n)
      /\ \A i \in 1 .. n : q[i] \in Nat
  <2>1. n \in Nat /\ DOMAIN q = 1 .. n /\ \A i \in 1 .. n : q[i] \in Nat
    OBVIOUS
  <2> HIDE DEF n
  <2> QED BY <2>1, FiniteLength
<1>1. SumFunction(q) \in Nat
  BY <1>0, SumNat DEF SumFunction
<1>2. SumFunction(<< >>) = 0
  <2>1. DOMAIN << >> = {}
    OBVIOUS
  <2> QED BY <2>1, SumEmpty DEF SumFunction
<1>3. ASSUME NEW x \in Nat PROVE SumFunction(Append(q, x)) = SumFunction(q) + x
  <2> DEFINE r == Append(q, x)
             T == 1 .. n + 1
  <2>1. /\ DOMAIN r = T /\ IsFiniteSet(T) /\ n + 1 \in T /\ T \ {n + 1} = 1 .. n
        /\ r[n + 1] = x
        /\ \A i \in 1 .. n : r[i] = q[i]
    <3>1. DOMAIN r = T /\ r[n + 1] = x /\ \A i \in 1 .. n : r[i] = q[i]
      OBVIOUS
    <3>2. n + 1 \in Nat
      BY <1>0
    <3> HIDE DEF n
    <3>3. IsFiniteSet(T)
      BY <3>2, FiniteLength
    <3>4. n + 1 \in T /\ T \ {n + 1} = 1 .. n
      BY <1>0
    <3> QED BY <3>1, <3>3, <3>4
  <2>2. \A i \in T : r[i] \in Int
    BY <1>0, <2>1
  <2>3. Agree(r, q, 1 .. n)
    BY <2>1 DEF Agree
  <2> HIDE DEF r, T
  <2>4. SumFunctionOnSet(r, T) = r[n + 1] + SumFunctionOnSet(r, T \ {n + 1})
    BY <2>1, <2>2, SumOut
  <2>5. SumFunctionOnSet(r, 1 .. n) = SumFunctionOnSet(q, 1 .. n)
    BY <1>0, <2>3, SumCongruent
  <2>6. SumFunction(r) = x + SumFunction(q)
    BY <1>0, <2>1, <2>4, <2>5 DEF SumFunction
  <2>7. SumFunction(r) = SumFunction(q) + x
    BY <1>1, <2>6
  <2> QED BY <2>7 DEF r
<1>4. ASSUME q # << >> PROVE SumFunction(q) = Head(q) + SumFunction(Tail(q))
  <2> DEFINE r == Tail(q)
             m == n - 1
  <2>1. /\ m \in Nat /\ m + 1 = n /\ DOMAIN r = 1 .. m /\ Head(q) = q[1]
        /\ \A i \in 1 .. m : r[i] = q[i + 1]
    BY <1>0, <1>4
  <2>2. \A i \in 1 .. m + 1 : q[i] \in Int
    BY <1>0, <2>1
  <2> HIDE DEF r, m
  <2>a. m \in Nat /\ \A i \in 1 .. m : r[i] = q[i + 1]
    BY <2>1
  <2>3. SumFunctionOnSet(q, 1 .. m + 1) = q[1] + SumFunctionOnSet(r, 1 .. m)
    BY <2>a, <2>2, SumShift
  <2>4. SumFunction(q) = Head(q) + SumFunction(r)
    BY <1>0, <2>1, <2>3 DEF SumFunction
  <2> QED BY <2>4 DEF r
<1> QED BY <1>1, <1>2, <1>3, <1>4
=============================================================================
