-------------------------- MODULE SelectorsProofs ----------------------------
(***************************************************************************)
(* Proofs about the selectors: what each promises its callers, for any      *)
(* instances, weights, lists and callers, and that the selector of a        *)
(* service keeps the promise of its kind.  P2C has a module of its own.     *)
(***************************************************************************)
EXTENDS Selectors, P2CProofs, WellFoundedInduction

-----------------------------------------------------------------------------
(* Sets of numbers, and induction over finite sets. *)

LEMMA NatMin ==
    ASSUME NEW T \in SUBSET Nat, T # {}
    PROVE  \E x \in T : \A y \in T : x <= y
<1>1. PICK x \in T : \A y \in T : ~(<<y, x>> \in OpToRel(<, Nat))
  BY NatLessThanWellFounded, WFMin
<1>2. \A y \in T : x <= y
  <2> TAKE y \in T
  <2>1. y \in Nat /\ x \in Nat
    OBVIOUS
  <2>2. y < x => <<y, x>> \in OpToRel(<, Nat)
    BY <2>1 DEF OpToRel
  <2>3. ~(y < x)
    BY <1>1, <2>2
  <2> QED BY <2>1, <2>3
<1> QED BY <1>2

\* The least of a set of numbers, as FiniteSetsExt defines it.
LEMMA MinIsLeast ==
    ASSUME NEW T \in SUBSET Nat, T # {}
    PROVE  Min(T) \in T /\ \A y \in T : Min(T) <= y
  BY NatMin DEF Min

\* Ascending lists a finite set of numbers, each once and each behind those that are less.
LEMMA AscendingLists ==
    ASSUME NEW S \in SUBSET Int, IsFiniteSet(S)
    PROVE  /\ Cardinality(S) \in Nat
           /\ Ascending(S) \in [1..Cardinality(S) -> S]
           /\ \A m, n \in 1..Cardinality(S) : m < n => Ascending(S)[m] < Ascending(S)[n]
           /\ \A x \in S : \E n \in 1..Cardinality(S) : Ascending(S)[n] = x
<1> DEFINE N == Cardinality(S)
           R == 0..(N - 1)
           Less(x) == {y \in S : y < x}
           rank == [x \in S |-> Cardinality(Less(x))]
<1>1. N \in Nat
  BY FS_CardinalityType
<1>2. \A x \in S : IsFiniteSet(Less(x)) /\ Cardinality(Less(x)) \in R
  <2> TAKE x \in S
  <2>1. Less(x) \in SUBSET S /\ Less(x) # S
    OBVIOUS
  <2>2. IsFiniteSet(Less(x)) /\ Cardinality(Less(x)) <= N /\ Cardinality(Less(x)) # N
    BY <2>1, FS_Subset
  <2>3. Cardinality(Less(x)) \in Nat
    BY <2>2, FS_CardinalityType
  <2> QED BY <1>1, <2>2, <2>3
<1>3. \A x, y \in S : x < y => rank[x] < rank[y]
  <2> SUFFICES ASSUME NEW x \in S, NEW y \in S, x < y PROVE rank[x] < rank[y]
    OBVIOUS
  <2>1. Less(x) \in SUBSET Less(y) /\ Less(x) # Less(y)
    <3>1. x \in Less(y) /\ x \notin Less(x)
      OBVIOUS
    <3>2. \A z \in Less(x) : z \in Less(y)
      OBVIOUS
    <3> QED BY <3>1, <3>2
  <2>2. Cardinality(Less(x)) <= Cardinality(Less(y)) /\ Cardinality(Less(x)) # Cardinality(Less(y))
    BY <1>2, <2>1, FS_Subset
  <2>3. Cardinality(Less(x)) \in Nat /\ Cardinality(Less(y)) \in Nat
    BY <1>2, <1>1
  <2> HIDE DEF Less
  <2> QED BY <2>2, <2>3
<1>4. rank \in [S -> R]
  BY <1>2
<1> HIDE DEF rank
<1>5. \A x, y \in S : rank[x] = rank[y] => x = y
  BY <1>1, <1>3, <1>4
<1>6. \A r \in R : \E x \in S : rank[x] = r
  <2>1. IsFiniteSet(R) /\ Cardinality(R) = N
    <3>1. Cardinality(R) = IF 0 > N - 1 THEN 0 ELSE (N - 1) - 0 + 1
      BY <1>1, FS_Interval
    <3> QED BY <1>1, <3>1, FS_Interval
  <2>2. rank \in Injection(S, R)
    BY <1>4, <1>5 DEF Injection, IsInjective
  <2>3. rank \in Surjection(S, R)
    BY <2>1, <2>2, FS_Injection
  <2> QED BY <2>3 DEF Surjection
<1>7. \A n \in 1..N : Ascending(S)[n] \in S /\ rank[Ascending(S)[n]] = n - 1
  <2> TAKE n \in 1..N
  <2>1. PICK x \in S : rank[x] = n - 1
    BY <1>1, <1>6
  <2>2. \A y \in S : rank[y] = Cardinality({z \in S : z < y})
    BY DEF rank
  <2>3. Ascending(S)[n] = CHOOSE y \in S : Cardinality({z \in S : z < y}) = n - 1
    BY DEF Ascending
  <2> QED BY <2>1, <2>2, <2>3
<1>8. Ascending(S) \in [1..N -> S]
  BY <1>7 DEF Ascending
<1>9. \A m, n \in 1..N : m < n => Ascending(S)[m] < Ascending(S)[n]
  <2> SUFFICES ASSUME NEW m \in 1..N, NEW n \in 1..N, m < n PROVE Ascending(S)[m] < Ascending(S)[n]
    OBVIOUS
  <2>1. PICK x \in S, y \in S : x = Ascending(S)[m] /\ y = Ascending(S)[n] /\ rank[x] = m - 1 /\ rank[y] = n - 1
    BY <1>7
  <2>2. ~(y < x) /\ x # y
    BY <1>1, <1>3, <2>1
  <2> QED BY <2>1, <2>2
<1>10. \A x \in S : \E n \in 1..N : Ascending(S)[n] = x
  <2> TAKE x \in S
  <2>1. rank[x] + 1 \in 1..N /\ (rank[x] + 1) - 1 = rank[x]
    BY <1>1, <1>4
  <2>2. rank[Ascending(S)[rank[x] + 1]] = rank[x] /\ Ascending(S)[rank[x] + 1] \in S
    BY <1>7, <2>1
  <2> QED BY <1>5, <2>1, <2>2
<1> QED BY <1>1, <1>8, <1>9, <1>10

\* Of some subsets of a finite set one has the fewest elements: induction over finite sets.
LEMMA LeastSubset ==
    ASSUME NEW S, IsFiniteSet(S), NEW Bad \in SUBSET (SUBSET S), Bad # {}
    PROVE  \E T \in Bad : \A U \in Bad : Cardinality(T) <= Cardinality(U)
<1> DEFINE sizes == {Cardinality(T) : T \in Bad}
<1>1. \A T \in Bad : Cardinality(T) \in Nat
  BY FS_Subset, FS_CardinalityType
<1>2. PICK n \in sizes : \A m \in sizes : n <= m
  <2>1. sizes \in SUBSET Nat /\ sizes # {}
    BY <1>1
  <2> HIDE DEF sizes
  <2> QED BY <2>1, NatMin
<1>3. PICK T \in Bad : n = Cardinality(T)
  BY <1>2
<1> QED BY <1>2, <1>3

LEMMA OneFewer ==
    ASSUME NEW S, IsFiniteSet(S), NEW x \in S
    PROVE  /\ IsFiniteSet(S \ {x})
           /\ Cardinality(S) \in Nat \ {0} /\ Cardinality(S \ {x}) = Cardinality(S) - 1
<1>1. Cardinality(S) \in Nat /\ Cardinality(S \ {x}) \in Nat /\ IsFiniteSet(S \ {x})
  BY FS_RemoveElement, FS_CardinalityType
<1>2. Cardinality(S \ {x}) = Cardinality(S) - 1
  BY FS_RemoveElement
<1> QED BY <1>1, <1>2

\* Induction over finite sets, in terms of a set of subsets.
LEMMA SubsetInduction ==
    ASSUME NEW S, IsFiniteSet(S), NEW Ok,
           ASSUME NEW T \in SUBSET S, IsFiniteSet(T), \A U \in SUBSET T : U # T => U \in Ok
           PROVE  T \in Ok
    PROVE  S \in Ok
<1> DEFINE Bad == {T \in SUBSET S : T \notin Ok}
<1> SUFFICES ASSUME Bad # {} PROVE FALSE
  OBVIOUS
<1>1. PICK T \in Bad : \A U \in Bad : Cardinality(T) <= Cardinality(U)
  BY LeastSubset
<1>2. T \in SUBSET S /\ T \notin Ok /\ IsFiniteSet(T)
  BY FS_Subset
<1>3. ASSUME NEW U \in SUBSET T, U # T PROVE U \in Ok
  <2>1. Cardinality(U) <= Cardinality(T) /\ Cardinality(U) # Cardinality(T)
    BY <1>2, <1>3, FS_Subset
  <2>2. Cardinality(U) \in Nat /\ Cardinality(T) \in Nat
    BY <1>2, FS_Subset, FS_CardinalityType
  <2>3. ~(Cardinality(T) <= Cardinality(U))
    BY <2>1, <2>2
  <2> QED BY <1>1, <1>2, <2>3
<1> QED BY <1>2, <1>3

\* The instances of a list.
LEMMA ListMembers ==
    ASSUME NEW l \in Lists
    PROVE  /\ l \in Seq(Ids) /\ Len(l) \in Nat
           /\ ToSet(l) \in SUBSET Ids /\ IsFiniteSet(ToSet(l))
           /\ \A n \in 1..Len(l) : l[n] \in ToSet(l)
           /\ \A id \in ToSet(l) : \E n \in 1..Len(l) : l[n] = id
<1>1. l \in Seq(Ids) /\ Len(l) \in Nat /\ DOMAIN l = 1..Len(l)
  BY InstancesAssumption
<1>2. \A n \in 1..Len(l) : l[n] \in ToSet(l)
  BY <1>1 DEF ToSet
<1>3. \A id \in ToSet(l) : \E n \in 1..Len(l) : l[n] = id
  BY <1>1 DEF ToSet
<1>4. l \in Surjection(1..Len(l), ToSet(l))
  <2>1. l \in [1..Len(l) -> ToSet(l)]
    BY <1>1, <1>2
  <2> QED BY <1>3, <2>1 DEF Surjection
<1>5. IsFiniteSet(ToSet(l))
  BY <1>1, <1>4, FS_Interval, FS_Surjection
<1> QED BY <1>1, <1>2, <1>3, <1>5 DEF ToSet

-----------------------------------------------------------------------------
(* ConsistentHash: who owns a key. *)

LEMMA ModUnder ==
    ASSUME NEW m \in Nat \ {0}, NEW x \in (-m)..(-1)
    PROVE  x % m = x + m
  OBVIOUS

LEMMA HashType ==
    ASSUME NEW k \in Keys, NEW i \in Ids, NEW v \in VirtualNodes
    PROVE  KeyHash[k] \in 0..(Modulus - 1) /\ NodeHash[<<i, v>>] \in 0..(Modulus - 1)
<1>1. <<i, v>> \in Ids \X VirtualNodes
  OBVIOUS
<1> QED BY <1>1, HashAssumption

\* How far behind a key a place lies.
LEMMA DistanceIs ==
    ASSUME NEW k \in Keys, NEW id \in Ids, NEW v \in VirtualNodes
    PROVE  Distance(k, id, v) = IF NodeHash[<<id, v>>] >= KeyHash[k]
                                THEN NodeHash[<<id, v>>] - KeyHash[k]
                                ELSE NodeHash[<<id, v>>] - KeyHash[k] + Modulus
<1> DEFINE z == NodeHash[<<id, v>>] - KeyHash[k]
<1>1. KeyHash[k] \in 0..(Modulus - 1) /\ NodeHash[<<id, v>>] \in 0..(Modulus - 1) /\ Modulus \in Nat \ {0}
  BY HashType, HashAssumption
<1>2. CASE NodeHash[<<id, v>>] >= KeyHash[k]
  <2>1. z \in 0..(Modulus - 1)
    BY <1>1, <1>2
  <2>2. z % Modulus = z
    BY <1>1, <2>1, ModSmall
  <2> QED BY <1>2, <2>2 DEF Distance
<1>3. CASE ~(NodeHash[<<id, v>>] >= KeyHash[k])
  <2>1. z \in (-Modulus)..(-1)
    BY <1>1, <1>3
  <2>2. z % Modulus = z + Modulus
    BY <1>1, <2>1, ModUnder
  <2> QED BY <1>3, <2>2 DEF Distance
<1> QED BY <1>2, <1>3

\* Places that lie equally far behind a key are the same place.
LEMMA SameDistance ==
    ASSUME NEW k \in Keys, NEW i \in Ids, NEW v \in VirtualNodes, NEW j \in Ids, NEW u \in VirtualNodes,
           Distance(k, i, v) = Distance(k, j, u)
    PROVE  i = j
<1> DEFINE h == KeyHash[k]
           p == NodeHash[<<i, v>>]
           q == NodeHash[<<j, u>>]
<1>1. Modulus \in Nat /\ h \in 0..(Modulus - 1) /\ p \in 0..(Modulus - 1) /\ q \in 0..(Modulus - 1)
  BY HashType, HashAssumption
<1>2. (IF p >= h THEN p - h ELSE p - h + Modulus) = (IF q >= h THEN q - h ELSE q - h + Modulus)
  BY DistanceIs
<1> HIDE DEF h, p, q
<1>3. p = q
  BY <1>1, <1>2
<1>4. <<i, v>> = <<j, u>>
  BY <1>3, HashAssumption DEF IsInjective, p, q
<1> QED BY <1>4

LEMMA DistanceType ==
    ASSUME NEW k \in Keys, NEW i \in Ids, NEW v \in VirtualNodes
    PROVE  Distance(k, i, v) \in Nat
<1>1. NodeHash[<<i, v>>] \in Int /\ KeyHash[k] \in Int
  BY HashType, HashAssumption
<1> QED BY <1>1, HashAssumption DEF Distance

\* Whatever the hashes: when one instance joins, a key that it does not take keeps its owner
\* (consistent_hash.rs:53).
THEOREM NewcomerMovesNoOther ==
    ASSUME NEW k \in Keys, NEW S \in SUBSET Ids, NEW new \in Ids, NEW before, NEW after,
           IsOwner(k, S, before), IsOwner(k, S \cup {new}, after)
    PROVE  after \in {before, new}
<1> SUFFICES ASSUME after # new PROVE after = before
  OBVIOUS
<1>1. before \in S /\ after \in S
  BY DEF IsOwner
<1>2. PICK v \in VirtualNodes : \A j \in S, u \in VirtualNodes : Distance(k, before, v) <= Distance(k, j, u)
  BY DEF IsOwner
<1>3. PICK u \in VirtualNodes :
          \A j \in S \cup {new}, w \in VirtualNodes : Distance(k, after, u) <= Distance(k, j, w)
  BY DEF IsOwner
<1>4. Distance(k, before, v) <= Distance(k, after, u) /\ Distance(k, after, u) <= Distance(k, before, v)
  BY <1>1, <1>2, <1>3
<1>5. Distance(k, before, v) \in Nat /\ Distance(k, after, u) \in Nat
  BY <1>1, DistanceType
<1>6. Distance(k, before, v) = Distance(k, after, u)
  BY <1>4, <1>5
<1> QED BY <1>1, <1>6, SameDistance

\* Places in the order of their hashes.
LEMMA AroundOrders ==
    ASSUME NEW places, NEW H \in SUBSET Int, IsFiniteSet(H), H = {p.hash : p \in places}
    PROVE  LET ring == Around(places) IN
           /\ Len(ring) \in Nat /\ DOMAIN ring = 1..Len(ring)
           /\ \A n \in 1..Len(ring) : ring[n] \in places
           /\ \A m, n \in 1..Len(ring) : m < n => ring[m].hash < ring[n].hash
           /\ \A h \in H : \E n \in 1..Len(ring) : ring[n].hash = h
<1> DEFINE hashes == Ascending(H)
           N == Cardinality(H)
           ring == Around(places)
<1>1. /\ N \in Nat
      /\ hashes \in [1..N -> H]
      /\ \A m, n \in 1..N : m < n => hashes[m] < hashes[n]
      /\ \A h \in H : \E n \in 1..N : hashes[n] = h
  BY AscendingLists
<1>2. ring = [n \in DOMAIN hashes |-> CHOOSE p \in places : p.hash = hashes[n]]
  BY DEF Around
<1> HIDE DEF hashes, N, ring
<1>3. DOMAIN ring = 1..N /\ \A n \in 1..N : ring[n] = CHOOSE p \in places : p.hash = hashes[n]
  BY <1>1, <1>2
<1>4. \A n \in 1..N : ring[n] \in places /\ ring[n].hash = hashes[n]
  <2> TAKE n \in 1..N
  <2>1. hashes[n] \in {p.hash : p \in places}
    BY <1>1
  <2>2. \E p \in places : p.hash = hashes[n]
    BY <2>1
  <2> QED BY <1>3, <2>2
<1>5. Len(ring) = N
  <2>1. ring = [n \in 1..N |-> CHOOSE p \in places : p.hash = hashes[n]]
    BY <1>1, <1>2
  <2> QED BY <1>1, <2>1
<1>6. \A m, n \in 1..N : m < n => ring[m].hash < ring[n].hash
  BY <1>1, <1>4
<1>7. \A h \in H : \E n \in 1..N : ring[n].hash = h
  BY <1>1, <1>4
<1> QED BY <1>1, <1>3, <1>4, <1>5, <1>6, <1>7 DEF ring

\* The places of the ring of a list, in the order of their hashes.
LEMMA RingPlaces ==
    ASSUME NEW l \in Seq(Ids)
    PROVE  LET ring == RingOf(l) IN
           /\ Len(ring) \in Nat /\ DOMAIN ring = 1..Len(ring)
           /\ \A n \in 1..Len(ring) : \E id \in ToSet(l), v \in VirtualNodes : ring[n] = Place(NodeHash[<<id, v>>], id)
           /\ \A m, n \in 1..Len(ring) : m < n => ring[m].hash < ring[n].hash
           /\ \A id \in ToSet(l), v \in VirtualNodes : \E n \in 1..Len(ring) : ring[n].hash = NodeHash[<<id, v>>]
<1> DEFINE S == ToSet(l)
           P == {Place(NodeHash[<<id, v>>], id) : id \in S, v \in VirtualNodes}
           H == {p.hash : p \in P}
<1>1. S \in SUBSET Ids
  BY DEF ToSet
<1>2. \A id \in S, v \in VirtualNodes : Place(NodeHash[<<id, v>>], id).hash = NodeHash[<<id, v>>]
  BY DEF Place
<1>4. RingOf(l) = Around(P)
  BY DEF RingOf
<1>5. \A p \in P : \E id \in S, v \in VirtualNodes : p = Place(NodeHash[<<id, v>>], id)
  OBVIOUS
<1>6. H = {p.hash : p \in P}
  OBVIOUS
<1>3. \A id \in S, v \in VirtualNodes : Place(NodeHash[<<id, v>>], id) \in P
  OBVIOUS
<1> HIDE DEF S, P
<1>9. \A id \in S, v \in VirtualNodes : NodeHash[<<id, v>>] \in H
  <2> TAKE id \in S, v \in VirtualNodes
  <2> DEFINE p == Place(NodeHash[<<id, v>>], id)
  <2>1. p \in P /\ p.hash = NodeHash[<<id, v>>]
    BY <1>2, <1>3
  <2> HIDE DEF p
  <2> QED BY <2>1
<1>10. \A h \in H : h \in 0..(Modulus - 1)
  <2> TAKE h \in H
  <2>1. PICK p \in P : h = p.hash
    OBVIOUS
  <2>2. PICK id \in S, v \in VirtualNodes : p = Place(NodeHash[<<id, v>>], id)
    BY <1>5
  <2>3. h = NodeHash[<<id, v>>]
    BY <1>2, <2>1, <2>2
  <2> QED BY <1>1, <2>3, HashAssumption
<1> HIDE DEF H
<1>7. H \in SUBSET Int /\ IsFiniteSet(H)
  <2>1. IsFiniteSet(0..(Modulus - 1))
    BY HashAssumption, FS_Interval
  <2>2. H \in SUBSET (0..(Modulus - 1))
    BY <1>10
  <2>3. IsFiniteSet(H)
    BY <2>1, <2>2, FS_Subset
  <2> QED BY <2>2, <2>3, HashAssumption
<1>8. LET ring == Around(P) IN
      /\ Len(ring) \in Nat /\ DOMAIN ring = 1..Len(ring)
      /\ \A n \in 1..Len(ring) : ring[n] \in P
      /\ \A m, n \in 1..Len(ring) : m < n => ring[m].hash < ring[n].hash
      /\ \A h \in H : \E n \in 1..Len(ring) : ring[n].hash = h
  BY <1>6, <1>7, AroundOrders
<1> QED BY <1>4, <1>5, <1>8, <1>9 DEF S

\* The search finds a place that lies closest behind the key.
LEMMA LocateOwner ==
    ASSUME NEW l \in Seq(Ids), ToSet(l) # {}, NEW k \in Keys
    PROVE  IsOwner(k, ToSet(l), Locate(RingOf(l), KeyHash[k]))
<1> DEFINE S == ToSet(l)
           ring == RingOf(l)
           N == Len(ring)
           h == KeyHash[k]
           I == {n \in 1..N : ring[n].hash >= h}
<1>1. /\ N \in Nat /\ DOMAIN ring = 1..N
      /\ \A n \in 1..N : \E id \in S, v \in VirtualNodes : ring[n] = Place(NodeHash[<<id, v>>], id)
      /\ \A m, n \in 1..N : m < n => ring[m].hash < ring[n].hash
      /\ \A id \in S, v \in VirtualNodes : \E n \in 1..N : ring[n].hash = NodeHash[<<id, v>>]
  BY RingPlaces
<1>2. S \in SUBSET Ids
  BY DEF ToSet
<1>3. Locate(ring, h) = IF I # {} THEN (IF Min(I) = 0 THEN ring[1].id ELSE ring[Min(I)].id) ELSE ring[1].id
  BY DEF Locate, SelectInSeq
<1>4. h \in 0..(Modulus - 1) /\ Modulus \in Nat
  BY HashAssumption
<1>5. \A n \in 1..N : ring[n].hash \in 0..(Modulus - 1)
  <2> TAKE n \in 1..N
  <2>1. PICK id \in S, v \in VirtualNodes : ring[n] = Place(NodeHash[<<id, v>>], id)
    BY <1>1
  <2> QED BY <1>2, <2>1, HashType, HashAssumption DEF Place
<1>6. \A m, n \in 1..N : m <= n => ring[m].hash <= ring[n].hash
  BY <1>1, <1>5
<1>7. ASSUME NEW n \in 1..N,
             \A m \in 1..N : LET d(q) == IF q >= h THEN q - h ELSE q - h + Modulus
                             IN  d(ring[n].hash) <= d(ring[m].hash)
      PROVE  IsOwner(k, S, ring[n].id)
  <2>1. PICK id \in S, v \in VirtualNodes : ring[n] = Place(NodeHash[<<id, v>>], id)
    BY <1>1
  <2>2. ring[n].id = id /\ ring[n].hash = NodeHash[<<id, v>>]
    BY <2>1 DEF Place
  <2>3. ASSUME NEW j \in S, NEW u \in VirtualNodes
        PROVE  Distance(k, id, v) <= Distance(k, j, u)
    <3>1. PICK m \in 1..N : ring[m].hash = NodeHash[<<j, u>>]
      BY <1>1
    <3> QED BY <1>2, <1>7, <2>2, <3>1, DistanceIs
  <2> QED BY <2>2, <2>3 DEF IsOwner
<1> HIDE DEF ring, N
<1>8. CASE I # {}
  <2> DEFINE n == Min(I)
  <2>1. n \in I /\ \A m \in I : n <= m
    <3>1. I \in SUBSET Nat
      OBVIOUS
    <3> QED BY <1>8, <3>1, MinIsLeast
  <2> HIDE DEF n
  <2>2. n \in 1..N /\ n # 0 /\ ring[n].hash >= h
    BY <2>1
  <2>3. \A m \in 1..N : ring[m].hash >= h => ring[n].hash <= ring[m].hash
    BY <1>6, <2>1, <2>2
  <2>4. IsOwner(k, S, ring[n].id)
    BY <1>4, <1>5, <1>7, <2>2, <2>3
  <2>5. Locate(ring, h) = ring[n].id
    BY <1>3, <1>8, <2>2 DEF n
  <2> QED BY <2>4, <2>5 DEF ring
<1>9. CASE I = {}
  <2>1. 1 \in 1..N
    <3>1. PICK id \in S, v \in VirtualNodes : TRUE
      BY HashAssumption
    <3>2. PICK m \in 1..N : ring[m].hash = NodeHash[<<id, v>>]
      BY <1>1
    <3> QED BY <1>1, <3>2
  <2>2. \A m \in 1..N : ~(ring[m].hash >= h)
    BY <1>9
  <2>3. IsOwner(k, S, ring[1].id)
    BY <1>4, <1>5, <1>6, <1>7, <2>1, <2>2
  <2>4. Locate(ring, h) = ring[1].id
    BY <1>3, <1>9
  <2> QED BY <2>3, <2>4 DEF ring
<1> QED BY <1>8, <1>9

\* A list that brings more than one instance is served by the owner among them.
LEMMA ServeOwner ==
    ASSUME NEW l \in Lists, NEW m \in Lists, ToSet(l) = ToSet(m), ToSet(l) # {}, NEW k \in Keys
    PROVE  IsOwner(k, ToSet(l), Serve(RingOf(m), l, k))
<1>1. m \in Seq(Ids)
  BY InstancesAssumption
<1>2. IsOwner(k, ToSet(l), Locate(RingOf(m), KeyHash[k]))
  BY <1>1, LocateOwner
<1> QED BY <1>2 DEF Serve, IsOwner

\* An instance that is alone owns every key.
LEMMA OnlyOwner ==
    ASSUME NEW l \in Lists, Len(l) = 1, NEW k \in Keys
    PROVE  IsOwner(k, ToSet(l), l[1])
<1>1. l \in Seq(Ids) /\ 1 \in 1..Len(l) /\ DOMAIN l = 1..Len(l)
  BY InstancesAssumption
<1>2. ToSet(l) = {l[1]} /\ l[1] \in Ids
  BY <1>1 DEF ToSet
<1> DEFINE D == {Distance(k, l[1], v) : v \in VirtualNodes}
<1>3. D # {} /\ D \in SUBSET Nat
  BY <1>2, DistanceType, HashAssumption
<1>4. PICK d \in D : \A e \in D : d <= e
  BY <1>3, NatMin
<1>5. PICK v \in VirtualNodes : d = Distance(k, l[1], v)
  BY <1>4
<1>6. \A u \in VirtualNodes : Distance(k, l[1], v) <= Distance(k, l[1], u)
  BY <1>4, <1>5
<1> QED BY <1>2, <1>6 DEF IsOwner

-----------------------------------------------------------------------------
(* ConsistentHash: the ring and its callers. *)

\* A caller that has begun has a key and one of the lists, and one that waits for a lock brought
\* instances; the ring kept is that of one of the lists.
OfAList == rings # None =>
    \E m \in Lists : rings = [fingerprint |-> Fingerprint(m), ring |-> RingOf(m)]

Asked ==
    /\ at \in [Callers -> {"idle", "read", "write"}]
    /\ list \in [Callers -> Lists \cup {<<>>}]
    /\ key \in [Callers -> Keys \cup {None}]
    /\ result \in [Callers -> Ids \cup {None}]
    /\ \A c \in Callers : at[c] # "idle" \/ result[c] # None => key[c] \in Keys /\ list[c] \in Lists
    /\ \A c \in Callers : at[c] # "idle" => ToSet(list[c]) # {}

RingShape == Asked /\ OfAList

LEMMA RingShapeInit == RingInit => RingShape
  BY DEF RingInit, RingShape, Asked, OfAList

LEMMA AnswerShape ==
    ASSUME Asked, NEW c \in Callers, at[c] # "idle", NEW ring, Answer(c, ring)
    PROVE  Asked'
<1>1. list[c] \in Lists /\ ToSet(list[c]) # {} /\ key[c] \in Keys
  BY DEF Asked
<1>2. Serve(ring, list[c], key[c]) \in Ids
  <2>1. ToSet(list[c]) \in SUBSET Ids
    BY <1>1, ListMembers
  <2>2. list[c][1] \in Ids
    <3>1. Len(list[c]) # 0
      BY <1>1, ListMembers
    <3>2. 1 \in 1..Len(list[c])
      BY <1>1, <3>1, ListMembers
    <3> QED BY <1>1, <2>1, <3>2, ListMembers
  <2> QED BY <2>1, <2>2 DEF Serve
<1>3. result' \in [Callers -> Ids \cup {None}]
  BY <1>2 DEF Answer, Asked
<1> QED BY <1>1, <1>3 DEF Answer, Asked

LEMMA RingShapeStep ==
    ASSUME RingShape, [RingNext]_ringVars
    PROVE  RingShape'
<1>1. CASE UNCHANGED ringVars
  BY <1>1 DEF ringVars, RingShape, Asked, OfAList
<1>2. ASSUME NEW c \in Callers, NEW l \in Lists, NEW k \in Keys, Begin(c, l, k) PROVE RingShape'
  <2>1. 1 \in 1..Len(l)
    BY <1>2, ListMembers DEF Begin
  <2>2. l[1] \in ToSet(l) /\ l[1] \in Ids
    BY <2>1, ListMembers
  <2>3. Asked'
    BY <1>2, <2>2 DEF Begin, RingShape, Asked
  <2> QED BY <1>2, <2>3 DEF Begin, RingShape, OfAList
<1>3. ASSUME NEW c \in Callers, ReadMiss(c) PROVE RingShape'
  BY <1>3 DEF ReadMiss, RingShape, Asked, OfAList
<1>4. ASSUME NEW c \in Callers, ReadHit(c) \/ WriteHit(c) PROVE RingShape'
  <2>1. at[c] # "idle" /\ Answer(c, rings.ring) /\ rings' = rings
    BY <1>4 DEF ReadHit, WriteHit
  <2> QED BY <2>1, AnswerShape DEF RingShape, OfAList
<1>5. ASSUME NEW c \in Callers, Build(c) PROVE RingShape'
  <2>1. at[c] # "idle" /\ list[c] \in Lists
    BY <1>5 DEF Build, RingShape, Asked
  <2>2. rings' = [fingerprint |-> Fingerprint(list[c]), ring |-> RingOf(list[c])] /\ Answer(c, rings'.ring)
    BY <1>5 DEF Build
  <2> QED BY <2>1, <2>2, AnswerShape DEF RingShape, OfAList
<1> QED BY <1>1, <1>2, <1>3, <1>4, <1>5 DEF RingNext

\* A caller that is answered from the ring of a list with the members of its own has the owner.
LEMMA AnswerIsOwner ==
    ASSUME Asked, OwnerServes, NEW c \in Callers, at[c] # "idle", NEW m \in Lists,
           ToSet(list[c]) = ToSet(m), Answer(c, RingOf(m))
    PROVE  OwnerServes'
<1> SUFFICES ASSUME NEW d \in Callers, at'[d] = "idle", result'[d] # None
             PROVE  IsOwner(key'[d], ToSet(list'[d]), result'[d])
  BY DEF OwnerServes
<1>1. list[c] \in Lists /\ key[c] \in Keys /\ ToSet(list[c]) # {}
  BY DEF Asked
<1>2. CASE d = c
  <2>1. key'[d] = key[c] /\ list'[d] = list[c] /\ result'[d] = Serve(RingOf(m), list[c], key[c])
    BY <1>2 DEF Answer, Asked
  <2>2. IsOwner(key[c], ToSet(list[c]), Serve(RingOf(m), list[c], key[c]))
    BY <1>1, ServeOwner
  <2> QED BY <2>1, <2>2
<1>3. CASE d # c
  BY <1>3 DEF Answer, Asked, OwnerServes
<1> QED BY <1>2, <1>3

LEMMA OwnerServesStep ==
    ASSUME FingerprintsTell, RingShape, OwnerServes, [RingNext]_ringVars
    PROVE  OwnerServes'
<1> USE DEF RingShape
<1>1. CASE UNCHANGED ringVars
  BY <1>1 DEF ringVars, OwnerServes
<1>2. ASSUME NEW c \in Callers, NEW l \in Lists, NEW k \in Keys, Begin(c, l, k) PROVE OwnerServes'
  <2> SUFFICES ASSUME NEW d \in Callers, at'[d] = "idle", result'[d] # None
               PROVE  IsOwner(key'[d], ToSet(list'[d]), result'[d])
    BY DEF OwnerServes
  <2>1. CASE d = c
    <3>1. Len(l) = 1 /\ key'[d] = k /\ list'[d] = l /\ result'[d] = l[1]
      BY <1>2, <2>1 DEF Begin, Asked
    <3> QED BY <3>1, OnlyOwner
  <2>2. CASE d # c
    BY <1>2, <2>2 DEF Begin, Asked, OwnerServes
  <2> QED BY <2>1, <2>2
<1>3. ASSUME NEW c \in Callers, ReadMiss(c) PROVE OwnerServes'
  BY <1>3 DEF ReadMiss, Asked, OwnerServes
<1>4. ASSUME NEW c \in Callers, ReadHit(c) \/ WriteHit(c) PROVE OwnerServes'
  <2>1. at[c] # "idle" /\ Kept(list[c]) /\ Answer(c, rings.ring)
    BY <1>4 DEF ReadHit, WriteHit
  <2>2. PICK m \in Lists : rings = [fingerprint |-> Fingerprint(m), ring |-> RingOf(m)]
    BY <2>1 DEF OfAList, Kept
  <2>3. list[c] \in Lists /\ Fingerprint(list[c]) = Fingerprint(m)
    BY <2>1, <2>2 DEF Asked, Kept
  <2>4. ToSet(list[c]) = ToSet(m)
    BY <2>3 DEF FingerprintsTell
  <2> QED BY <2>1, <2>2, <2>4, AnswerIsOwner
<1>5. ASSUME NEW c \in Callers, Build(c) PROVE OwnerServes'
  <2>1. at[c] # "idle" /\ list[c] \in Lists
    BY <1>5 DEF Build, Asked
  <2>2. rings' = [fingerprint |-> Fingerprint(list[c]), ring |-> RingOf(list[c])]
    BY <1>5 DEF Build
  <2>3. Answer(c, RingOf(list[c]))
    BY <1>5, <2>2 DEF Build
  <2> QED BY <2>1, <2>3, AnswerIsOwner
<1> QED BY <1>1, <1>2, <1>3, <1>4, <1>5 DEF RingNext

\* As long as no two lists with different instances have one fingerprint: whatever lists the other
\* callers bring, a key is served by its owner among the instances of the caller's own list.
THEOREM KeyHasItsOwner ==
    ASSUME FingerprintsTell
    PROVE  RingSpec => []OwnerServes
<1>1. RingInit => OwnerServes
  BY DEF RingInit, OwnerServes
<1>2. RingShape /\ OwnerServes /\ [RingNext]_ringVars => OwnerServes'
  BY OwnerServesStep
<1> QED BY <1>1, <1>2, RingShapeInit, RingShapeStep, PTL DEF RingSpec

\* As long as every key is served by its owner, callers whose lists differ by one instance differ
\* on no key but those the newcomer took.
THEOREM OwnersAgree == RingSpec => [](OwnerServes => OnlyNewcomerGains)
<1>1. ASSUME RingShape, OwnerServes PROVE OnlyNewcomerGains
  <2> SUFFICES ASSUME NEW c \in Callers, NEW d \in Callers, NEW id \in Ids,
                      Served(c), Served(d), key[c] = key[d],
                      ToSet(list[d]) = ToSet(list[c]) \cup {id}
               PROVE  result[d] \in {result[c], id}
    BY DEF OnlyNewcomerGains
  <2>1. IsOwner(key[c], ToSet(list[c]), result[c]) /\ IsOwner(key[c], ToSet(list[d]), result[d])
    BY <1>1 DEF OwnerServes, Served
  <2>2. key[c] \in Keys /\ list[c] \in Seq(Ids)
    BY <1>1, InstancesAssumption DEF RingShape, Asked, Served
  <2>3. ToSet(list[c]) \in SUBSET Ids
    BY <2>2 DEF ToSet
  <2> QED BY <2>1, <2>2, <2>3, NewcomerMovesNoOther
<1> QED BY <1>1, RingShapeInit, RingShapeStep, PTL DEF RingSpec

\* So they do, as long as no two lists with different instances have one fingerprint.
THEOREM NewcomersAlone ==
    ASSUME FingerprintsTell
    PROVE  RingSpec => []OnlyNewcomerGains
  BY KeyHasItsOwner, OwnersAgree, PTL

-----------------------------------------------------------------------------
(* RoundRobin. *)

\* Numbers less than a round apart leave different rests.
LEMMA ModApart ==
    ASSUME NEW m \in Nat \ {0}, NEW a \in Nat, NEW b \in Nat, a < b, b < a + m
    PROVE  a % m # b % m
<1> SUFFICES ASSUME a % m = b % m PROVE FALSE
  OBVIOUS
<1> DEFINE p == a \div m
           q == b \div m
           r == a % m
<1>1. p \in Int /\ q \in Int /\ r \in Int
  OBVIOUS
<1>2. a = m * p + r /\ b = m * q + r
  OBVIOUS
<1> HIDE DEF p, q, r
<1>3. b - a = m * (q - p)
  BY <1>1, <1>2
<1>4. 0 < m * (q - p) /\ m * (q - p) < m
  BY <1>1, <1>3
<1> DEFINE k == q - p
<1>5. k \in Int /\ 0 < m * k /\ m * k < m
  BY <1>1, <1>4
<1> HIDE DEF k
<1>6. CASE k <= 0
  <2>1. m * k <= 0
    BY <1>5, <1>6
  <2> QED BY <1>5, <2>1
<1>7. CASE k >= 1
  <2>1. m * k >= m * 1
    BY <1>5, <1>7
  <2> QED BY <1>5, <2>1
<1> QED BY <1>5, <1>6, <1>7

\* What the filter hands on holds instances of the list, each once.
LEMMA FilteredInList ==
    ASSUME NEW l \in Lists, NEW tag
    PROVE  Filtered(l, tag) \in Seq(Ids) /\ IsInjective(Filtered(l, tag))
<1> DEFINE T == {n \in DOMAIN l : l[n] \in Tagged}
           N == Cardinality(T)
           places == Ascending(T)
           match == [n \in DOMAIN places |-> l[places[n]]]
<1>1. l \in Seq(Ids) /\ IsInjective(l) /\ DOMAIN l = 1..Len(l) /\ Len(l) \in Nat
  BY InstancesAssumption
<1>2. T \in SUBSET Int /\ IsFiniteSet(T)
  <2>1. IsFiniteSet(1..Len(l))
    BY <1>1, FS_Interval
  <2>2. T \in SUBSET (1..Len(l))
    BY <1>1
  <2>3. IsFiniteSet(T)
    BY <2>1, <2>2, FS_Subset
  <2> QED BY <2>2, <2>3
<1>3. /\ N \in Nat /\ places \in [1..N -> T]
      /\ \A m, n \in 1..N : m < n => places[m] < places[n]
  BY <1>2, AscendingLists
<1>4. Filtered(l, tag) = l \/ Filtered(l, tag) = match
  BY DEF Filtered
<1>5. \A n \in T : n \in DOMAIN l /\ n \in Int
  BY <1>1
<1> HIDE DEF T, N, places
<1>6. match \in Seq(Ids) /\ DOMAIN match = 1..N
  <2>1. match \in [1..N -> Ids]
    BY <1>1, <1>3, <1>5
  <2> QED BY <1>3, <2>1
<1>7. \A m, n \in 1..N : match[m] = match[n] => m = n
  <2> SUFFICES ASSUME NEW m \in 1..N, NEW n \in 1..N, match[m] = match[n] PROVE m = n
    OBVIOUS
  <2>1. l[places[m]] = l[places[n]] /\ places[m] \in T /\ places[n] \in T
    BY <1>3
  <2>2. places[m] = places[n]
    BY <1>1, <1>5, <2>1 DEF IsInjective
  <2>3. ~(m < n) /\ ~(n < m)
    BY <1>3, <1>5, <2>1, <2>2
  <2> QED BY <1>3, <2>3
<1> HIDE DEF match
<1> QED BY <1>1, <1>4, <1>6, <1>7 DEF IsInjective

-----------------------------------------------------------------------------
\* All who draw hold the counter of the map.
OneCounter == \A c \in Callers : stage[c] = "draw" => counter # None /\ mine[c] = counter

IsPool(p) == p \in Seq(Ids) /\ IsInjective(p) /\ Len(p) > 1

Pools == \A c \in Callers : stage[c] # "idle" => IsPool(pool[c])

\* A row drawn from the list p ends with ticket t - 1: one ticket after the other around the list.
RowTo(t, p, row) ==
    \A i \in 1..Len(row) : row[i] = p[1 + ((t - Len(row) + (i - 1)) % Len(p))]

LEMMA RowGrows ==
    ASSUME NEW p \in Seq(Ids), NEW row \in Seq(Ids), NEW t \in Nat, Len(row) <= t, RowTo(t, p, row)
    PROVE  RowTo(t + 1, p, Append(row, p[1 + (t % Len(p))]))
<1> DEFINE n == Len(row)
           L == Len(p)
           got == p[1 + (t % L)]
           more == Append(row, got)
<1>1. n \in Nat /\ Len(more) = n + 1 /\ more[n + 1] = got /\ \A i \in 1..n : more[i] = row[i]
  OBVIOUS
<1>2. \A i \in 1..n : row[i] = p[1 + ((t - n + (i - 1)) % L)]
  BY DEF RowTo
<1> HIDE DEF n, L, more
<1>3. ASSUME NEW i \in 1..(n + 1) PROVE more[i] = p[1 + (((t + 1) - (n + 1) + (i - 1)) % L)]
  <2>1. (t + 1) - (n + 1) + (i - 1) = t - n + (i - 1)
    BY <1>1
  <2>2. CASE i = n + 1
    <3>1. t - n + (i - 1) = t
      BY <1>1, <2>2
    <3> QED BY <1>1, <2>1, <2>2, <3>1
  <2>3. CASE i # n + 1
    <3>1. i \in 1..n
      BY <1>1, <2>3
    <3> QED BY <1>1, <1>2, <2>1, <3>1
  <2> QED BY <2>2, <2>3
<1>4. \A i \in 1..Len(more) : more[i] = p[1 + (((t + 1) - Len(more) + (i - 1)) % L)]
  BY <1>1, <1>3
<1> QED BY <1>4 DEF RowTo, more, L

LEMMA RowMoves ==
    ASSUME NEW p \in Seq(Ids), NEW row \in Seq(Ids), NEW t \in Nat, row # <<>>, RowTo(t, p, row)
    PROVE  RowTo(t, p, Tail(row))
<1> DEFINE n == Len(row)
           L == Len(p)
           rest == Tail(row)
<1>1. n \in Nat \ {0} /\ Len(rest) = n - 1 /\ \A i \in 1..(n - 1) : rest[i] = row[i + 1]
  OBVIOUS
<1>2. \A i \in 1..n : row[i] = p[1 + ((t - n + (i - 1)) % L)]
  BY DEF RowTo
<1> HIDE DEF n, L, rest
<1>3. ASSUME NEW i \in 1..(n - 1) PROVE rest[i] = p[1 + ((t - (n - 1) + (i - 1)) % L)]
  <2>1. i + 1 \in 1..n /\ t - n + ((i + 1) - 1) = t - (n - 1) + (i - 1)
    BY <1>1
  <2> QED BY <1>1, <1>2, <2>1
<1>4. \A i \in 1..Len(rest) : rest[i] = p[1 + ((t - Len(rest) + (i - 1)) % L)]
  BY <1>1, <1>3
<1> QED BY <1>4 DEF RowTo, rest, L

\* The turns are a row of the last list that ends with the last ticket.
InTurn == turns # <<>> =>
    /\ counter # None /\ IsPool(lastPool)
    /\ Len(turns) <= Len(lastPool) /\ Len(turns) <= ticket[counter]
    /\ RowTo(ticket[counter], lastPool, turns)

RRInv == RRTypeOK /\ OneCounter /\ Pools /\ InTurn /\ (lastPool # <<>> => turns # <<>>)

LEMMA RRInvInit == RRInit => RRInv
  BY RoundRobinAssumption DEF RRInit, RRInv, RRTypeOK, OneCounter, Pools, InTurn

LEMMA AskStep ==
    ASSUME RRInv, NEW c \in Callers, NEW l \in Lists, NEW tag \in BOOLEAN, Ask(c, l, tag)
    PROVE  RRInv'
<1>1. IsPool(Filtered(l, tag))
  BY FilteredInList DEF Ask, IsPool
<1> HIDE DEF IsPool
<1> DEFINE p == Filtered(l, tag)
<1>2. /\ p \in Seq(Ids) /\ IsPool(p)
      /\ stage' = [stage EXCEPT ![c] = "get"] /\ pool' = [pool EXCEPT ![c] = p]
      /\ UNCHANGED <<fallback, counter, ticket, mine, lastPool, turns>>
  BY <1>1, FilteredInList DEF Ask
<1> HIDE DEF p
<1>3. RRTypeOK'
  BY <1>2 DEF RRInv, RRTypeOK
<1>4. OneCounter'
  BY <1>2 DEF RRInv, RRTypeOK, OneCounter
<1>5. Pools'
  BY <1>2 DEF RRInv, RRTypeOK, Pools
<1> QED BY <1>2, <1>3, <1>4, <1>5 DEF RRInv, InTurn

LEMMA GetStep ==
    ASSUME RRInv, NEW c \in Callers, GetCounter(c) \/ InsertCounter(c)
    PROVE  RRInv'
<1> USE DEF RRInv, RRTypeOK
<1>1. RRTypeOK' /\ Pools'
  <2>1. CASE GetCounter(c)
    BY <2>1 DEF GetCounter, Pools
  <2>2. CASE InsertCounter(c)
    <3>1. PICK a \in Arcs : counter' = a /\ mine' = [mine EXCEPT ![c] = a]
      BY <2>2 DEF InsertCounter
    <3> QED BY <2>2, <3>1 DEF InsertCounter, Pools
  <2> QED BY <2>1, <2>2
<1>2. OneCounter'
  <2>1. CASE GetCounter(c)
    BY <2>1 DEF GetCounter, OneCounter
  <2>2. CASE InsertCounter(c)
    <3>1. PICK a \in IF counter = None THEN Arcs ELSE {counter} :
             counter' = a /\ mine' = [mine EXCEPT ![c] = a]
      BY <2>2 DEF InsertCounter
    <3>2. a # None
      BY <3>1, InstancesAssumption
    <3> QED BY <2>2, <3>1, <3>2 DEF InsertCounter, OneCounter
  <2> QED BY <2>1, <2>2
<1>3. InTurn'
  BY DEF GetCounter, InsertCounter, InTurn
<1>4. UNCHANGED <<lastPool, turns>>
  BY DEF GetCounter, InsertCounter
<1> QED BY <1>1, <1>2, <1>3, <1>4

LEMMA DrawStep ==
    ASSUME RRInv, NEW c \in Callers, Draw(c)
    PROVE  RRInv'
<1> DEFINE L == Len(pool[c])
           t == ticket[counter]
           got == pool[c][1 + (t % L)]
           row == IF pool[c] = lastPool THEN Append(turns, got) ELSE <<got>>
<1>1. /\ stage[c] = "draw" /\ mine[c] = counter /\ counter \in Arcs /\ t \in 0..MaxDraws
      /\ t < MaxDraws /\ MaxDraws \in Nat
  BY RoundRobinAssumption DEF RRInv, RRTypeOK, OneCounter, Draw
<1>2. /\ ticket' = [ticket EXCEPT ![counter] = @ + 1] /\ stage' = [stage EXCEPT ![c] = "idle"]
      /\ pool' = [pool EXCEPT ![c] = <<>>] /\ mine' = [mine EXCEPT ![c] = None]
      /\ lastPool' = pool[c]
      /\ turns' = (IF Len(row) > L THEN Tail(row) ELSE row)
      /\ UNCHANGED <<fallback, counter>>
  BY <1>1 DEF Draw
<1>3. IsPool(pool[c])
  BY <1>1 DEF RRInv, Pools
<1>4. L \in Nat /\ L > 1 /\ t % L \in 0..(L - 1) /\ got \in Ids
  <2>1. L \in Nat /\ L > 1
    BY <1>3 DEF IsPool
  <2>2. t % L \in 0..(L - 1)
    BY <1>1, <2>1
  <2> HIDE DEF t
  <2> QED BY <1>3, <2>1, <2>2 DEF IsPool
<1>5. ticket'[counter] = t + 1
  BY <1>1, <1>2 DEF RRInv, RRTypeOK
<1> HIDE DEF t, L
<1>6. /\ row \in Seq(Ids) /\ row # <<>> /\ Len(row) <= L + 1 /\ Len(row) <= t + 1
      /\ RowTo(t + 1, pool[c], row)
  <2> DEFINE was == IF pool[c] = lastPool THEN turns ELSE <<>>
  <2>0. turns \in Seq(Ids) /\ Append(<<>>, got) = <<got>>
    BY DEF RRInv, RRTypeOK
  <2>1. row = Append(was, got) /\ was \in Seq(Ids)
    <3> HIDE DEF got
    <3>1. CASE pool[c] = lastPool
      BY <2>0, <3>1
    <3>2. CASE pool[c] # lastPool
      <4>1. row = <<got>> /\ was = <<>>
        BY <3>2
      <4> HIDE DEF row, was
      <4> QED BY <2>0, <4>1
    <3> QED BY <3>1, <3>2
  <2>2. Len(was) <= L /\ Len(was) <= t /\ RowTo(t, pool[c], was)
    <3>1. CASE was = <<>>
      <4>1. Len(was) = 0
        BY <3>1
      <4> HIDE DEF was, row
      <4> QED BY <1>1, <1>4, <4>1 DEF RowTo
    <3>2. CASE was # <<>>
      BY <3>2 DEF RRInv, InTurn, L, t
    <3> QED BY <3>1, <3>2
  <2> HIDE DEF was, row
  <2>3. RowTo(t + 1, pool[c], Append(was, got))
    BY <1>1, <1>3, <2>1, <2>2, RowGrows DEF IsPool, L
  <2> HIDE DEF got
  <2> QED BY <1>1, <1>4, <2>1, <2>2, <2>3
<1> HIDE DEF row, got
<1>7. /\ turns' \in Seq(Ids) /\ turns' # <<>> /\ Len(turns') <= L /\ Len(turns') <= t + 1
      /\ RowTo(t + 1, pool[c], turns')
  <2>1. CASE Len(row) <= L
    BY <1>2, <1>4, <1>6, <2>1
  <2>2. CASE Len(row) > L
    <3>1. turns' = Tail(row)
      BY <1>2, <2>2
    <3>2. RowTo(t + 1, pool[c], Tail(row))
      <4>1. t + 1 \in Nat /\ pool[c] \in Seq(Ids)
        BY <1>1, <1>3 DEF IsPool
      <4> QED BY <1>6, <4>1, RowMoves
    <3>3. Tail(row) \in Seq(Ids) /\ Len(Tail(row)) = Len(row) - 1 /\ Len(row) = L + 1
      BY <1>4, <1>6, <2>2
    <3>4. Tail(row) # <<>>
      <4> DEFINE rest == Tail(row)
      <4>1. rest \in Seq(Ids) /\ Len(rest) > 0
        BY <1>4, <3>3
      <4> HIDE DEF rest
      <4>2. rest # <<>>
        BY <4>1
      <4> QED BY <4>2 DEF rest
    <3> QED BY <1>1, <1>4, <1>6, <3>1, <3>2, <3>3, <3>4
  <2> QED BY <1>4, <1>6, <2>1, <2>2
<1>8. RRTypeOK'
  BY <1>1, <1>2, <1>3, <1>5, <1>7 DEF RRInv, RRTypeOK, IsPool, t
<1>9. OneCounter' /\ Pools'
  BY <1>2 DEF RRInv, RRTypeOK, OneCounter, Pools
<1>10. InTurn'
  BY <1>1, <1>2, <1>3, <1>5, <1>7, InstancesAssumption DEF InTurn, L
<1> QED BY <1>7, <1>8, <1>9, <1>10 DEF RRInv

LEMMA RRInvStep ==
    ASSUME RRInv, [RRNext]_rrVars
    PROVE  RRInv'
<1>1. CASE UNCHANGED rrVars
  BY <1>1 DEF rrVars, RRInv, RRTypeOK, OneCounter, Pools, InTurn
<1> QED BY <1>1, AskStep, GetStep, DrawStep DEF RRNext

LEMMA RotationHolds ==
    ASSUME RRInv PROVE Rotation
<1> SUFFICES ASSUME NEW i \in 1..Len(turns), NEW j \in 1..Len(turns), i < j PROVE turns[i] # turns[j]
  BY DEF RRInv, RRTypeOK, Rotation, IsInjective
<1> DEFINE t == ticket[counter]
           n == Len(turns)
           L == Len(lastPool)
           a == t - n + (i - 1)
           b == t - n + (j - 1)
<1>1. n \in Nat /\ turns # <<>>
  BY DEF RRInv, RRTypeOK
<1>2. /\ IsPool(lastPool) /\ n <= L /\ n <= t /\ counter \in Arcs
      /\ turns[i] = lastPool[1 + (a % L)] /\ turns[j] = lastPool[1 + (b % L)]
  BY <1>1 DEF RRInv, RRTypeOK, InTurn, RowTo
<1>3. t \in Nat /\ L \in Nat \ {0}
  BY <1>2 DEF RRInv, RRTypeOK, IsPool
<1> HIDE DEF t, n, L
<1>9. i \in 1..n /\ j \in 1..n
  BY DEF n
<1>4. a \in Nat /\ b \in Nat /\ a < b /\ b < a + L
  BY <1>1, <1>2, <1>3, <1>9
<1> HIDE DEF a, b
<1>5. a % L # b % L
  BY <1>3, <1>4, ModApart
<1>8. a % L \in 0..(L - 1) /\ b % L \in 0..(L - 1)
  BY <1>3, <1>4
<1>6. 1 + (a % L) \in DOMAIN lastPool /\ 1 + (b % L) \in DOMAIN lastPool
  BY <1>2, <1>3, <1>8 DEF IsPool, L
<1>7. 1 + (a % L) # 1 + (b % L)
  BY <1>5, <1>8
<1> QED BY <1>2, <1>6, <1>7 DEF IsPool, IsInjective

\* Nobody is drawn twice before everybody has been, whoever made the counter.
THEOREM EachInTurn == RRSpec => []Rotation
<1>1. RRInv /\ [RRNext]_rrVars => RRInv'
  BY RRInvStep
<1>2. RRInv => Rotation
  BY RotationHolds
<1> QED BY <1>1, <1>2, RRInvInit, PTL DEF RRSpec

-----------------------------------------------------------------------------
(* Sums of weights. *)

Some(T) == CHOOSE x \in T : TRUE

LEMMA SomeIn ==
    ASSUME NEW T, T # {} PROVE Some(T) \in T
  BY DEF Some

\* g is the recursive function that SumOver applies to the set.
SumsUp(g, f, S) ==
    g = [T \in SUBSET S |-> IF T = {} THEN 0 ELSE f[Some(T)] + g[T \ {Some(T)}]]

LEMMA SumsUpExists ==
    ASSUME NEW f \in [Ids -> Int], NEW S \in SUBSET Ids, IsFiniteSet(S)
    PROVE  \E g \in [SUBSET S -> Int] : SumsUp(g, f, S)
<1> DEFINE Dom(n) == {T \in SUBSET S : Cardinality(T) <= n}
           Value(g, T) == IF T = {} THEN 0 ELSE f[Some(T)] + g[T \ {Some(T)}]
           Good(n) == \E g \in [Dom(n) -> Int] : \A T \in Dom(n) : g[T] = Value(g, T)
           Bad == {n \in Nat : ~Good(n)}
<1>0. \A T \in SUBSET S : IsFiniteSet(T) /\ Cardinality(T) \in Nat
  BY FS_Subset, FS_CardinalityType
<1>1. Good(0)
  <2> DEFINE g == [T \in Dom(0) |-> 0]
  <2>1. \A T \in Dom(0) : T = {}
    BY <1>0, FS_EmptySet
  <2>2. g \in [Dom(0) -> Int] /\ \A T \in Dom(0) : g[T] = Value(g, T)
    BY <2>1
  <2> QED BY <2>2
<1>2. ASSUME NEW n \in Nat, Good(n) PROVE Good(n + 1)
  <2>1. PICK g \in [Dom(n) -> Int] : \A T \in Dom(n) : g[T] = Value(g, T)
    BY <1>2
  <2> DEFINE h == [T \in Dom(n + 1) |-> IF T \in Dom(n) THEN g[T] ELSE Value(g, T)]
  <2>2. ASSUME NEW T \in Dom(n + 1), T # {} PROVE Some(T) \in Ids /\ T \ {Some(T)} \in Dom(n)
    <3>1. Some(T) \in T
      BY <2>2, SomeIn
    <3>2. Cardinality(T) \in Nat /\ Cardinality(T \ {Some(T)}) = Cardinality(T) - 1
      BY <1>0, <3>1, OneFewer
    <3> QED BY <3>1, <3>2
  <2>3. ASSUME NEW T \in Dom(n + 1), T # {}
        PROVE  h[T \ {Some(T)}] = g[T \ {Some(T)}] /\ g[T \ {Some(T)}] \in Int
    <3> DEFINE U == T \ {Some(T)}
    <3>1. U \in Dom(n) /\ U \in Dom(n + 1)
      <4>1. U \in SUBSET S /\ Cardinality(U) <= n /\ Cardinality(U) \in Nat
        BY <1>0, <2>2, <2>3
      <4> QED BY <4>1
    <3> HIDE DEF U
    <3>2. h[U] = g[U] /\ g[U] \in Int
      BY <2>1, <3>1
    <3> QED BY <3>2 DEF U
  <2>4. ASSUME NEW T \in Dom(n + 1)
        PROVE  Value(h, T) = Value(g, T) /\ Value(g, T) \in Int
    <3>1. CASE T = {}
      BY <3>1
    <3>2. CASE T # {}
      <4>1. f[Some(T)] \in Int
        BY <2>2, <3>2
      <4>2. h[T \ {Some(T)}] = g[T \ {Some(T)}] /\ g[T \ {Some(T)}] \in Int
        BY <2>3, <3>2
      <4> HIDE DEF h
      <4> QED BY <3>2, <4>1, <4>2
    <3> QED BY <3>1, <3>2
  <2>5. \A T \in Dom(n + 1) : h[T] = Value(h, T) /\ h[T] \in Int
    BY <2>1, <2>4
  <2>6. h \in [Dom(n + 1) -> Int]
    BY <2>5
  <2> QED BY <2>5, <2>6
<1> HIDE DEF Good
<1>3. Bad = {}
  <2> SUFFICES ASSUME Bad # {} PROVE FALSE
    OBVIOUS
  <2>1. PICK n \in Bad : \A m \in Bad : n <= m
    BY NatMin
  <2>2. n \in Nat /\ n # 0 /\ ~Good(n)
    BY <1>1, <2>1
  <2>3. n - 1 \in Nat /\ ~(n <= n - 1) /\ (n - 1) + 1 = n
    BY <2>2
  <2>4. Good(n - 1)
    BY <2>1, <2>3
  <2> QED BY <1>2, <2>2, <2>3, <2>4
<1>4. Cardinality(S) \in Nat
  BY FS_CardinalityType
<1>5. Good(Cardinality(S))
  BY <1>3, <1>4
<1>6. Dom(Cardinality(S)) = SUBSET S
  BY FS_Subset
<1>7. PICK g \in [SUBSET S -> Int] : \A T \in SUBSET S : g[T] = Value(g, T)
  BY <1>5, <1>6 DEF Good
<1> QED BY <1>7 DEF SumsUp

LEMMA SumsUpOnce ==
    ASSUME NEW f, NEW S, IsFiniteSet(S), NEW R \in SUBSET S,
           NEW g, SumsUp(g, f, S), NEW h, SumsUp(h, f, R)
    PROVE  \A T \in SUBSET R : g[T] = h[T]
<1> DEFINE Bad == {T \in SUBSET R : g[T] # h[T]}
<1> SUFFICES ASSUME Bad # {} PROVE FALSE
  OBVIOUS
<1>1. Bad \in SUBSET (SUBSET S)
  OBVIOUS
<1>2. PICK T \in Bad : \A U \in Bad : Cardinality(T) <= Cardinality(U)
  BY <1>1, LeastSubset
<1>3. T \in SUBSET R /\ T \in SUBSET S /\ g[T] # h[T]
  BY <1>1
<1>4. /\ g[T] = IF T = {} THEN 0 ELSE f[Some(T)] + g[T \ {Some(T)}]
      /\ h[T] = IF T = {} THEN 0 ELSE f[Some(T)] + h[T \ {Some(T)}]
  BY <1>3 DEF SumsUp
<1>5. T # {} /\ T \ {Some(T)} \in SUBSET R /\ g[T \ {Some(T)}] # h[T \ {Some(T)}]
  BY <1>3, <1>4
<1>6. Some(T) \in T /\ IsFiniteSet(T)
  BY <1>3, <1>5, SomeIn, FS_Subset
<1>7. Cardinality(T) \in Nat /\ Cardinality(T \ {Some(T)}) = Cardinality(T) - 1
  BY <1>6, OneFewer
<1>8. Cardinality(T) <= Cardinality(T \ {Some(T)})
  BY <1>2, <1>5
<1> QED BY <1>7, <1>8

LEMMA SumIs ==
    ASSUME NEW f \in [Ids -> Int], NEW S \in SUBSET Ids, IsFiniteSet(S), NEW g, SumsUp(g, f, S)
    PROVE  SumOver(f, S) = g[S]
<1> DEFINE iter == CHOOSE h : h = [T \in SUBSET S |-> IF T = {} THEN 0
                          ELSE f[CHOOSE x \in T : TRUE] + h[T \ {CHOOSE x \in T : TRUE}]]
<1>1. SumOver(f, S) = iter[S]
  BY DEF SumOver, MapThenSumSet, MapThenFoldSet
<1>2. iter = CHOOSE h : SumsUp(h, f, S)
  BY DEF SumsUp, Some
<1> HIDE DEF iter
<1>3. SumsUp(iter, f, S)
  BY <1>2
<1> QED BY <1>1, <1>3, SumsUpOnce

\* The sum over a set is that of one element and of the sum over the others.
LEMMA SumSome ==
    ASSUME NEW f \in [Ids -> Int], NEW S \in SUBSET Ids, IsFiniteSet(S)
    PROVE  /\ SumOver(f, S) \in Int
           /\ S = {} => SumOver(f, S) = 0
           /\ S # {} => SumOver(f, S) = f[Some(S)] + SumOver(f, S \ {Some(S)})
<1>1. PICK g \in [SUBSET S -> Int] : SumsUp(g, f, S)
  BY SumsUpExists
<1>2. SumOver(f, S) = g[S]
  BY <1>1, SumIs
<1>3. g[S] = IF S = {} THEN 0 ELSE f[Some(S)] + g[S \ {Some(S)}]
  BY <1>1 DEF SumsUp
<1>4. ASSUME S # {} PROVE g[S \ {Some(S)}] = SumOver(f, S \ {Some(S)})
  <2> DEFINE R == S \ {Some(S)}
  <2>1. R \in SUBSET S /\ R \in SUBSET Ids /\ IsFiniteSet(R)
    BY FS_Subset
  <2> HIDE DEF R
  <2>2. PICK h \in [SUBSET R -> Int] : SumsUp(h, f, R)
    BY <2>1, SumsUpExists
  <2>3. SumOver(f, R) = h[R]
    BY <2>1, <2>2, SumIs
  <2>4. g[R] = h[R]
    BY <1>1, <2>1, <2>2, SumsUpOnce
  <2> QED BY <2>3, <2>4 DEF R
<1> QED BY <1>1, <1>2, <1>3, <1>4

LEMMA SumRemoves ==
    ASSUME NEW f \in [Ids -> Int], NEW S \in SUBSET Ids, IsFiniteSet(S), NEW y \in S
    PROVE  SumOver(f, S) = f[y] + SumOver(f, S \ {y})
<1> DEFINE Ok == {T \in SUBSET S : \A z \in T : SumOver(f, T) = f[z] + SumOver(f, T \ {z})}
<1>1. ASSUME NEW T \in SUBSET S, IsFiniteSet(T), \A U \in SUBSET T : U # T => U \in Ok
      PROVE  T \in Ok
  <2> SUFFICES ASSUME NEW z \in T, Some(T) # z PROVE SumOver(f, T) = f[z] + SumOver(f, T \ {z})
    BY <1>1, SumSome
  <2> DEFINE x == Some(T)
             A == T \ {x}
             B == T \ {z}
             C == A \ {z}
  <2>1. x \in T /\ x # z
    BY SomeIn
  <2>2. /\ A \in SUBSET T /\ A # T /\ z \in A /\ IsFiniteSet(A)
        /\ B \in SUBSET T /\ B # T /\ x \in B /\ IsFiniteSet(B) /\ B \ {x} = C
        /\ IsFiniteSet(C) /\ C \in SUBSET Ids
    BY <1>1, <2>1, FS_RemoveElement
  <2>3. SumOver(f, T) = f[x] + SumOver(f, A)
    BY <1>1, <2>1, SumSome
  <2>4. SumOver(f, A) = f[z] + SumOver(f, C)
    BY <1>1, <2>2
  <2>5. SumOver(f, C) \in Int /\ f[x] \in Int /\ f[z] \in Int
    BY <2>1, <2>2, SumSome
  <2>6. SumOver(f, B) = f[x] + SumOver(f, C)
    <3>1. B \in Ok
      BY <1>1, <2>2
    <3> QED BY <2>2, <3>1
  <2> QED BY <2>3, <2>4, <2>5, <2>6
<1>2. S \in Ok
  <2> HIDE DEF Ok
  <2> QED BY <1>1, SubsetInduction
<1> QED BY <1>2

\* Sums are added element by element.
LEMMA SumAdds ==
    ASSUME NEW f \in [Ids -> Int], NEW g \in [Ids -> Int], NEW h \in [Ids -> Int],
           NEW S \in SUBSET Ids, IsFiniteSet(S), \A x \in S : h[x] = f[x] + g[x]
    PROVE  SumOver(h, S) = SumOver(f, S) + SumOver(g, S)
<1> DEFINE Ok == {T \in SUBSET S : SumOver(h, T) = SumOver(f, T) + SumOver(g, T)}
<1>1. ASSUME NEW T \in SUBSET S, IsFiniteSet(T), \A U \in SUBSET T : U # T => U \in Ok
      PROVE  T \in Ok
  <2>1. CASE T = {}
    <3>1. SumOver(h, T) = 0 /\ SumOver(f, T) = 0 /\ SumOver(g, T) = 0
      BY <1>1, <2>1, SumSome
    <3> QED BY <3>1
  <2>2. CASE T # {}
    <3> DEFINE x == Some(T)
               R == T \ {x}
    <3>1. x \in T /\ R \in SUBSET T /\ R # T
      BY <2>2, SomeIn
    <3>2. R \in Ok /\ IsFiniteSet(R) /\ R \in SUBSET Ids
      BY <1>1, <3>1, FS_Subset
    <3>3. SumOver(h, R) = SumOver(f, R) + SumOver(g, R) /\ SumOver(f, R) \in Int /\ SumOver(g, R) \in Int
      BY <3>2, SumSome
    <3>4. h[x] = f[x] + g[x] /\ f[x] \in Int /\ g[x] \in Int
      BY <3>1
    <3>5. /\ SumOver(h, T) = h[x] + SumOver(h, R) /\ SumOver(f, T) = f[x] + SumOver(f, R)
          /\ SumOver(g, T) = g[x] + SumOver(g, R)
      BY <1>1, <2>2, SumSome
    <3>6. SumOver(h, T) = SumOver(f, T) + SumOver(g, T)
      BY <3>3, <3>4, <3>5
    <3> QED BY <3>6
  <2> QED BY <2>1, <2>2
<1>2. S \in Ok
  <2> HIDE DEF Ok
  <2> QED BY <1>1, SubsetInduction
<1> QED BY <1>2

\* A sum is at most as often its greatest term as it has terms.
LEMMA SumAtMost ==
    ASSUME NEW f \in [Ids -> Int], NEW S \in SUBSET Ids, IsFiniteSet(S), NEW most \in Int,
           \A x \in S : f[x] <= most
    PROVE  SumOver(f, S) <= Cardinality(S) * most
<1> DEFINE Ok == {T \in SUBSET S : SumOver(f, T) <= Cardinality(T) * most}
<1>1. ASSUME NEW T \in SUBSET S, IsFiniteSet(T), \A U \in SUBSET T : U # T => U \in Ok
      PROVE  T \in Ok
  <2>1. CASE T = {}
    <3>1. SumOver(f, T) = 0 /\ Cardinality(T) = 0
      BY <1>1, <2>1, SumSome, FS_EmptySet
    <3>2. SumOver(f, T) <= Cardinality(T) * most
      BY <3>1
    <3> QED BY <3>2
  <2>2. CASE T # {}
    <3> DEFINE x == Some(T)
               R == T \ {x}
               n == Cardinality(R)
    <3>1. x \in T /\ R \in SUBSET T /\ R # T
      BY <2>2, SomeIn
    <3>2. R \in Ok /\ IsFiniteSet(R) /\ R \in SUBSET Ids /\ n \in Nat /\ Cardinality(T) = n + 1
      <4>1. IsFiniteSet(R) /\ Cardinality(T) \in Nat /\ n = Cardinality(T) - 1 /\ Cardinality(T) # 0
        BY <1>1, <3>1, OneFewer
      <4>2. n \in Nat
        BY <4>1, FS_CardinalityType
      <4>3. R \in Ok /\ R \in SUBSET Ids
        BY <1>1, <3>1
      <4> HIDE DEF n, R, Ok
      <4> QED BY <4>1, <4>2, <4>3
    <3>3. SumOver(f, R) <= n * most /\ SumOver(f, R) \in Int
      BY <3>2, SumSome
    <3>4. f[x] <= most /\ f[x] \in Int
      BY <3>1
    <3>5. SumOver(f, T) = f[x] + SumOver(f, R)
      BY <1>1, <2>2, SumSome
    <3>6. n * most \in Int /\ (n + 1) * most = n * most + most
      BY <3>2
    <3>7. SumOver(f, T) <= Cardinality(T) * most
      BY <3>2, <3>3, <3>4, <3>5, <3>6
    <3> QED BY <3>7
  <2> QED BY <2>1, <2>2
<1>2. S \in Ok
  <2> HIDE DEF Ok
  <2> QED BY <1>1, SubsetInduction
<1> QED BY <1>2

LEMMA SumZero ==
    ASSUME NEW S \in SUBSET Ids, IsFiniteSet(S), NEW f \in [Ids -> Int], \A x \in S : f[x] = 0
    PROVE  SumOver(f, S) = 0
<1> DEFINE s == SumOver(f, S)
<1>1. \A x \in S : f[x] = f[x] + f[x]
  OBVIOUS
<1>2. s = s + s
  BY <1>1, SumAdds
<1>3. s \in Int
  BY SumSome
<1> HIDE DEF s
<1>4. s = 0
  BY <1>2, <1>3
<1> QED BY <1>4 DEF s

\* The sum of numbers none of which is negative is not negative either.
LEMMA SumNotNegative ==
    ASSUME NEW f \in [Ids -> Int], NEW S \in SUBSET Ids, IsFiniteSet(S), \A x \in S : f[x] >= 0
    PROVE  SumOver(f, S) >= 0
<1> DEFINE g == [x \in Ids |-> -f[x]]
           z == [x \in Ids |-> 0]
<1>1. SumOver(z, S) = SumOver(f, S) + SumOver(g, S)
  BY SumAdds
<1>2. SumOver(z, S) = 0
  BY SumZero
<1>3. SumOver(g, S) <= Cardinality(S) * 0
  BY SumAtMost
<1>4. SumOver(f, S) \in Int /\ SumOver(g, S) \in Int /\ Cardinality(S) \in Nat
  <2>1. g \in [Ids -> Int]
    OBVIOUS
  <2> HIDE DEF g
  <2> QED BY <2>1, SumSome, FS_CardinalityType
<1> HIDE DEF g, z
<1> QED BY <1>1, <1>2, <1>3, <1>4

-----------------------------------------------------------------------------
(* WeightedRoundRobin. *)

LEMMA SumOfOne ==
    ASSUME NEW S \in SUBSET Ids, IsFiniteSet(S), NEW y \in S, NEW w \in Int,
           NEW f \in [Ids -> Int], f[y] = w, \A x \in S \ {y} : f[x] = 0
    PROVE  SumOver(f, S) = w
<1> DEFINE R == S \ {y}
<1>1. R \in SUBSET Ids /\ IsFiniteSet(R) /\ \A x \in R : f[x] = 0
  BY FS_RemoveElement
<1> HIDE DEF R
<1>2. SumOver(f, R) = 0
  BY <1>1, SumZero
<1>3. SumOver(f, S) = f[y] + SumOver(f, R)
  BY SumRemoves DEF R
<1> QED BY <1>2, <1>3

\* In a finite set that is not empty one has the greatest number.
LEMMA GreatestOf ==
    ASSUME NEW f \in [Ids -> Int], NEW S \in SUBSET Ids, IsFiniteSet(S), S # {}
    PROVE  \E x \in S : \A y \in S : f[y] <= f[x]
<1> DEFINE Ok == {T \in SUBSET S : T # {} => \E x \in T : \A y \in T : f[y] <= f[x]}
<1>1. ASSUME NEW T \in SUBSET S, IsFiniteSet(T), \A U \in SUBSET T : U # T => U \in Ok
      PROVE  T \in Ok
  <2> SUFFICES ASSUME T # {} PROVE \E x \in T : \A y \in T : f[y] <= f[x]
    OBVIOUS
  <2> DEFINE x == Some(T)
             R == T \ {x}
  <2>1. x \in T /\ R \in SUBSET T /\ R # T /\ f[x] \in Int /\ T = R \cup {x}
    BY SomeIn
  <2>2. CASE R = {}
    BY <2>1, <2>2
  <2>3. CASE R # {}
    <3>1. R \in Ok
      BY <1>1, <2>1
    <3>2. PICK z \in R : \A y \in R : f[y] <= f[z]
      BY <2>3, <3>1
    <3>3. z \in T /\ f[z] \in Int /\ \A y \in R : f[y] \in Int
      BY <2>1, <3>2
    <3> HIDE DEF x, R
    <3>4. CASE f[x] <= f[z]
      BY <2>1, <3>2, <3>3, <3>4
    <3>5. CASE f[z] <= f[x]
      BY <2>1, <3>2, <3>3, <3>5
    <3> QED BY <2>1, <3>3, <3>4, <3>5
  <2> QED BY <2>2, <2>3
<1>2. S \in Ok
  <2> HIDE DEF Ok
  <2> QED BY <1>1, SubsetInduction
<1> QED BY <1>2

LEMMA WRRWeightPositive ==
    ASSUME NEW id \in Ids PROVE WRRWeight(id) \in Int /\ WRRWeight(id) >= 0
  BY InstancesAssumption DEF WRRWeight, AtLeast

LEMMA BestIsGreatest ==
    ASSUME NEW l \in Lists, Len(l) > 0, current \in [Ids -> Int]
    PROVE  /\ l[Best(l)] \in ToSet(l)
           /\ \A id \in ToSet(l) : Raised(l)[id] <= Raised(l)[l[Best(l)]]
<1> DEFINE S == ToSet(l)
           f == Raised(l)
           Test(id) == \A other \in S : f[other] <= f[id]
           I == {n \in 1..Len(l) : Test(l[n])}
<1>1. f \in [Ids -> Int]
  BY WRRWeightPositive DEF Raised
<1>2. S \in SUBSET Ids /\ IsFiniteSet(S) /\ S # {}
  BY ListMembers
<1>3. Best(l) = IF I # {} THEN Min(I) ELSE 0
  BY DEF Best, SelectInSeq
<1> HIDE DEF f
<1>4. PICK id \in S : Test(id)
  BY <1>1, <1>2, GreatestOf
<1>5. PICK n \in 1..Len(l) : l[n] = id
  BY ListMembers
<1>6. n \in I /\ I \in SUBSET Nat
  BY <1>4, <1>5, ListMembers
<1> HIDE DEF I
<1>7. Best(l) \in I
  BY <1>3, <1>6, MinIsLeast
<1>8. Best(l) \in 1..Len(l) /\ Test(l[Best(l)])
  BY <1>7 DEF I
<1> QED BY <1>8, ListMembers DEF f

-----------------------------------------------------------------------------
\* Every weight in the map is the one brought less the lead, and the weights of the members add up
\* to what they brought: a select takes from one what it gives to all.
LeadIsTaken == \A id \in members : current[id] = carried[id] - lead[id]
SumIsKept == SumOver(current, members) = SumOver(carried, members)

\* Who is further ahead than a round is not below the average of the members by more than a round.
NoneLeftBehind == \A id \in members :
    \/ lead[id] <= Total(members)
    \/ SumOver(current, members) <= Cardinality(members) * (current[id] + Total(members))

WRRInv == WRRTypeOK /\ IsFiniteSet(members) /\ LeadIsTaken /\ SumIsKept /\ NoneLeftBehind

LEMMA WRRInvInit == WRRInit => WRRInv
<1> SUFFICES ASSUME WRRInit PROVE WRRInv
  OBVIOUS
<1>1. WRRTypeOK /\ LeadIsTaken /\ SumIsKept /\ NoneLeftBehind
  BY DEF WRRInit, WRRTypeOK, LeadIsTaken, SumIsKept, NoneLeftBehind, Zero
<1> QED BY <1>1, FS_EmptySet DEF WRRInit, WRRInv

LEMMA TotalType ==
    ASSUME NEW S \in SUBSET Ids, IsFiniteSet(S)
    PROVE  Total(S) \in Int /\ Total(S) >= 0
<1> DEFINE w == [id \in Ids |-> WRRWeight(id)]
<1>1. w \in [Ids -> Int] /\ \A id \in Ids : w[id] >= 0
  BY WRRWeightPositive
<1> HIDE DEF w
<1>2. SumOver(w, S) \in Int /\ SumOver(w, S) >= 0
  BY <1>1, SumSome, SumNotNegative
<1> QED BY <1>2 DEF Total, w

\* Proportional in terms of the weights in the map.
LEMMA AheadIsOwed ==
    ASSUME NEW n \in Nat, NEW T \in Int, NEW cur \in Int, NEW car \in Int, NEW led \in Int, NEW sum \in Int,
           cur = car - led, led <= T \/ sum <= n * (cur + T)
    PROVE  n * (led - T) <= 0 \/ n * (led - T) <= n * car - sum
<1>1. CASE led <= T
  <2>1. led - T <= 0 /\ led - T \in Int
    BY <1>1
  <2> DEFINE d == led - T
  <2> HIDE DEF d
  <2>2. d \in Int /\ d <= 0 => n * d <= 0
    OBVIOUS
  <2> QED BY <2>1, <2>2 DEF d
<1>2. CASE sum <= n * (cur + T)
  <2>1. n * (cur + T) = n * car - n * (led - T)
    OBVIOUS
  <2>2. n * (led - T) \in Int /\ n * car \in Int
    OBVIOUS
  <2> QED BY <1>2, <2>1, <2>2
<1> QED BY <1>1, <1>2

\* What a select does to the weights: all of the list get theirs, the best pays the total.
LEMMA SelectPays ==
    ASSUME WRRInv, NEW l \in Lists, Select(l)
    PROVE  LET S == ToSet(l)
               b == l[Best(l)]
               T == Total(S)
           IN  /\ S \in SUBSET Ids /\ IsFiniteSet(S) /\ b \in S /\ T \in Int /\ T >= 0
               /\ current' \in [Ids -> Int] /\ lead' \in [Ids -> Int]
               /\ \A id \in S : current'[id] = current[id] + WRRWeight(id) - (IF id = b THEN T ELSE 0)
               /\ \A id \in S : current[id] + WRRWeight(id) <= current[b] + WRRWeight(b)
               /\ \A id \in S : lead'[id] = (IF S = members THEN lead[id] ELSE 0)
                                              + (IF id = b THEN T ELSE 0) - WRRWeight(id)
<1> DEFINE S == ToSet(l)
           b == l[Best(l)]
           T == Total(S)
<1>1. current \in [Ids -> Int] /\ lead \in [Ids -> Int]
  BY DEF WRRInv, WRRTypeOK
<1>2. S \in SUBSET Ids /\ IsFiniteSet(S) /\ T \in Int /\ T >= 0
  BY ListMembers, TotalType
<1>3. b \in S /\ \A id \in S : Raised(l)[id] <= Raised(l)[b]
  BY <1>1, BestIsGreatest DEF Select
<1>4. \A id \in Ids : WRRWeight(id) \in Int
  BY WRRWeightPositive
<1>5. current' = [Raised(l) EXCEPT ![b] = @ - T]
  BY DEF Select, Charge
<1>6. lead' = [id \in Ids |-> (IF S = members THEN lead ELSE Zero)[id] + (IF id = b THEN T ELSE 0)
                                  - (IF id \in S THEN WRRWeight(id) ELSE 0)]
  BY DEF Select
<1>7. Raised(l) = [id \in Ids |-> current[id] + (IF id \in S THEN WRRWeight(id) ELSE 0)]
  BY DEF Raised
<1> HIDE DEF S, b, T
<1>8. \A id \in S : Raised(l)[id] = current[id] + WRRWeight(id)
  BY <1>2, <1>7
<1>9. \A id \in S : current[id] + WRRWeight(id) <= current[b] + WRRWeight(b)
  BY <1>3, <1>8
<1>10. current' \in [Ids -> Int]
       /\ \A id \in S : current'[id] = current[id] + WRRWeight(id) - (IF id = b THEN T ELSE 0)
  BY <1>1, <1>2, <1>3, <1>4, <1>5, <1>7
<1>11. lead' \in [Ids -> Int]
       /\ \A id \in S : lead'[id] = (IF S = members THEN lead[id] ELSE 0)
                                       + (IF id = b THEN T ELSE 0) - WRRWeight(id)
  BY <1>1, <1>2, <1>4, <1>6 DEF Zero
<1> QED BY <1>2, <1>3, <1>9, <1>10, <1>11 DEF S, b, T

LEMMA WRRSelectStep ==
    ASSUME WRRInv, NEW l \in Lists, Select(l)
    PROVE  WRRInv'
<1> DEFINE S == ToSet(l)
           b == l[Best(l)]
           T == Total(S)
           n == Cardinality(S)
           w == [id \in Ids |-> WRRWeight(id)]
           paid == [id \in Ids |-> IF id = b THEN -T ELSE 0]
           raised == [id \in Ids |-> current[id] + w[id]]
<1>1. /\ S \in SUBSET Ids /\ IsFiniteSet(S) /\ b \in S /\ T \in Int /\ T >= 0
      /\ current' \in [Ids -> Int] /\ lead' \in [Ids -> Int]
      /\ \A id \in S : current'[id] = current[id] + WRRWeight(id) - (IF id = b THEN T ELSE 0)
      /\ \A id \in S : current[id] + WRRWeight(id) <= current[b] + WRRWeight(b)
      /\ \A id \in S : lead'[id] = (IF S = members THEN lead[id] ELSE 0)
                                     + (IF id = b THEN T ELSE 0) - WRRWeight(id)
  BY SelectPays
<1>2. members' = S /\ carried' = IF S = members THEN carried ELSE current
  BY DEF Select
<1>3. /\ current \in [Ids -> Int] /\ lead \in [Ids -> Int] /\ carried \in [Ids -> Int]
      /\ carried' \in [Ids -> Int] /\ members' \in SUBSET Ids
  BY <1>1, <1>2 DEF WRRInv, WRRTypeOK
<1>4. w \in [Ids -> Int] /\ \A id \in Ids : w[id] = WRRWeight(id) /\ w[id] >= 0
  BY WRRWeightPositive
<1>5. T = SumOver(w, S)
  BY DEF Total
<1>6. raised \in [Ids -> Int] /\ \A id \in Ids : raised[id] = current[id] + w[id]
  BY <1>3, <1>4
<1>7. paid \in [Ids -> Int] /\ paid[b] = -T /\ \A id \in S \ {b} : paid[id] = 0
  BY <1>1
<1>8. n \in Nat
  BY <1>1, FS_CardinalityType
<1> HIDE DEF S, b, T, n, w, paid, raised
<1>9. SumOver(paid, S) = -T
  BY <1>1, <1>7, SumOfOne
<1>10. SumOver(raised, S) = SumOver(current, S) + T
  BY <1>1, <1>3, <1>4, <1>5, <1>6, SumAdds
<1>11. \A id \in S : current'[id] = raised[id] + paid[id]
  BY <1>1, <1>3, <1>4, <1>6, <1>7
<1>12. SumOver(current', S) = SumOver(raised, S) + SumOver(paid, S)
  BY <1>1, <1>6, <1>7, <1>11, SumAdds
<1>13. SumOver(current, S) \in Int /\ SumOver(raised, S) \in Int /\ SumOver(carried', S) \in Int
  BY <1>1, <1>3, <1>6, SumSome
<1>14. SumOver(current', S) = SumOver(current, S)
  BY <1>1, <1>9, <1>10, <1>12, <1>13
<1>15. SumIsKept'
  BY <1>2, <1>14 DEF WRRInv, SumIsKept
<1>16. LeadIsTaken'
  <2> SUFFICES ASSUME NEW id \in S PROVE current'[id] = carried'[id] - lead'[id]
    BY <1>2 DEF LeadIsTaken
  <2>1. id \in Ids /\ WRRWeight(id) \in Int
    BY <1>1, <1>4
  <2>2. CASE S = members
    <3>1. current[id] = carried[id] - lead[id]
      BY <2>2 DEF WRRInv, LeadIsTaken
    <3> QED BY <1>1, <1>2, <1>3, <2>1, <2>2, <3>1
  <2>3. CASE S # members
    BY <1>1, <1>2, <1>3, <2>1, <2>3
  <2> QED BY <2>2, <2>3
<1>17. NoneLeftBehind'
  <2> SUFFICES ASSUME NEW id \in S
               PROVE  lead'[id] <= T \/ SumOver(current', S) <= n * (current'[id] + T)
    BY <1>2 DEF NoneLeftBehind, T, n
  <2>1. id \in Ids /\ WRRWeight(id) \in Int /\ WRRWeight(id) >= 0
    BY <1>1, <1>4
  <2>2. CASE id = b
    <3>1. current'[id] + T = raised[b]
      BY <1>1, <1>3, <1>4, <1>6, <2>1, <2>2
    <3>2. SumOver(raised, S) <= n * raised[b]
      <4>1. \A x \in S : raised[x] <= raised[b]
        BY <1>1, <1>4, <1>6
      <4> QED BY <1>1, <1>6, <2>1, <2>2, <4>1, SumAtMost DEF n
    <3>3. n * raised[b] \in Int
      BY <1>6, <1>8, <2>1, <2>2
    <3>4. SumOver(current', S) <= n * raised[b]
      BY <1>1, <1>10, <1>13, <1>14, <3>2, <3>3
    <3> QED BY <3>1, <3>4
  <2>3. CASE id # b /\ S # members
    <3>1. lead'[id] <= T
      BY <1>1, <2>1, <2>3
    <3> QED BY <3>1
  <2>4. CASE id # b /\ S = members /\ lead[id] <= T
    <3>1. lead'[id] <= T
      BY <1>1, <1>3, <2>1, <2>4
    <3> QED BY <3>1
  <2>5. CASE id # b /\ S = members /\ ~(lead[id] <= T)
    <3>1. SumOver(current, S) <= n * (current[id] + T)
      BY <2>5 DEF WRRInv, NoneLeftBehind, T, n
    <3>2. current'[id] = current[id] + WRRWeight(id) /\ current[id] \in Int
      BY <1>1, <1>3, <2>1, <2>5
    <3>3. n * (current'[id] + T) = n * (current[id] + T) + n * WRRWeight(id)
      BY <1>1, <1>8, <2>1, <3>2
    <3>4. n * WRRWeight(id) >= 0 /\ n * WRRWeight(id) \in Int /\ n * (current[id] + T) \in Int
      BY <1>1, <1>8, <2>1, <3>2
    <3>5. SumOver(current', S) <= n * (current'[id] + T)
      BY <1>13, <1>14, <3>1, <3>3, <3>4
    <3> QED BY <3>5
  <2> QED BY <2>2, <2>3, <2>4, <2>5
<1>18. WRRTypeOK' /\ IsFiniteSet(members')
  BY <1>1, <1>2, <1>3 DEF WRRTypeOK
<1> QED BY <1>15, <1>16, <1>17, <1>18 DEF WRRInv

LEMMA WRRInvStep ==
    ASSUME WRRInv, [WRRNext]_wrrVars
    PROVE  WRRInv'
<1>1. CASE UNCHANGED wrrVars
  BY <1>1 DEF wrrVars, WRRInv, WRRTypeOK, LeadIsTaken, SumIsKept, NoneLeftBehind
<1> QED BY <1>1, WRRSelectStep DEF WRRNext

LEMMA ProportionalHolds ==
    ASSUME WRRInv PROVE Proportional
<1> SUFFICES ASSUME NEW id \in members
             PROVE  \/ Cardinality(members) * (lead[id] - Total(members)) <= 0
                    \/ Cardinality(members) * (lead[id] - Total(members)) <= Owed(id)
  BY DEF Proportional
<1> DEFINE n == Cardinality(members)
           T == Total(members)
           sum == SumOver(carried, members)
<1>1. id \in Ids /\ members \in SUBSET Ids /\ IsFiniteSet(members)
  BY DEF WRRInv, WRRTypeOK
<1>2. current[id] \in Int /\ lead[id] \in Int /\ carried[id] \in Int /\ carried \in [Ids -> Int]
  BY <1>1 DEF WRRInv, WRRTypeOK
<1>3. n \in Nat /\ T \in Int /\ sum \in Int
  BY <1>1, <1>2, FS_CardinalityType, TotalType, SumSome
<1>4. current[id] = carried[id] - lead[id]
  BY DEF WRRInv, LeadIsTaken
<1>5. lead[id] <= T \/ sum <= n * (current[id] + T)
  BY DEF WRRInv, NoneLeftBehind, SumIsKept
<1>6. Owed(id) = n * carried[id] - sum
  BY DEF Owed
<1> HIDE DEF n, T, sum
<1>7. n * (lead[id] - T) <= 0 \/ n * (lead[id] - T) <= n * carried[id] - sum
  BY <1>2, <1>3, <1>4, <1>5, AheadIsOwed
<1> QED BY <1>6, <1>7 DEF n, T

\* However instances come and go, each is chosen in proportion to its weight.
THEOREM ChosenByWeight == WRRSpec => []Proportional
<1>1. WRRInv /\ [WRRNext]_wrrVars => WRRInv'
  BY WRRInvStep
<1>2. WRRInv => Proportional
  BY ProportionalHolds
<1> QED BY <1>1, <1>2, WRRInvInit, PTL DEF WRRSpec

-----------------------------------------------------------------------------
(* The selector of a service. *)

LEMMA RingTypes == RingShape => RingTypeOK
<1> SUFFICES ASSUME RingShape, rings # None
             PROVE  ToSet(rings.ring) \subseteq [hash : 0..(Modulus - 1), id : Ids]
  BY DEF RingShape, Asked, RingTypeOK
<1>1. PICK m \in Lists : rings = [fingerprint |-> Fingerprint(m), ring |-> RingOf(m)]
  BY DEF RingShape, OfAList
<1>2. m \in Seq(Ids) /\ ToSet(m) \in SUBSET Ids
  BY ListMembers
<1> DEFINE ring == RingOf(m)
<1>3. /\ DOMAIN ring = 1..Len(ring)
      /\ \A n \in 1..Len(ring) : \E id \in ToSet(m), v \in VirtualNodes : ring[n] = Place(NodeHash[<<id, v>>], id)
  BY <1>2, RingPlaces
<1>4. \A id \in Ids, v \in VirtualNodes : Place(NodeHash[<<id, v>>], id) \in [hash : 0..(Modulus - 1), id : Ids]
  BY HashAssumption DEF Place
<1> HIDE DEF ring
<1>5. ASSUME NEW n \in DOMAIN ring PROVE ring[n] \in [hash : 0..(Modulus - 1), id : Ids]
  <2>1. PICK id \in ToSet(m), v \in VirtualNodes : ring[n] = Place(NodeHash[<<id, v>>], id)
    BY <1>3, Zenon
  <2>2. id \in Ids
    BY <1>2
  <2> QED BY <1>4, <2>1, <2>2, Zenon
<1> QED BY <1>1, <1>5 DEF ToSet, ring

\* A service has a selector of one kind, which steps as that kind does or not at all.
LEMMA OneKind ==
    /\ Init => P2CInit /\ WRRInit /\ RingInit /\ RRInit
    /\ [Next]_vars => [P2CNext]_p2cVars /\ [WRRNext]_wrrVars /\ [RingNext]_ringVars /\ [RRNext]_rrVars
<1>1. Init => P2CInit /\ WRRInit /\ RingInit /\ RRInit
  BY DEF Init
<1>2. UNCHANGED vars => UNCHANGED p2cVars /\ UNCHANGED wrrVars /\ UNCHANGED ringVars /\ UNCHANGED rrVars
  BY DEF vars
<1>3. Next => [P2CNext]_p2cVars /\ [WRRNext]_wrrVars /\ [RingNext]_ringVars /\ [RRNext]_rrVars
  BY DEF Next
<1> QED BY <1>1, <1>2, <1>3

LEMMA Kinds == Spec => P2CSpec /\ WRRSpec /\ RingSpec /\ RRSpec
  BY OneKind, PTL DEF Spec, P2CSpec, WRRSpec, RingSpec, RRSpec

\* Every variable of every kind of selector keeps its type.
THEOREM SelectorsTypeCorrect == Spec => []TypeOK
<1>1. Spec => [](selector \in {"p2c", "weighted", "ring", "roundrobin"})
  <2>1. Init => selector \in {"p2c", "weighted", "ring", "roundrobin"}
    BY DEF Init
  <2>2. selector \in {"p2c", "weighted", "ring", "roundrobin"} /\ [Next]_vars
            => (selector \in {"p2c", "weighted", "ring", "roundrobin"})'
    BY DEF Next, vars
  <2> QED BY <2>1, <2>2, PTL DEF Spec
<1>2. Spec => []WRRTypeOK
  <2>1. WRRInv => WRRTypeOK
    BY DEF WRRInv
  <2> QED BY <2>1, Kinds, WRRInvInit, WRRInvStep, PTL DEF WRRSpec
<1>3. Spec => []RingTypeOK
  BY RingTypes, Kinds, RingShapeInit, RingShapeStep, PTL DEF RingSpec
<1>4. Spec => []RRTypeOK
  <2>1. RRInv => RRTypeOK
    BY DEF RRInv
  <2> QED BY <2>1, Kinds, RRInvInit, RRInvStep, PTL DEF RRSpec
<1>5. Spec => []P2CTypeOK
  BY Kinds, P2CTypeCorrect, PTL
<1> QED BY <1>1, <1>2, <1>3, <1>4, <1>5, PTL DEF TypeOK

\* The selector of a service keeps what its kind promises.
THEOREM SelectorsKeepPromises ==
    ASSUME FingerprintsTell
    PROVE  Spec => [](InFlightIsGuards /\ BusiestLoses /\ Proportional /\ OwnerServes
                          /\ OnlyNewcomerGains /\ Rotation)
  BY Kinds, GuardsBalance, BusiestIsNotChosen, ChosenByWeight, KeyHasItsOwner, NewcomersAlone,
     EachInTurn, PTL
=============================================================================
