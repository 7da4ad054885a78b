---------------------------- MODULE CloseLemmas ----------------------------
(***************************************************************************)
(* Gathering the nodes of a table: Table_ForEachNode visits each of them   *)
(* once, and Table_GatherClosest finds the K closest of them, sorted.      *)
(***************************************************************************)
EXTENDS TableLemmas

(* R is a strict total order of S. *)
IsOrder(S, R) ==
    /\ \A p \in S : <<p, p>> \notin R
    /\ \A p, q, r \in S : <<p, q>> \in R /\ <<q, r>> \in R => <<p, r>> \in R
    /\ \A p, q \in S : p = q \/ <<p, q>> \in R \/ <<q, p>> \in R

(* How many elements of S come before p. *)
Rank(S, R, p) == Cardinality({q \in S : <<q, p>> \in R})

(* Elements of a finite ordered set have the ranks 0 .. n - 1, one each. *)
LEMMA RankOK ==
    ASSUME NEW S, IsFiniteSet(S), NEW R, IsOrder(S, R)
    PROVE  /\ Cardinality(S) \in Nat
           /\ \A p \in S : Rank(S, R, p) \in 0 .. Cardinality(S) - 1
           /\ \A p, q \in S : Rank(S, R, p) = Rank(S, R, q) => p = q
           /\ \A i \in 0 .. Cardinality(S) - 1 : \E p \in S : Rank(S, R, p) = i
<1> DEFINE Before(p) == {q \in S : <<q, p>> \in R}
           n == Cardinality(S)
<1>1. n \in Nat
  BY FS_CardinalityType
<1>2. ASSUME NEW p \in S
      PROVE  /\ Before(p) \in SUBSET S /\ Before(p) # S
             /\ IsFiniteSet(Before(p))
             /\ Cardinality(Before(p)) \in Nat
             /\ Cardinality(Before(p)) \in 0 .. n - 1
             /\ Rank(S, R, p) = Cardinality(Before(p))
  <2>1. Before(p) \in SUBSET S /\ p \notin Before(p)
    BY DEF IsOrder
  <2>2. /\ IsFiniteSet(Before(p)) /\ Cardinality(Before(p)) <= n
        /\ (n = Cardinality(Before(p)) => S = Before(p))
    BY <2>1, FS_Subset
  <2>3. Cardinality(Before(p)) \in Nat
    BY <2>2, FS_CardinalityType
  <2>4. Rank(S, R, p) = Cardinality(Before(p))
    BY DEF Rank
  <2> QED
    BY <1>1, <2>1, <2>2, <2>3, <2>4
<1>3. ASSUME NEW p \in S, NEW q \in S, <<p, q>> \in R
      PROVE  Rank(S, R, p) < Rank(S, R, q)
  <2>1. Before(p) \in SUBSET Before(q)
    BY <1>3 DEF IsOrder
  <2>2. p \in Before(q) /\ p \notin Before(p)
    BY <1>3 DEF IsOrder
  <2> HIDE DEF Before
  <2>3. /\ IsFiniteSet(Before(q))
        /\ Cardinality(Before(p)) \in Nat /\ Cardinality(Before(q)) \in Nat
        /\ Rank(S, R, p) = Cardinality(Before(p))
        /\ Rank(S, R, q) = Cardinality(Before(q))
    BY <1>2
  <2>4. /\ Cardinality(Before(p)) <= Cardinality(Before(q))
        /\ Cardinality(Before(p)) # Cardinality(Before(q))
    BY <2>1, <2>2, <2>3, FS_Subset
  <2> QED
    BY <2>3, <2>4
<1>4. \A p \in S : Rank(S, R, p) \in 0 .. n - 1
  BY <1>2
<1>5. ASSUME NEW p \in S, NEW q \in S, Rank(S, R, p) = Rank(S, R, q)
      PROVE  p = q
  <2>1. Rank(S, R, p) \in Nat /\ Rank(S, R, q) \in Nat
    BY <1>1, <1>4
  <2>2. <<p, q>> \notin R /\ <<q, p>> \notin R
    BY <1>3, <1>5, <2>1
  <2> QED
    BY <2>2 DEF IsOrder
<1>6. \A i \in 0 .. n - 1 : \E p \in S : Rank(S, R, p) = i
  <2> DEFINE f == [p \in S |-> Rank(S, R, p)]
             T == 0 .. n - 1
  <2>1. f \in [S -> T] /\ \A p, q \in S : f[p] = f[q] => p = q
    BY <1>4, <1>5
  <2>2. f \in Injection(S, T)
    BY <2>1 DEF Injection, IsInjective
  <2>3. IsFiniteSet(T) /\ Cardinality(T) = n
    BY <1>1, FS_Interval
  <2>4. f \in Surjection(S, T)
    BY <2>2, <2>3, FS_Injection
  <2> QED
    BY <2>4 DEF Surjection
<1> QED
  BY <1>1, <1>4, <1>5, <1>6

(* The sequence that Sorted makes of S. *)
InOrder(S, R) ==
    [i \in 1 .. Cardinality(S) |-> CHOOSE p \in S : Rank(S, R, p) = i - 1]

(* It has every element once, each at its rank. *)
LEMMA InOrderOK ==
    ASSUME NEW S, IsFiniteSet(S), NEW R, IsOrder(S, R)
    PROVE  LET f == InOrder(S, R)
               n == Cardinality(S)
           IN  /\ n \in Nat
               /\ f \in [1 .. n -> S]
               /\ f \in Seq(S) /\ Len(f) = n
               /\ \A i \in 1 .. n : Rank(S, R, f[i]) = i - 1
               /\ \A i, j \in 1 .. n : f[i] = f[j] => i = j
               /\ \A p \in S : \E i \in 1 .. n : f[i] = p
<1> DEFINE f == InOrder(S, R)
           n == Cardinality(S)
<1>1. n \in Nat
  BY RankOK
<1>2. ASSUME NEW i \in 1 .. n PROVE f[i] \in S /\ Rank(S, R, f[i]) = i - 1
  <2>1. i - 1 \in 0 .. n - 1
    BY <1>1
  <2>2. \E p \in S : Rank(S, R, p) = i - 1
    BY <2>1, RankOK
  <2> QED
    BY <2>2 DEF InOrder
<1>3. f \in [1 .. n -> S]
  BY <1>2 DEF InOrder
<1> HIDE DEF n, f
<1>4. f \in Seq(S) /\ Len(f) = n
  BY <1>1, <1>3, FunctionIsSeq
<1>5. ASSUME NEW i \in 1 .. n, NEW j \in 1 .. n, f[i] = f[j] PROVE i = j
  BY <1>1, <1>2, <1>5
<1>6. ASSUME NEW p \in S PROVE \E i \in 1 .. n : f[i] = p
  <2>1. Rank(S, R, p) \in 0 .. n - 1
    BY RankOK DEF n
  <2> DEFINE i == Rank(S, R, p) + 1
  <2>2. i \in 1 .. n /\ i - 1 = Rank(S, R, p)
    BY <1>1, <2>1
  <2>3. f[i] \in S /\ Rank(S, R, f[i]) = Rank(S, R, p)
    BY <1>2, <2>2
  <2>4. f[i] = p
    BY <2>3, RankOK
  <2> QED
    BY <2>2, <2>4 DEF InOrder
<1> QED
  BY <1>1, <1>2, <1>3, <1>4, <1>5, <1>6 DEF n, f

-----------------------------------------------------------------------------
(* Distances are ordered by their first difference. *)
LEMMA DistanceOrder ==
    ASSUME NEW a \in Hashes, NEW b \in Hashes, NEW c \in Hashes
    PROVE  /\ ~Distance_Less(a, a)
           /\ Distance_Less(a, b) /\ Distance_Less(b, c) => Distance_Less(a, c)
           /\ a = b \/ Distance_Less(a, b) \/ Distance_Less(b, a)
<1>1. /\ \A i \in BitPositions : i \in Nat /\ i >= 1
      /\ \A i \in BitPositions : \A j \in 1 .. i - 1 : j \in BitPositions
      /\ \A i \in BitPositions : a[i] \in {0, 1} /\ b[i] \in {0, 1} /\ c[i] \in {0, 1}
  BY HashBitsAssumption DEF BitPositions, Hashes
<1>2. ~Distance_Less(a, a)
  BY <1>1 DEF Distance_Less
<1>3. ASSUME Distance_Less(a, b), Distance_Less(b, c) PROVE Distance_Less(a, c)
  <2>1. PICK i \in BitPositions : a[i] < b[i] /\ \A j \in 1 .. i - 1 : a[j] = b[j]
    BY <1>3 DEF Distance_Less
  <2>2. PICK k \in BitPositions : b[k] < c[k] /\ \A j \in 1 .. k - 1 : b[j] = c[j]
    BY <1>3 DEF Distance_Less
  <2>3. CASE i <= k
    <3>1. a[i] < c[i]
      <4>1. CASE i = k
        BY <1>1, <2>1, <2>2, <4>1
      <4>2. CASE i < k
        <5>1. i \in 1 .. k - 1
          BY <1>1, <4>2
        <5> QED
          BY <2>1, <2>2, <5>1
      <4> QED
        BY <1>1, <2>3, <4>1, <4>2
    <3>2. \A j \in 1 .. i - 1 : a[j] = c[j]
      <4>1. \A j \in 1 .. i - 1 : j \in 1 .. k - 1
        BY <1>1, <2>3
      <4> QED
        BY <2>1, <2>2, <4>1
    <3> QED
      BY <3>1, <3>2 DEF Distance_Less
  <2>4. CASE k < i
    <3>1. k \in 1 .. i - 1
      BY <1>1, <2>4
    <3>2. a[k] < c[k]
      BY <2>1, <2>2, <3>1
    <3>3. \A j \in 1 .. k - 1 : j \in 1 .. i - 1
      BY <1>1, <2>4
    <3>4. \A j \in 1 .. k - 1 : a[j] = c[j]
      BY <2>1, <2>2, <3>3
    <3> QED
      BY <3>2, <3>4 DEF Distance_Less
  <2> QED
    BY <1>1, <2>3, <2>4
<1>4. ASSUME a # b PROVE Distance_Less(a, b) \/ Distance_Less(b, a)
  <2> DEFINE D == {i \in BitPositions : a[i] # b[i]}
  <2>1. D # {}
    BY <1>4 DEF Hashes
  <2>2. D \in SUBSET Nat
    BY <1>1
  <2>3. PICK m \in D : \A k \in D : m <= k
    BY <2>1, <2>2, LeastNatural
  <2>4. \A j \in 1 .. m - 1 : a[j] = b[j]
    <3> SUFFICES ASSUME NEW j \in 1 .. m - 1, a[j] # b[j] PROVE FALSE
      OBVIOUS
    <3>1. j \in D
      BY <1>1
    <3> QED
      BY <1>1, <2>3, <3>1
  <2>5. a[m] < b[m] \/ b[m] < a[m]
    BY <1>1
  <2> QED
    BY <2>4, <2>5 DEF Distance_Less
<1> QED
  BY <1>2, <1>3, <1>4

(* Different ids have different distances from an id. *)
LEMMA DistanceInjective ==
    ASSUME NEW id \in Hashes, NEW a \in Hashes, NEW b \in Hashes
    PROVE  /\ Hash_Distance(id, a) \in Hashes
           /\ Hash_Distance(id, a) = Hash_Distance(id, b) => a = b
<1>1. Hash_Distance(id, a) \in Hashes
  BY DEF Hash_Distance, Hashes
<1>2. ASSUME Hash_Distance(id, a) = Hash_Distance(id, b) PROVE a = b
  <2> SUFFICES ASSUME NEW i \in BitPositions PROVE a[i] = b[i]
    BY DEF Hashes
  <2>1. Hash_Distance(id, a)[i] = Hash_Distance(id, b)[i]
    BY <1>2
  <2>2. id[i] \in {0, 1} /\ a[i] \in {0, 1} /\ b[i] \in {0, 1}
    BY DEF Hashes
  <2>3. (id[i] = a[i]) <=> (id[i] = b[i])
    BY <2>1 DEF Hash_Distance
  <2> QED
    BY <2>2, <2>3
<1> QED
  BY <1>1, <1>2

-----------------------------------------------------------------------------
(* The places of a well-formed table are finitely many, and hold one node  *)
(* for each of their ids.                                                  *)
LEMMA PlacesOK ==
    ASSUME NEW t, WellFormed(t)
    PROVE  /\ IsFiniteSet(Places(t))
           /\ \A p \in Places(t) :
                 /\ p \in BucketIndexes \X Slots
                 /\ p[1] \in 0 .. t.end - 1
                 /\ p[2] \in Occupied(t.buckets[p[1]])
                 /\ NodeAt(t, p) \in Node /\ NodeAt(t, p).id \in Hashes
                 /\ Table_FindBucket(t, NodeAt(t, p).id) = p[1]
           /\ \A p, q \in Places(t) :
                 NodeAt(t, p).id = NodeAt(t, q).id => p = q
<1>1. IsFiniteSet(Places(t))
  <2>1. MaxBuckets - 1 \in Int /\ K - 1 \in Int
    BY TableAssumption, HashBitsAssumption DEF MaxBuckets
  <2>2. IsFiniteSet(BucketIndexes) /\ IsFiniteSet(Slots)
    BY <2>1, FS_Interval DEF BucketIndexes, Slots
  <2>3. IsFiniteSet(BucketIndexes \X Slots)
    BY <2>2, FS_Product
  <2>4. Places(t) \in SUBSET (BucketIndexes \X Slots)
    BY DEF Places
  <2> QED
    BY <2>3, <2>4, FS_Subset
<1>2. ASSUME NEW p \in Places(t)
      PROVE  /\ p \in BucketIndexes \X Slots
             /\ p[1] \in 0 .. t.end - 1
             /\ p[2] \in Occupied(t.buckets[p[1]])
             /\ NodeAt(t, p) \in Node /\ NodeAt(t, p).id \in Hashes
             /\ Table_FindBucket(t, NodeAt(t, p).id) = p[1]
  <2>1. /\ p \in BucketIndexes \X Slots
        /\ p[1] \in 0 .. t.end - 1
        /\ p[2] \in Occupied(t.buckets[p[1]])
    BY DEF Places, BucketIndexes, Occupied, WellFormed, IsTable
  <2>2. t.buckets[p[1]] \in Bucket
    BY <2>1 DEF WellFormed, BucketOK
  <2>3. NodeAt(t, p) \in Node
    BY <2>1, <2>2 DEF Bucket, Occupied, NodeAt
  <2>4. NodeAt(t, p).id \in Hashes
    BY <2>3 DEF Node
  <2>5. Table_FindBucket(t, NodeAt(t, p).id) = p[1]
    BY <2>1 DEF WellFormed, InPlace, NodeAt
  <2> QED
    BY <2>1, <2>3, <2>4, <2>5
<1>3. ASSUME NEW p \in Places(t), NEW q \in Places(t),
             NodeAt(t, p).id = NodeAt(t, q).id
      PROVE  p = q
  <2>1. p[1] = q[1]
    BY <1>2, <1>3
  <2>2. p[2] = q[2]
    <3>1. BucketOK(t.buckets[p[1]])
      BY <1>2 DEF WellFormed
    <3>2. /\ p[2] \in Occupied(t.buckets[p[1]])
          /\ q[2] \in Occupied(t.buckets[p[1]])
      BY <1>2, <2>1
    <3>3. t.buckets[p[1]].nodes[p[2]].id = t.buckets[p[1]].nodes[q[2]].id
      BY <1>3, <2>1 DEF NodeAt
    <3> QED
      BY ONLY <3>1, <3>2, <3>3 DEF BucketOK
  <2>3. p \in BucketIndexes \X Slots /\ q \in BucketIndexes \X Slots
    BY <1>2
  <2> QED
    BY <2>1, <2>2, <2>3
<1> QED
  BY <1>1, <1>2, <1>3

(* The order of Table_ForEachNode, and that of the distances from an id. *)
Visiting(t) ==
    {pq \in Places(t) \X Places(t) :
        \/ pq[1][1] < pq[2][1]
        \/ pq[1][1] = pq[2][1] /\ pq[1][2] < pq[2][2]}

Closeness(t, id) ==
    {pq \in Places(t) \X Places(t) : Closer(t, id, pq[1], pq[2])}

(* Table_ForEachNode visits every node once. *)
LEMMA ForEachNodeOK ==
    ASSUME NEW t, WellFormed(t)
    PROVE  LET seq == Table_ForEachNode(t)
               n == Cardinality(Places(t))
           IN  /\ n \in Nat
               /\ seq \in [1 .. n -> Places(t)]
               /\ seq \in Seq(Places(t)) /\ Len(seq) = n
               /\ \A i, j \in 1 .. n : seq[i] = seq[j] => i = j
               /\ \A p \in Places(t) : \E i \in 1 .. n : seq[i] = p
<1> DEFINE S == Places(t)
           R == Visiting(t)
<1>1. \A p \in S : p \in BucketIndexes \X Slots /\ p[1] \in Int /\ p[2] \in Int
  BY PlacesOK DEF BucketIndexes, Slots
<1>2. \A p, q \in S : <<p, q>> \in R <=> \/ p[1] < q[1]
                                         \/ p[1] = q[1] /\ p[2] < q[2]
  BY DEF Visiting
<1>3. IsOrder(S, R)
  <2> HIDE DEF S, R
  <2>1. \A p \in S : <<p, p>> \notin R
    BY <1>1, <1>2
  <2>2. \A p, q, r \in S : <<p, q>> \in R /\ <<q, r>> \in R => <<p, r>> \in R
    BY <1>1, <1>2
  <2>3. ASSUME NEW p \in S, NEW q \in S,
               <<p, q>> \notin R, <<q, p>> \notin R
        PROVE  p = q
    <3>1. p[1] = q[1] /\ p[2] = q[2]
      BY <1>1, <1>2, <2>3
    <3>2. p \in BucketIndexes \X Slots /\ q \in BucketIndexes \X Slots
      BY <1>1
    <3> QED
      BY <3>1, <3>2
  <2> QED
    BY <2>1, <2>2, <2>3 DEF IsOrder
<1>4. IsFiniteSet(S)
  BY PlacesOK
<1>5. Table_ForEachNode(t) = InOrder(S, R)
  <2> DEFINE Less(p, q) == \/ p[1] < q[1]
                           \/ p[1] = q[1] /\ p[2] < q[2]
  <2>1. \A p \in S : {q \in S : Less(q, p)} = {q \in S : <<q, p>> \in R}
    BY <1>2
  <2>2. Table_ForEachNode(t)
          = [i \in 1 .. Cardinality(S) |->
                CHOOSE p \in S : Cardinality({q \in S : Less(q, p)}) = i - 1]
    BY DEF Table_ForEachNode, Sorted
  <2> HIDE DEF S, R, Less
  <2>3. \A p \in S : Cardinality({q \in S : Less(q, p)}) = Rank(S, R, p)
    BY <2>1 DEF Rank
  <2>4. \A i : (CHOOSE p \in S : Cardinality({q \in S : Less(q, p)}) = i - 1)
                 = CHOOSE p \in S : Rank(S, R, p) = i - 1
    BY <2>3
  <2> QED
    BY <2>2, <2>4 DEF InOrder
<1> DEFINE f == InOrder(S, R)
           n == Cardinality(S)
<1>6. /\ n \in Nat
      /\ f \in [1 .. n -> S]
      /\ f \in Seq(S) /\ Len(f) = n
      /\ \A i, j \in 1 .. n : f[i] = f[j] => i = j
      /\ \A p \in S : \E i \in 1 .. n : f[i] = p
  <2> HIDE DEF S, R
  <2> QED
    BY <1>3, <1>4, InOrderOK
<1> HIDE DEF f
<1> QED
  BY <1>5, <1>6 DEF f

(* Nodes are ordered by their distances from an id. *)
LEMMA ClosenessOK ==
    ASSUME NEW t, WellFormed(t), NEW id \in Hashes
    PROVE  IsOrder(Places(t), Closeness(t, id))
<1> DEFINE S == Places(t)
           R == Closeness(t, id)
           Far(p) == Hash_Distance(id, NodeAt(t, p).id)
<1>1. \A p \in S : NodeAt(t, p).id \in Hashes /\ Far(p) \in Hashes
  BY PlacesOK, DistanceInjective
<1>2. \A p, q \in S : Far(p) = Far(q) => p = q
  BY PlacesOK, DistanceInjective
<1>3. \A p, q \in S : <<p, q>> \in R <=> Distance_Less(Far(p), Far(q))
  BY DEF Closeness, Closer
<1> HIDE DEF S, R, Far
<1>4. \A p \in S : <<p, p>> \notin R
  BY <1>1, <1>3, DistanceOrder
<1>5. \A p, q, r \in S : <<p, q>> \in R /\ <<q, r>> \in R => <<p, r>> \in R
  BY <1>1, <1>3, DistanceOrder
<1>6. \A p, q \in S : p = q \/ <<p, q>> \in R \/ <<q, p>> \in R
  BY <1>1, <1>2, <1>3, DistanceOrder
<1>7. IsOrder(S, R)
  BY <1>4, <1>5, <1>6 DEF IsOrder
<1> QED
  BY <1>7 DEF S, R

-----------------------------------------------------------------------------
(* CloseNodes_Add puts p before the first node that is not closer, if that *)
(* is among the first K, and moves the ones behind up.                     *)
LEMMA CloseAddOK ==
    ASSUME NEW t, NEW id, NEW P, NEW c \in Seq(P), Len(c) <= K, NEW p \in P
    PROVE  LET i   == FindIndex(t, id, c, p)
               new == CloseNodes_Add(t, id, c, p)
               len == IF Len(c) < K THEN Len(c) + 1 ELSE K
           IN  \/ /\ new = c /\ Len(c) = K
                  /\ \A j \in 1 .. K : Closer(t, id, c[j], p)
               \/ /\ i \in 1 .. len
                  /\ \A j \in 1 .. i - 1 : j <= Len(c) /\ Closer(t, id, c[j], p)
                  /\ i <= Len(c) => ~Closer(t, id, c[i], p)
                  /\ new \in Seq(P) /\ Len(new) = len
                  /\ \A j \in 1 .. len :
                        new[j] = IF j < i THEN c[j]
                                 ELSE IF j = i THEN p ELSE c[j - 1]
<1> DEFINE Fits(i) == i > Len(c) \/ ~Closer(t, id, c[i], p)
           i == FindIndex(t, id, c, p)
           new == CloseNodes_Add(t, id, c, p)
           grown == IF Len(c) < K THEN Append(c, NULL) ELSE c
           len == IF Len(c) < K THEN Len(c) + 1 ELSE K
           F == {k \in 1 .. K : Fits(k)}
<1>0. \A m, n \in Nat : m <= n /\ n <= m => m = n
  OBVIOUS
<1>1. /\ K \in Nat \ {0} /\ Len(c) \in Nat /\ len \in Nat /\ len <= K
      /\ K \in Nat /\ Len(c) <= K
      /\ DOMAIN c = 1 .. Len(c) /\ \A k \in 1 .. Len(c) : c[k] \in P
  BY TableAssumption
<1>2. i = IF \E k \in 1 .. K : Fits(k) THEN First(F) ELSE 0
  BY DEF FindIndex
<1>3. /\ DOMAIN grown = 1 .. len
      /\ \A k \in 1 .. Len(c) : grown[k] = c[k]
  <2>1. CASE Len(c) < K
    <3>1. c \in Seq(P \cup {NULL})
      BY SeqMonotonic
    <3>2. /\ Append(c, NULL) \in Seq(P \cup {NULL})
          /\ Len(Append(c, NULL)) = Len(c) + 1
          /\ \A k \in 1 .. Len(c) : Append(c, NULL)[k] = c[k]
      BY <3>1, AppendProperties
    <3>3. DOMAIN Append(c, NULL) = 1 .. Len(c) + 1
      BY <3>2, LenProperties
    <3> QED
      BY <2>1, <3>2, <3>3
  <2>2. CASE ~(Len(c) < K)
    <3>1. Len(c) = K
      <4>1. K <= Len(c)
        BY <1>1, <2>2
      <4> QED
        BY <1>0, <1>1, <4>1
    <3>2. grown = c /\ len = Len(c)
      BY <2>2, <3>1
    <3> HIDE DEF grown, len
    <3> QED
      BY <1>1, <3>2
  <2> QED
    BY <2>1, <2>2
<1>4. new = IF i = 0 THEN c
            ELSE [j \in DOMAIN grown |-> IF j = i THEN p ELSE ShiftFrom(grown, i)[j]]
  BY DEF CloseNodes_Add
<1> HIDE DEF i, new, grown
<1>5. CASE \E k \in 1 .. K : Fits(k)
  <2>1. F \in SUBSET Nat /\ F # {}
    BY <1>1, <1>5
  <2>2. i = First(F)
    BY <1>2, <1>5
  <2> HIDE DEF F
  <2>3. i \in F /\ \A k \in F : i <= k
    BY <2>1, <2>2, FirstIsLeast
  <2>4. i \in 1 .. K /\ Fits(i) /\ \A k \in 1 .. K : Fits(k) => i <= k
    BY <2>3 DEF F
  <2>5. i \in 1 .. len
    <3>1. CASE Len(c) < K
      <4>1. Len(c) + 1 \in 1 .. K /\ Fits(Len(c) + 1)
        BY <1>1, <3>1
      <4> HIDE DEF Fits
      <4> QED
        BY <1>1, <2>4, <3>1, <4>1
    <3>2. CASE ~(Len(c) < K)
      BY <2>4, <3>2
    <3> QED
      BY <3>1, <3>2
  <2>6. \A j \in 1 .. i - 1 : j <= Len(c) /\ Closer(t, id, c[j], p)
    <3> SUFFICES ASSUME NEW j \in 1 .. i - 1
                 PROVE  j <= Len(c) /\ Closer(t, id, c[j], p)
      OBVIOUS
    <3>1. j \in 1 .. K /\ ~(i <= j)
      BY <1>1, <2>4
    <3>2. ~Fits(j)
      BY <2>4, <3>1
    <3> QED
      BY <1>1, <3>1, <3>2
  <2>7. i <= Len(c) => ~Closer(t, id, c[i], p)
    BY <1>1, <2>4
  <2> HIDE DEF Fits
  <2>8. new = [j \in 1 .. len |-> IF j = i THEN p ELSE ShiftFrom(grown, i)[j]]
    BY <1>1, <1>3, <1>4, <2>4
  <2>9. \A j \in 1 .. len :
            ShiftFrom(grown, i)[j] = IF j > i THEN grown[j - 1] ELSE grown[j]
    BY <1>3 DEF ShiftFrom
  <2>10. ASSUME NEW j \in 1 .. len
         PROVE  /\ new[j] = IF j < i THEN c[j] ELSE IF j = i THEN p ELSE c[j - 1]
                /\ new[j] \in P
    <3>1. CASE j = i
      BY <2>8, <3>1
    <3>2. CASE j < i
      <4>1. j \in 1 .. Len(c)
        BY <1>1, <2>5, <2>6, <3>2
      <4> QED
        BY <1>1, <1>3, <2>5, <2>8, <2>9, <3>2, <4>1
    <3>3. CASE j > i
      <4>1. j - 1 \in 1 .. Len(c)
        BY <1>1, <2>5, <3>3
      <4> QED
        BY <1>1, <1>3, <2>5, <2>8, <2>9, <3>3, <4>1
    <3> QED
      BY <1>1, <2>5, <3>1, <3>2, <3>3
  <2>11. new \in Seq(P) /\ Len(new) = len
    <3>1. new \in [1 .. len -> P]
      BY <2>8, <2>10
    <3> QED
      BY <1>1, <3>1, FunctionIsSeq
  <2>12. \A j \in 1 .. len :
             new[j] = IF j < i THEN c[j] ELSE IF j = i THEN p ELSE c[j - 1]
    BY <2>10
  <2> HIDE DEF len
  <2> QED
    BY <2>5, <2>6, <2>7, <2>11, <2>12 DEF i, new, len
<1>6. CASE ~ \E k \in 1 .. K : Fits(k)
  <2>1. i = 0 /\ new = c
    BY <1>2, <1>4, <1>6
  <2>2. \A j \in 1 .. K : j <= Len(c) /\ Closer(t, id, c[j], p)
    BY <1>1, <1>6
  <2>3. Len(c) = K
    <3>1. K \in 1 .. K
      BY <1>1
    <3>2. K <= Len(c)
      BY <2>2, <3>1
    <3> QED
      BY <1>0, <1>1, <3>2
  <2> QED
    BY <2>1, <2>2, <2>3 DEF i, new
<1> QED
  BY <1>5, <1>6

(* The invariant of the loop of Table_GatherClosest: after k nodes, c has  *)
(* some of them, sorted, and none of the others is closer than any of c,   *)
(* which is then full.                                                     *)
Gathered(t, id, k, c) ==
    LET seq == Table_ForEachNode(t)
    IN  /\ c \in Seq(Places(t)) /\ Len(c) <= K
        /\ \A i, j \in 1 .. Len(c) : i < j => Closer(t, id, c[i], c[j])
        /\ \A i \in 1 .. Len(c) : \E m \in 1 .. k : c[i] = seq[m]
        /\ \A m \in 1 .. k :
              \/ \E i \in 1 .. Len(c) : c[i] = seq[m]
              \/ /\ Len(c) = K
                 /\ \A i \in 1 .. K : Closer(t, id, c[i], seq[m])

(* One turn of that loop keeps it. *)
LEMMA GatherStep ==
    ASSUME NEW t, WellFormed(t), NEW id \in Hashes,
           NEW k \in 1 .. Cardinality(Places(t)), NEW c, Gathered(t, id, k - 1, c)
    PROVE  Gathered(t, id, k, CloseNodes_Add(t, id, c, Table_ForEachNode(t)[k]))
<1> DEFINE S == Places(t)
           seq == Table_ForEachNode(t)
           Less(p, q) == Closer(t, id, p, q)
           p == seq[k]
           i == FindIndex(t, id, c, p)
           new == CloseNodes_Add(t, id, c, p)
           len == IF Len(c) < K THEN Len(c) + 1 ELSE K
           n == Cardinality(S)
<1>1. /\ n \in Nat /\ k \in 1 .. n
      /\ \A m \in 1 .. n : seq[m] \in S
      /\ \A m, l \in 1 .. n : seq[m] = seq[l] => m = l
      /\ p \in S
  BY ForEachNodeOK
<1>2. \A q \in S : ~Less(q, q)
  <2>1. IsOrder(S, Closeness(t, id))
    BY ClosenessOK
  <2> QED
    BY <2>1 DEF IsOrder, Closeness
<1>3. \A q, r, s \in S : Less(q, r) /\ Less(r, s) => Less(q, s)
  <2>1. IsOrder(S, Closeness(t, id))
    BY ClosenessOK
  <2> QED
    BY <2>1 DEF IsOrder, Closeness
<1>4. \A q, r \in S : q = r \/ Less(q, r) \/ Less(r, q)
  <2>1. IsOrder(S, Closeness(t, id))
    BY ClosenessOK
  <2> QED
    BY <2>1 DEF IsOrder, Closeness
<1>5. /\ c \in Seq(S) /\ Len(c) <= K
      /\ \A j, l \in 1 .. Len(c) : j < l => Less(c[j], c[l])
      /\ \A j \in 1 .. Len(c) : \E m \in 1 .. k - 1 : c[j] = seq[m]
      /\ \A m \in 1 .. k - 1 :
            \/ \E j \in 1 .. Len(c) : c[j] = seq[m]
            \/ Len(c) = K /\ \A j \in 1 .. K : Less(c[j], seq[m])
  BY DEF Gathered
<1>6. K \in Nat /\ K >= 1 /\ Len(c) \in Nat /\ len \in Nat /\ len <= K
  BY <1>5, TableAssumption
<1>7. \A j \in 1 .. Len(c) : c[j] \in S /\ c[j] # p
  <2> SUFFICES ASSUME NEW j \in 1 .. Len(c) PROVE c[j] \in S /\ c[j] # p
    OBVIOUS
  <2>1. PICK m \in 1 .. k - 1 : c[j] = seq[m]
    BY <1>5
  <2>2. m \in 1 .. n /\ m # k
    BY <1>1
  <2> HIDE DEF seq, n, S
  <2> QED
    BY <1>1, <2>1, <2>2
<1>8. \/ /\ new = c /\ Len(c) = K
         /\ \A j \in 1 .. K : Less(c[j], p)
      \/ /\ i \in 1 .. len
         /\ \A j \in 1 .. i - 1 : j <= Len(c) /\ Less(c[j], p)
         /\ i <= Len(c) => ~Less(c[i], p)
         /\ new \in Seq(S) /\ Len(new) = len
         /\ \A j \in 1 .. len :
               new[j] = IF j < i THEN c[j] ELSE IF j = i THEN p ELSE c[j - 1]
  <2> HIDE DEF S, p
  <2> QED
    BY <1>1, <1>5, CloseAddOK
<1> SUFFICES Gathered(t, id, k, new)
  OBVIOUS
<1> HIDE DEF S, seq, Less, p, i, new, n
<1>9. CASE new = c /\ Len(c) = K /\ \A j \in 1 .. K : Less(c[j], p)
  <2>1. \A j \in 1 .. Len(c) : \E m \in 1 .. k : c[j] = seq[m]
    <3>1. \A m \in 1 .. k - 1 : m \in 1 .. k
      BY <1>1
    <3> QED
      BY <1>5, <3>1
  <2>2. ASSUME NEW m \in 1 .. k
        PROVE  \/ \E j \in 1 .. Len(c) : c[j] = seq[m]
               \/ Len(c) = K /\ \A j \in 1 .. K : Less(c[j], seq[m])
    <3>1. CASE m = k
      BY <1>9, <3>1 DEF p
    <3>2. CASE m # k
      <4>1. m \in 1 .. k - 1
        BY <1>1, <3>2
      <4> QED
        BY <1>5, <4>1
    <3> QED
      BY <3>1, <3>2
  <2> QED
    BY <1>5, <1>9, <2>1, <2>2 DEF Gathered, S, seq, Less
<1>10. CASE /\ i \in 1 .. len
            /\ \A j \in 1 .. i - 1 : j <= Len(c) /\ Less(c[j], p)
            /\ i <= Len(c) => ~Less(c[i], p)
            /\ new \in Seq(S) /\ Len(new) = len
            /\ \A j \in 1 .. len :
                  new[j] = IF j < i THEN c[j] ELSE IF j = i THEN p ELSE c[j - 1]
  <2>1. \A j \in 1 .. len : (j < i => j \in 1 .. Len(c))
                            /\ (j > i => j - 1 \in 1 .. Len(c))
    BY <1>6, <1>10
  (* What is at i and behind it is farther than p. *)
  <2>2. ASSUME NEW j \in 1 .. Len(c), i <= j PROVE Less(p, c[j])
    <3>1. i \in 1 .. Len(c)
      BY <1>6, <1>10, <2>2
    <3>2. Less(p, c[i])
      BY <1>1, <1>4, <1>7, <1>10, <3>1
    <3>3. CASE i = j
      BY <3>2, <3>3
    <3>4. CASE i < j
      <4>1. Less(c[i], c[j])
        BY <1>5, <3>1, <3>4
      <4> QED
        BY <1>1, <1>3, <1>7, <3>1, <3>2, <4>1
    <3> QED
      BY <1>6, <1>10, <2>2, <3>3, <3>4
  <2>3. ASSUME NEW j \in 1 .. len, NEW l \in 1 .. len, j < l
        PROVE  Less(new[j], new[l])
    <3>1. CASE l < i
      <4>1. j < i /\ j \in 1 .. Len(c) /\ l \in 1 .. Len(c)
        BY <1>6, <1>10, <2>1, <2>3, <3>1
      <4>2. new[j] = c[j] /\ new[l] = c[l]
        BY <1>10, <3>1, <4>1
      <4> QED
        BY <1>5, <2>3, <4>1, <4>2
    <3>2. CASE l = i
      <4>1. j \in 1 .. i - 1 /\ new[j] = c[j] /\ new[l] = p
        BY <1>6, <1>10, <2>3, <3>2
      <4> QED
        BY <1>10, <4>1
    <3>3. CASE l > i
      <4>1. l - 1 \in 1 .. Len(c) /\ new[l] = c[l - 1]
        BY <1>6, <1>10, <2>1, <3>3
      <4>2. CASE j < i
        <5>1. j \in 1 .. Len(c) /\ new[j] = c[j] /\ j < l - 1
          BY <1>6, <1>10, <2>1, <3>3, <4>2
        <5> QED
          BY <1>5, <4>1, <5>1
      <4>3. CASE j = i
        <5>1. new[j] = p /\ i <= l - 1
          BY <1>6, <1>10, <3>3, <4>3
        <5> QED
          BY <2>2, <4>1, <5>1
      <4>4. CASE j > i
        <5>1. j - 1 \in 1 .. Len(c) /\ new[j] = c[j - 1] /\ j - 1 < l - 1
          BY <1>6, <1>10, <2>1, <2>3, <4>4
        <5> QED
          BY <1>5, <4>1, <5>1
      <4> QED
        BY <1>6, <1>10, <4>2, <4>3, <4>4
    <3> QED
      BY <1>6, <1>10, <3>1, <3>2, <3>3
  <2>4. ASSUME NEW j \in 1 .. len PROVE \E m \in 1 .. k : new[j] = seq[m]
    <3>1. new[j] = p \/ \E l \in 1 .. Len(c) : new[j] = c[l]
      BY <1>6, <1>10, <2>1
    <3>2. k \in 1 .. k /\ \A m \in 1 .. k - 1 : m \in 1 .. k
      BY <1>1
    <3> QED
      BY <1>5, <3>1, <3>2 DEF p
  (* Every node that c had is still there or has been pushed out. *)
  <2>5. ASSUME NEW l \in 1 .. Len(c)
        PROVE  \/ \E j \in 1 .. len : new[j] = c[l]
               \/ len = K /\ \A j \in 1 .. K : Less(new[j], c[l])
    <3>1. CASE l < i
      <4>1. l \in 1 .. len
        BY <1>6, <1>10, <3>1
      <4> QED
        BY <1>10, <3>1, <4>1
    <3>2. CASE l >= i /\ l + 1 <= len
      <4>1. l + 1 \in 1 .. len /\ (l + 1) - 1 = l /\ l + 1 > i
        BY <1>6, <1>10, <3>2
      <4>2. new[l + 1] = c[l]
        BY <1>6, <1>10, <4>1
      <4> QED
        BY <4>1, <4>2
    <3>3. CASE l >= i /\ l + 1 > len
      <4>1. len = K /\ l = K /\ Len(c) = K
        BY <1>5, <1>6, <3>3
      <4>2. ASSUME NEW j \in 1 .. K PROVE Less(new[j], c[l])
        <5>1. CASE j < i
          <6>1. j \in 1 .. Len(c) /\ new[j] = c[j] /\ j < l
            BY <1>6, <1>10, <3>3, <4>1, <5>1
          <6> QED
            BY <1>5, <6>1
        <5>2. CASE j = i
          <6>1. new[j] = p
            BY <1>6, <1>10, <4>1, <5>2
          <6> QED
            BY <2>2, <3>3, <6>1
        <5>3. CASE j > i
          <6>1. j - 1 \in 1 .. Len(c) /\ new[j] = c[j - 1] /\ j - 1 < l
            BY <1>6, <1>10, <2>1, <4>1, <5>3
          <6> QED
            BY <1>5, <6>1
        <5> QED
          BY <1>6, <1>10, <5>1, <5>2, <5>3
      <4> QED
        BY <4>1, <4>2
    <3> QED
      BY <1>6, <1>10, <3>1, <3>2, <3>3
  <2>6. ASSUME NEW m \in 1 .. k
        PROVE  \/ \E j \in 1 .. len : new[j] = seq[m]
               \/ len = K /\ \A j \in 1 .. K : Less(new[j], seq[m])
    <3>1. CASE m = k
      <4>1. new[i] = seq[m]
        BY <1>6, <1>10, <3>1 DEF p
      <4> QED
        BY <1>10, <4>1
    <3>2. CASE m # k /\ \E l \in 1 .. Len(c) : c[l] = seq[m]
      BY <2>5, <3>2
    <3>3. CASE m # k /\ Len(c) = K /\ \A l \in 1 .. K : Less(c[l], seq[m])
      <4>1. len = K /\ seq[m] \in S
        BY <1>1, <1>6, <3>3
      <4>2. ASSUME NEW j \in 1 .. K PROVE Less(new[j], seq[m])
        <5>1. CASE j = i
          <6>1. new[j] = p /\ j \in 1 .. Len(c)
            BY <1>6, <1>10, <3>3, <4>1, <5>1
          <6>2. Less(p, c[j])
            BY <1>6, <2>2, <5>1, <6>1
          <6> QED
            BY <1>1, <1>3, <1>7, <3>3, <4>1, <6>1, <6>2
        <5>2. CASE j # i
          <6>1. \E l \in 1 .. K : new[j] = c[l]
            BY <1>6, <1>10, <2>1, <3>3, <4>1, <5>2
          <6> QED
            BY <3>3, <6>1
        <5> QED
          BY <5>1, <5>2
      <4> QED
        BY <4>1, <4>2
    <3>4. m # k => m \in 1 .. k - 1
      BY <1>1
    <3> QED
      BY <1>5, <3>1, <3>2, <3>3, <3>4
  <2> HIDE DEF len
  <2> QED
    BY <1>6, <1>10, <2>3, <2>4, <2>6 DEF Gathered, S, seq, Less
<1> QED
  BY <1>8, <1>9, <1>10

(* So it holds when all nodes have been visited. *)
LEMMA GatherFold ==
    ASSUME NEW t, WellFormed(t), NEW id \in Hashes
    PROVE  Gathered(t, id, Cardinality(Places(t)), Table_GatherClosest(t, id))
<1> DEFINE S == Places(t)
           seq == Table_ForEachNode(t)
           n == Cardinality(S)
           Acc == {c \in Seq(S) : Len(c) <= K}
           Step == [kc \in (1 .. n) \X Acc |->
                       CloseNodes_Add(t, id, kc[2], seq[kc[1]])]
           Loop(h) == [s \in SUBSET (1 .. n) |->
                          IF s = {} THEN <<>>
                          ELSE CloseNodes_Add(t, id, h[s \ {Max(s)}], seq[Max(s)])]
           h == CHOOSE f : f = Loop(f)
<1>1. /\ n \in Nat /\ DOMAIN seq = 1 .. n
      /\ \A m \in 1 .. n : seq[m] \in S
  BY ForEachNodeOK
<1>2. <<>> \in Acc
  BY TableAssumption
<1>3. \A k \in 1 .. n, c \in Acc : CloseNodes_Add(t, id, c, seq[k]) \in Acc
  <2> SUFFICES ASSUME NEW k \in 1 .. n, NEW c \in Acc
               PROVE  CloseNodes_Add(t, id, c, seq[k]) \in Acc
    OBVIOUS
  <2>1. K \in Nat /\ c \in Seq(S) /\ Len(c) <= K /\ seq[k] \in S
    BY <1>1, TableAssumption
  <2> DEFINE p == seq[k]
             new == CloseNodes_Add(t, id, c, p)
             len == IF Len(c) < K THEN Len(c) + 1 ELSE K
  <2>2. (new = c \/ new \in Seq(S)) /\ Len(new) = len
    <3>1. c \in Seq(S) /\ Len(c) <= K /\ p \in S
      BY <2>1
    <3> HIDE DEF S, p
    <3> QED
      BY <3>1, CloseAddOK
  <2>3. len <= K
    BY <2>1
  <2> QED
    BY <2>1, <2>2, <2>3
<1>4. Step \in [(1 .. n) \X Acc -> Acc]
  <2> HIDE DEF S, seq, n, Acc
  <2> QED
    BY <1>3
<1>5. Table_GatherClosest(t, id) = h[1 .. n]
  BY <1>1 DEF Table_GatherClosest, FoldLeft, MapThenFoldSet
<1>6. h = Loop(h)
  <2>1. PICK g \in [SUBSET (1 .. n) -> Acc] : IsFold(g, n, <<>>, Step)
    <3> HIDE DEF S, seq, n, Acc, Step
    <3> QED
      BY <1>1, <1>2, <1>4, FoldExists
  <2>2. ASSUME NEW s \in SUBSET (1 .. n), s # {}
        PROVE  Step[<<Max(s), g[s \ {Max(s)}]>>]
                 = CloseNodes_Add(t, id, g[s \ {Max(s)}], seq[Max(s)])
    <3> HIDE DEF S, seq, n, Acc
    <3>1. Max(s) \in 1 .. n
      BY <1>1, <2>2, MaxOfIndexes
    <3>2. s \ {Max(s)} \in SUBSET (1 .. n)
      OBVIOUS
    <3> QED
      BY <2>1, <3>1, <3>2
  <2>3. g = Loop(g)
    <3> HIDE DEF S, seq, n, Acc, Step
    <3> QED
      BY <2>1, <2>2 DEF IsFold
  <2> HIDE DEF Loop
  <2> QED
    BY <2>3
<1>7. \A s \in SUBSET (1 .. n) :
         h[s] = IF s = {} THEN <<>>
                ELSE CloseNodes_Add(t, id, h[s \ {Max(s)}], seq[Max(s)])
  <2> HIDE DEF h, n, seq
  <2> QED
    BY <1>6
<1> HIDE DEF h
(* The loop goes on with what it has gathered, so h is Step's as well. *)
<1> DEFINE Inv == {k \in 0 .. n : h[1 .. k] \in Acc
                                   /\ Gathered(t, id, k, h[1 .. k])}
<1>8. 0 \in Inv
  <2>1. 1 .. 0 = {} /\ {} \in SUBSET (1 .. n)
    OBVIOUS
  <2>2. h[1 .. 0] = <<>>
    BY <1>7, <2>1
  <2>3. Gathered(t, id, 0, <<>>)
    BY TableAssumption DEF Gathered
  <2> HIDE DEF S, Acc
  <2> QED
    BY <1>1, <1>2, <2>2, <2>3
<1>9. ASSUME NEW k \in 0 .. n - 1, k \in Inv PROVE k + 1 \in Inv
  <2> HIDE DEF S, seq, n, Acc
  <2> DEFINE s == 1 .. k + 1
  <2>1. /\ k \in Nat /\ k + 1 \in 1 .. n /\ k + 1 \in 0 .. n
        /\ s \in SUBSET (1 .. n) /\ s # {}
        /\ Max(s) = k + 1 /\ s \ {k + 1} = 1 .. k
    BY <1>1, FoldOrder
  <2>4. h[s] = CloseNodes_Add(t, id, h[1 .. k], seq[k + 1])
    BY <1>7, <2>1
  <2>5. h[1 .. k] \in Acc /\ Gathered(t, id, (k + 1) - 1, h[1 .. k])
    BY <1>1, <1>9
  <2>6. h[s] \in Acc
    BY <1>3, <2>1, <2>4, <2>5
  <2>7. Gathered(t, id, k + 1, h[s])
    BY <2>1, <2>4, <2>5, GatherStep DEF n, S, seq
  <2> QED
    BY <2>1, <2>6, <2>7
<1> HIDE DEF Inv
<1>10. n \in Inv
  <2> HIDE DEF n
  <2>1. n \in Nat
    BY <1>1
  <2>2. 0 .. n \subseteq Inv
    BY ONLY <2>1, <1>8, <1>9, BoundedInduction
  <2> QED
    BY ONLY <2>1, <2>2
<1> QED
  BY <1>5, <1>10 DEF Inv

(* The first elements of a sequence; without repetitions they can be       *)
(* counted.                                                                *)
FirstOf(c, m) == {c[j] : j \in 1 .. m}

(* There are m of them. *)
LEMMA CountPrefix ==
    ASSUME NEW S, NEW c \in Seq(S), NEW m \in 0 .. Len(c),
           \A i, j \in 1 .. Len(c) : c[i] = c[j] => i = j
    PROVE  IsFiniteSet(FirstOf(c, m)) /\ Cardinality(FirstOf(c, m)) = m
<1> DEFINE T == {c[j] : j \in 1 .. m}
           f == [j \in 1 .. m |-> c[j]]
<1>1. \A j \in 1 .. m : j \in 1 .. Len(c)
  OBVIOUS
<1>2. f \in Surjection(1 .. m, T)
  BY DEF Surjection
<1>3. f \in Injection(1 .. m, T)
  <2>1. \A i, j \in 1 .. m : f[i] = f[j] => i = j
    BY <1>1
  <2> QED
    BY <2>1 DEF Injection, IsInjective
<1>4. IsFiniteSet(1 .. m) /\ Cardinality(1 .. m) = m
  BY FS_Interval
<1> HIDE DEF T, f
<1>5. IsFiniteSet(T) /\ Cardinality(T) = m
  BY <1>2, <1>3, <1>4, FS_Surjection
<1> QED
  BY <1>5 DEF T, FirstOf

(* Fewer than K nodes are closer. *)
IsClose(t, id, p) == Rank(Places(t), Closeness(t, id), p) < K

(* What has been gathered from all nodes are the closest ones. *)
LEMMA GatheredIsClosest ==
    ASSUME NEW t, WellFormed(t), NEW id \in Hashes, NEW c,
           Gathered(t, id, Cardinality(Places(t)), c)
    PROVE  /\ c = Closest(t, id)
           /\ \A p \in Places(t) : IsClose(t, id, p) <=>
                 \E i \in 1 .. Len(c) : c[i] = p
<1> DEFINE S == Places(t)
           R == Closeness(t, id)
           seq == Table_ForEachNode(t)
           n == Cardinality(S)
           len == IF n < K THEN n ELSE K
           sorted == InOrder(S, R)
           Less(p, q) == <<p, q>> \in R
<1>0. \A i, j \in Nat : i <= j /\ j <= i => i = j
  OBVIOUS
<1>1. /\ n \in Nat
      /\ \A m \in 1 .. n : seq[m] \in S
      /\ \A p \in S : \E m \in 1 .. n : seq[m] = p
  BY ForEachNodeOK
<1>2. IsOrder(S, R) /\ IsFiniteSet(S)
  BY ClosenessOK, PlacesOK
<1>3. \A p, q \in S : Closer(t, id, p, q) <=> Less(p, q)
  BY DEF Closeness
<1>4. K \in Nat /\ K >= 1 /\ len \in Nat /\ len <= n
  BY <1>1, TableAssumption
<1>5. c \in Seq(S) /\ Len(c) <= K /\ Len(c) \in Nat
  BY DEF Gathered
<1>6. \A i \in 1 .. Len(c) : c[i] \in S
  BY <1>5
<1>7. \A i, j \in 1 .. Len(c) : i < j => Less(c[i], c[j])
  BY <1>3, <1>6 DEF Gathered
<1>8. \A p \in S : \/ \E i \in 1 .. Len(c) : c[i] = p
                   \/ Len(c) = K /\ \A i \in 1 .. K : Less(c[i], p)
  <2> SUFFICES ASSUME NEW p \in S
               PROVE  \/ \E i \in 1 .. Len(c) : c[i] = p
                      \/ Len(c) = K /\ \A i \in 1 .. K : Less(c[i], p)
    OBVIOUS
  <2>1. PICK m \in 1 .. n : seq[m] = p
    BY <1>1
  <2>2. \/ \E i \in 1 .. Len(c) : c[i] = p
        \/ Len(c) = K /\ \A i \in 1 .. K : Closer(t, id, c[i], p)
    BY <2>1 DEF Gathered
  <2> QED
    BY <1>3, <1>6, <2>2
<1>9. Closest(t, id) = SubSeq(sorted, 1, len)
  <2> DEFINE Near(q, p) == Closer(t, id, q, p)
             Found(i) == CHOOSE p \in S :
                            Cardinality({q \in S : Near(q, p)}) = i - 1
             Ranked(i) == CHOOSE p \in S : Rank(S, R, p) = i - 1
             found == [i \in 1 .. n |-> Found(i)]
  <2>1. \A p \in S : {q \in S : Near(q, p)} = {q \in S : <<q, p>> \in R}
    BY <1>3
  <2>2. found = sorted
    <3> HIDE DEF S, R, Near
    <3>1. \A p \in S : Cardinality({q \in S : Near(q, p)}) = Rank(S, R, p)
      BY <2>1 DEF Rank
    <3>2. \A i : Found(i) = Ranked(i)
      BY <3>1
    <3>3. sorted = [i \in 1 .. n |-> Ranked(i)]
      BY DEF InOrder
    <3> HIDE DEF Found, Ranked, sorted, n
    <3> QED
      BY <3>2, <3>3
  <2>3. Len(sorted) = n
    <3> HIDE DEF S, R
    <3> QED
      BY <1>2, InOrderOK
  <2>4. Closest(t, id)
          = SubSeq(found, 1, IF Len(found) < K THEN Len(found) ELSE K)
    BY DEF Closest, Sorted
  <2> HIDE DEF S, n, sorted, found
  <2> QED
    BY <2>2, <2>3, <2>4
<1> HIDE DEF S, R, seq
<1>10. /\ sorted \in Seq(S) /\ Len(sorted) = n
       /\ \A i \in 1 .. n : sorted[i] \in S /\ Rank(S, R, sorted[i]) = i - 1
       /\ \A p, q \in S : Rank(S, R, p) = Rank(S, R, q) => p = q
  BY <1>2, InOrderOK, RankOK
<1>11. \A i, j \in 1 .. Len(c) : c[i] = c[j] => i = j
  <2> SUFFICES ASSUME NEW i \in 1 .. Len(c), NEW j \in 1 .. Len(c), c[i] = c[j]
               PROVE  i = j
    OBVIOUS
  <2>1. ~(i < j) /\ ~(j < i)
    BY <1>2, <1>6, <1>7 DEF IsOrder
  <2> QED
    BY <1>5, <2>1
<1>12. Len(c) = len
  <2> DEFINE T == FirstOf(c, Len(c))
  <2>1. IsFiniteSet(T) /\ Cardinality(T) = Len(c)
    <3>1. Len(c) \in 0 .. Len(c)
      BY <1>5
    <3> QED
      BY <1>5, <1>11, <3>1, CountPrefix
  <2>2. T \in SUBSET S
    BY <1>6 DEF FirstOf
  <2>3. Len(c) <= n
    BY <1>2, <2>1, <2>2, FS_Subset
  <2>4. CASE Len(c) = K
    BY <1>1, <1>4, <1>5, <2>3, <2>4
  <2>5. CASE Len(c) # K
    <3>1. T = S
      BY <1>8, <2>2, <2>5 DEF FirstOf
    <3>2. Len(c) = n
      BY <2>1, <3>1
    <3>3. Len(c) < K
      BY <1>4, <1>5, <2>5
    <3> HIDE DEF n
    <3> QED
      BY <3>2, <3>3
  <2> QED
    BY <2>4, <2>5
<1>13. ASSUME NEW i \in 1 .. Len(c)
       PROVE  c[i] = sorted[i] /\ Rank(S, R, c[i]) = i - 1
  <2> DEFINE T == FirstOf(c, i - 1)
  <2>1. i - 1 \in 0 .. Len(c) /\ i \in Nat
    BY <1>5
  <2>2. Cardinality(T) = i - 1
    BY <1>5, <1>11, <2>1, CountPrefix
  <2>3. {q \in S : <<q, c[i]>> \in R} = T
    <3>1. ASSUME NEW q \in S, Less(q, c[i]) PROVE q \in T
      <4>1. ~Less(c[i], q)
        BY <1>2, <1>6, <3>1 DEF IsOrder
      <4>2. PICK j \in 1 .. Len(c) : c[j] = q
        BY <1>8, <4>1
      <4>3. ~(i < j) /\ i # j
        BY <1>2, <1>6, <1>7, <3>1, <4>1, <4>2 DEF IsOrder
      <4>4. j \in 1 .. i - 1
        BY <1>5, <4>3
      <4> QED
        BY <4>2, <4>4 DEF FirstOf
    <3>2. ASSUME NEW j \in 1 .. i - 1 PROVE c[j] \in S /\ Less(c[j], c[i])
      <4>1. j \in 1 .. Len(c) /\ j < i
        BY <1>5
      <4> QED
        BY <1>6, <1>7, <4>1
    <3> QED
      BY <3>1, <3>2 DEF FirstOf
  <2>4. Rank(S, R, c[i]) = i - 1
    BY <2>2, <2>3 DEF Rank
  <2>5. i \in 1 .. n
    <3> HIDE DEF n, len
    <3> QED
      BY <1>1, <1>4, <1>12
  <2> QED
    BY <1>6, <1>10, <2>4, <2>5
<1>14. ASSUME NEW p \in S
       PROVE  Rank(S, R, p) < K <=> \E i \in 1 .. Len(c) : c[i] = p
  <2>1. Rank(S, R, p) \in 0 .. n - 1
    BY <1>2, RankOK
  <2>2. ASSUME Rank(S, R, p) < K PROVE \E i \in 1 .. Len(c) : c[i] = p
    <3> DEFINE i == Rank(S, R, p) + 1
    <3>1. i \in 1 .. len /\ i - 1 = Rank(S, R, p)
      BY <1>1, <1>4, <2>1, <2>2
    <3>2. i \in 1 .. Len(c)
      BY <1>12, <3>1
    <3>3. Rank(S, R, c[i]) = Rank(S, R, p)
      BY <1>13, <3>1, <3>2
    <3>4. c[i] = p
      BY <1>6, <1>10, <3>2, <3>3
    <3> QED
      BY <3>2, <3>4
  <2>3. ASSUME NEW i \in 1 .. Len(c), c[i] = p PROVE Rank(S, R, p) < K
    BY <1>4, <1>5, <1>13, <2>3
  <2> QED
    BY <2>2, <2>3
<1>15. /\ SubSeq(sorted, 1, len) \in Seq(S)
       /\ Len(SubSeq(sorted, 1, len)) = len
       /\ \A i \in 1 .. len : SubSeq(sorted, 1, len)[i] = sorted[i]
  <2>1. \A i \in 1 .. len : sorted[i] \in S
    BY <1>1, <1>4, <1>10
  <2> HIDE DEF len, sorted
  <2> QED
    BY <1>4, <2>1, SubSeqProperties
<1> HIDE DEF sorted, len
<1>16. c = SubSeq(sorted, 1, len)
  BY <1>5, <1>12, <1>13, <1>15, SeqEqual
<1> QED
  BY <1>9, <1>16, <1>14 DEF IsClose, S, R

(* Table_GatherClosest gathers the K closest nodes of the whole table, the *)
(* closest first.                                                          *)
LEMMA GatherClosestOK ==
    ASSUME NEW t, WellFormed(t), NEW id \in Hashes
    PROVE  /\ Table_GatherClosest(t, id) = Closest(t, id)
           /\ Table_GatherClosest(t, id) \in Seq(Places(t))
           /\ \A p \in Places(t) : IsClose(t, id, p) <=>
                 \E i \in 1 .. Len(Table_GatherClosest(t, id)) :
                     Table_GatherClosest(t, id)[i] = p
<1>1. Gathered(t, id, Cardinality(Places(t)), Table_GatherClosest(t, id))
  BY GatherFold
<1> QED
  BY <1>1, GatheredIsClosest DEF Gathered

=============================================================================
