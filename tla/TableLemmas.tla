---------------------------- MODULE TableLemmas ----------------------------
(***************************************************************************)
(* Every operation on a table keeps it well formed, for all sizes of ids,  *)
(* buckets and tables.  The lemmas speak of table values, so they hold for *)
(* the client's table as well as for those of the searches.                *)
(***************************************************************************)
EXTENDS Close, FoldLemmas

(* What every operation keeps, bucket by bucket: the count is right, no id *)
(* is held twice, and every node is where Table_FindBucket looks for it.   *)
BucketOK(bucket) ==
    /\ bucket \in Bucket
    /\ bucket.count = Cardinality(Occupied(bucket))
    /\ \A r, s \in Occupied(bucket) :
          bucket.nodes[r].id = bucket.nodes[s].id => r = s

InPlace(t, b) ==
    \A s \in Occupied(t.buckets[b]) :
        Table_FindBucket(t, t.buckets[b].nodes[s].id) = b

WellFormed(t) ==
    /\ IsTable(t)
    /\ \A b \in 0 .. t.end - 1 : BucketOK(t.buckets[b]) /\ InPlace(t, b)

(* The table holds nodes of S only. *)
BucketIn(bucket, S) == \A s \in Occupied(bucket) : bucket.nodes[s] \in S

OnlyIn(t, S) == \A b \in 0 .. t.end - 1 : BucketIn(t.buckets[b], S)

(* All of its nodes but the one of this id are in S. *)
OthersIn(t, id, S) ==
    \A b \in 0 .. t.end - 1 : \A s \in Occupied(t.buckets[b]) :
        t.buckets[b].nodes[s].id # id => t.buckets[b].nodes[s] \in S

(* What a reply and a query make of the node they come from. *)
AfterReply(node, type, time) ==
    [node EXCEPT !.reply_time = time,
                 !.pending_queries = Decrement(@),
                 !.replied = @ \cup ({type} \cap CountedReplies)]

AfterQuery(node, time) == [node EXCEPT !.query_time = time]

(* From t to u only the node out, if any, has been lost. *)
KeptBut(t, u, out) ==
    \A id \in Hashes : Table_HasNode(t, id) /\ id # out => Table_HasNode(u, id)

Kept(t, u) ==
    \A id \in Hashes : Table_HasNode(t, id) => Table_HasNode(u, id)

(* The node that a full bucket can best do without. *)
Worst(bucket, s, time) ==
    \/ Node_Status(bucket.nodes[s], time) = "Bad"
    \/ /\ Node_Status(bucket.nodes[s], time) = "Questionable"
       /\ WithStatus(bucket, "Bad", time) = {}
       /\ \A r \in WithStatus(bucket, "Questionable", time) :
             OldestTime(bucket.nodes[s]) <= OldestTime(bucket.nodes[r])

(* What one operation may do to a table: it loses one node at most, the    *)
(* worst of a bucket.                                                      *)
Evolves(t, u, time) ==
    /\ u.id = t.id
    /\ \/ Kept(t, u)
       \/ \E b \in 0 .. t.end - 1 : \E s \in Occupied(t.buckets[b]) :
             /\ Worst(t.buckets[b], s, time)
             /\ KeptBut(t, u, t.buckets[b].nodes[s].id)

-----------------------------------------------------------------------------
(* First picks the least number of a set. *)
LEMMA FirstIsLeast ==
    ASSUME NEW S \in SUBSET Nat, S # {}
    PROVE  First(S) \in S /\ \A r \in S : First(S) <= r
BY LeastNatural DEF First

(* Hash_SharedPrefix counts at most HashBits bits, and they agree. *)
LEMMA SharedPrefixType ==
    ASSUME NEW a \in Hashes, NEW b \in Hashes
    PROVE  /\ Hash_SharedPrefix(a, b) \in 0 .. HashBits
           /\ \A i \in 1 .. Hash_SharedPrefix(a, b) : a[i] = b[i]
<1> DEFINE D == {i \in BitPositions : a[i] # b[i]}
<1>1. \E n \in 0 .. HashBits : /\ \A i \in 1 .. n : a[i] = b[i]
                               /\ n < HashBits => a[n + 1] # b[n + 1]
  <2>1. CASE D = {}
    <3>1. \A i \in 1 .. HashBits : a[i] = b[i]
      BY <2>1 DEF BitPositions
    <3> QED
      BY <3>1, HashBitsAssumption
  <2>2. CASE D # {}
    <3>1. D \in SUBSET Nat
      BY HashBitsAssumption DEF BitPositions
    <3>2. PICK m \in D : \A r \in D : m <= r
      BY <2>2, <3>1, FirstIsLeast
    <3> DEFINE n == m - 1
    <3>3. n \in 0 .. HashBits /\ a[n + 1] # b[n + 1]
      BY HashBitsAssumption DEF BitPositions
    <3>4. \A i \in 1 .. n : a[i] = b[i]
      <4> SUFFICES ASSUME NEW i \in 1 .. n, a[i] # b[i] PROVE FALSE
        OBVIOUS
      <4>1. i \in D
        BY <3>3, HashBitsAssumption DEF BitPositions
      <4> QED
        BY <3>2, <4>1, HashBitsAssumption DEF BitPositions
    <3> QED
      BY <3>3, <3>4
  <2> QED
    BY <2>1, <2>2
<1> QED
  BY <1>1 DEF Hash_SharedPrefix

(* A node's id decides which allocated bucket it belongs to. *)
LEMMA FindBucketType ==
    ASSUME NEW t, IsTable(t), NEW id \in Hashes
    PROVE  /\ Table_FindBucket(t, id) \in 0 .. t.end - 1
           /\ Table_FindBucket(t, id) \in BucketIndexes
           /\ t.buckets[Table_FindBucket(t, id)] \in Bucket
<1>1. t.id \in Hashes /\ t.end \in 1 .. MaxBuckets
  BY DEF IsTable
<1>2. Hash_SharedPrefix(t.id, id) \in 0 .. HashBits
  BY <1>1, SharedPrefixType
<1>3. MaxBuckets \in Nat
  BY TableAssumption, HashBitsAssumption DEF MaxBuckets
<1>4. /\ Table_FindBucket(t, id) \in 0 .. t.end - 1
      /\ Table_FindBucket(t, id) \in BucketIndexes
  BY <1>1, <1>2, <1>3, HashBitsAssumption DEF Table_FindBucket, BucketIndexes
<1> QED
  BY <1>1, <1>3, <1>4 DEF IsTable

(* Slots, and so the occupied ones, are finitely many naturals. *)
LEMMA OccupiedFinite ==
    ASSUME NEW bucket
    PROVE  /\ Occupied(bucket) \in SUBSET Slots
           /\ Slots \in SUBSET Nat
           /\ IsFiniteSet(Slots) /\ Cardinality(Slots) = K
           /\ IsFiniteSet(Occupied(bucket))
           /\ Cardinality(Occupied(bucket)) \in Nat
<1>1. Occupied(bucket) \in SUBSET Slots /\ Slots \in SUBSET Nat
  BY DEF Occupied, Slots
<1>2. IsFiniteSet(Slots) /\ Cardinality(Slots) = K
  BY FS_Interval, TableAssumption DEF Slots
<1> QED
  BY <1>1, <1>2, FS_Subset, FS_CardinalityType

(* The count is K exactly when no slot is empty. *)
LEMMA FullMeansNoEmptySlot ==
    ASSUME NEW bucket, BucketOK(bucket)
    PROVE  Bucket_IsFull(bucket) <=> Occupied(bucket) = Slots
BY OccupiedFinite, FS_Subset DEF BucketOK, Bucket_IsFull

(* A new node occupies one more slot, and the count says so. *)
LEMMA AddNodeOK ==
    ASSUME NEW bucket, BucketOK(bucket), ~Bucket_IsFull(bucket),
           NEW node \in Node, ~Bucket_ContainsNode(bucket, node.id)
    PROVE  /\ BucketOK(Bucket_AddNode(bucket, node))
           /\ \A s \in Occupied(bucket) :
                 /\ s \in Occupied(Bucket_AddNode(bucket, node))
                 /\ Bucket_AddNode(bucket, node).nodes[s] = bucket.nodes[s]
           /\ \A s \in Occupied(Bucket_AddNode(bucket, node)) :
                 \/ Bucket_AddNode(bucket, node).nodes[s] = node
                 \/ /\ s \in Occupied(bucket)
                    /\ Bucket_AddNode(bucket, node).nodes[s] = bucket.nodes[s]
<1> DEFINE b == Bucket_AddNode(bucket, node)
           f == First(Slots \ Occupied(bucket))
<1>1. f \in Slots \ Occupied(bucket)
  BY FullMeansNoEmptySlot, OccupiedFinite, FirstIsLeast
<1>2. bucket \in Bucket /\ bucket.count \in 0 .. K /\ bucket.count # K
  BY DEF BucketOK, Bucket, Bucket_IsFull
<1>3. /\ b.nodes = [bucket.nodes EXCEPT ![f] = node]
      /\ b.count = bucket.count + 1
  BY DEF Bucket_AddNode
<1>4. b.nodes \in [Slots -> Node \cup {NULL}]
  BY <1>1, <1>2, <1>3 DEF Bucket
<1>5. b \in Bucket
  BY <1>2, <1>3, <1>4, TableAssumption DEF Bucket, Bucket_AddNode
<1>6. /\ b.nodes[f] = node
      /\ \A s \in Slots \ {f} : b.nodes[s] = bucket.nodes[s]
  BY <1>1, <1>2, <1>3 DEF Bucket
<1>7. Occupied(b) = Occupied(bucket) \cup {f}
  BY <1>1, <1>6, TableAssumption DEF Occupied
<1>8. b.count = Cardinality(Occupied(b))
  <2>1. Cardinality(Occupied(b)) = Cardinality(Occupied(bucket)) + 1
    BY <1>1, <1>7, OccupiedFinite, FS_AddElement
  <2> QED
    BY <2>1, <1>3 DEF BucketOK
<1>9. \A r, s \in Occupied(b) : b.nodes[r].id = b.nodes[s].id => r = s
  BY <1>1, <1>6, <1>7 DEF BucketOK, Bucket_ContainsNode, Occupied
<1>10. BucketOK(b)
  BY <1>5, <1>8, <1>9 DEF BucketOK
<1>11. \A s \in Occupied(bucket) : s \in Occupied(b) /\ b.nodes[s] = bucket.nodes[s]
  BY <1>1, <1>6, <1>7 DEF Occupied
<1>12. \A s \in Occupied(b) : \/ b.nodes[s] = node
                              \/ /\ s \in Occupied(bucket)
                                 /\ b.nodes[s] = bucket.nodes[s]
  BY <1>6, <1>7, <1>11
<1> QED
  BY <1>10, <1>11, <1>12

(* Overwriting an occupied slot keeps the count right. *)
LEMMA ReplaceSlotOK ==
    ASSUME NEW bucket, BucketOK(bucket), NEW s \in Occupied(bucket),
           NEW node \in Node,
           \A r \in Occupied(bucket) \ {s} : bucket.nodes[r].id # node.id
    PROVE  /\ BucketOK(ReplaceSlot(bucket, s, node))
           /\ Occupied(ReplaceSlot(bucket, s, node)) = Occupied(bucket)
           /\ ReplaceSlot(bucket, s, node).nodes[s] = node
           /\ \A r \in Occupied(bucket) \ {s} :
                 ReplaceSlot(bucket, s, node).nodes[r] = bucket.nodes[r]
<1> DEFINE b == ReplaceSlot(bucket, s, node)
<1>1. bucket \in Bucket /\ s \in Slots
  BY DEF BucketOK, Occupied
<1>2. /\ b.nodes = [bucket.nodes EXCEPT ![s] = node]
      /\ b.count = bucket.count
      /\ b \in Bucket
  BY <1>1 DEF ReplaceSlot, Bucket
<1>3. /\ b.nodes[s] = node
      /\ \A r \in Slots \ {s} : b.nodes[r] = bucket.nodes[r]
  BY <1>1, <1>2 DEF Bucket
<1>4. Occupied(b) = Occupied(bucket)
  BY <1>1, <1>3, TableAssumption DEF Occupied
<1>5. \A r, q \in Occupied(b) : b.nodes[r].id = b.nodes[q].id => r = q
  BY <1>3, <1>4 DEF BucketOK, Occupied
<1> QED
  <2>1. BucketOK(b)
    BY <1>2, <1>4, <1>5 DEF BucketOK
  <2> QED
    BY <2>1, <1>3, <1>4 DEF Occupied

(* Changing one bucket of a table, for one that is well formed and holds   *)
(* only nodes that belong there, keeps the table well formed.              *)
LEMMA ChangeBucketOK ==
    ASSUME NEW t, WellFormed(t), NEW b \in 0 .. t.end - 1,
           NEW bucket, BucketOK(bucket),
           \A s \in Occupied(bucket) :
               Table_FindBucket(t, bucket.nodes[s].id) = b
    PROVE  /\ WellFormed([t EXCEPT !.buckets[b] = bucket])
           /\ [t EXCEPT !.buckets[b] = bucket].id = t.id
<1> DEFINE u == [t EXCEPT !.buckets[b] = bucket]
<1>1. IsTable(t) /\ b \in BucketIndexes /\ bucket \in Bucket
  BY TableAssumption, HashBitsAssumption
     DEF WellFormed, IsTable, BucketIndexes, BucketOK, MaxBuckets
<1>2. /\ u.id = t.id /\ u.end = t.end
      /\ u.buckets = [t.buckets EXCEPT ![b] = bucket]
  BY <1>1 DEF IsTable
<1>3. /\ u.buckets[b] = bucket
      /\ \A c \in BucketIndexes \ {b} : u.buckets[c] = t.buckets[c]
  BY <1>1, <1>2 DEF IsTable
<1>4. IsTable(u)
  BY <1>1, <1>2, <1>3 DEF IsTable
<1>5. \A id : Table_FindBucket(u, id) = Table_FindBucket(t, id)
  BY <1>2 DEF Table_FindBucket
<1>6. ASSUME NEW c \in 0 .. u.end - 1
      PROVE  BucketOK(u.buckets[c]) /\ InPlace(u, c)
  <2>1. CASE c = b
    BY <2>1, <1>3, <1>5 DEF InPlace
  <2>2. CASE c # b
    <3>1. c \in BucketIndexes
      BY <1>2, <1>6, <1>1, TableAssumption, HashBitsAssumption
         DEF IsTable, BucketIndexes, MaxBuckets
    <3>2. u.buckets[c] = t.buckets[c]
      BY <3>1, <2>2, <1>3
    <3>3. BucketOK(t.buckets[c]) /\ InPlace(t, c)
      BY <1>2, <1>6 DEF WellFormed
    <3> QED
      BY <3>2, <3>3, <1>5 DEF InPlace
  <2> QED
    BY <2>1, <2>2
<1> QED
  BY <1>2, <1>4, <1>6 DEF WellFormed

(* The last part of Table_InsertNode. *)
LEMMA AddToBucketOK ==
    ASSUME NEW t, WellFormed(t), NEW node \in Node,
           ~Table_HasNode(t, node.id)
    PROVE  /\ WellFormed(AddToBucket(t, node).table)
           /\ AddToBucket(t, node).rc # "ERROR"
           /\ AddToBucket(t, node).table.id = t.id
<1> DEFINE b == Table_FindBucket(t, node.id)
           bucket == t.buckets[b]
<1>1. /\ node.id \in Hashes
      /\ b \in 0 .. t.end - 1
  BY FindBucketType DEF Node, WellFormed
<1>2. BucketOK(bucket) /\ InPlace(t, b)
  BY <1>1 DEF WellFormed
<1>3. CASE Bucket_IsFull(bucket)
  BY <1>3 DEF AddToBucket, InsertResult
<1>4. CASE ~Bucket_IsFull(bucket)
  <2> DEFINE new == Bucket_AddNode(bucket, node)
  <2>1. Occupied(bucket) # Slots
    BY <1>2, <1>4, FullMeansNoEmptySlot
  <2>2. ~Bucket_ContainsNode(bucket, node.id)
    BY DEF Table_HasNode
  <2>3. /\ BucketOK(new)
        /\ \A s \in Occupied(new) :
              \/ new.nodes[s] = node
              \/ s \in Occupied(bucket) /\ new.nodes[s] = bucket.nodes[s]
    BY <1>2, <1>4, <2>2, AddNodeOK
  <2>4. \A s \in Occupied(new) : Table_FindBucket(t, new.nodes[s].id) = b
    BY <1>2, <2>3 DEF InPlace
  <2>5. /\ AddToBucket(t, node).rc = "OKAdded"
        /\ AddToBucket(t, node).table = [t EXCEPT !.buckets[b] = new]
    BY <1>4, <2>1 DEF AddToBucket, InsertResult
  <2> HIDE DEF new, b, bucket
  <2>6. /\ WellFormed([t EXCEPT !.buckets[b] = new])
        /\ [t EXCEPT !.buckets[b] = new].id = t.id
    BY <1>1, <2>3, <2>4, ChangeBucketOK
  <2> QED
    BY <2>5, <2>6
<1> QED
  BY <1>3, <1>4

(* Replacing a node of the bucket in which the new one belongs. *)
LEMMA ReplaceNodeOK ==
    ASSUME NEW t, WellFormed(t), NEW node \in Node,
           ~Table_HasNode(t, node.id),
           NEW b, b = Table_FindBucket(t, node.id),
           NEW s \in Occupied(t.buckets[b])
    PROVE  /\ WellFormed(ReplaceNode(t, b, s, node).table)
           /\ ReplaceNode(t, b, s, node).rc # "ERROR"
           /\ ReplaceNode(t, b, s, node).table.id = t.id
<1> DEFINE new == ReplaceSlot(t.buckets[b], s, node)
<1>1. /\ node.id \in Hashes
      /\ b \in 0 .. t.end - 1
  BY FindBucketType DEF Node, WellFormed
<1>2. BucketOK(t.buckets[b]) /\ InPlace(t, b)
  BY <1>1 DEF WellFormed
<1>3. \A r \in Occupied(t.buckets[b]) : t.buckets[b].nodes[r].id # node.id
  BY DEF Table_HasNode, Bucket_ContainsNode
<1>4. /\ BucketOK(new)
      /\ \A r \in Occupied(new) :
            \/ new.nodes[r] = node
            \/ r \in Occupied(t.buckets[b])
               /\ new.nodes[r] = t.buckets[b].nodes[r]
  <2>1. \A r \in Occupied(t.buckets[b]) \ {s} :
            t.buckets[b].nodes[r].id # node.id
    BY <1>3
  <2>2. /\ BucketOK(new)
        /\ Occupied(new) = Occupied(t.buckets[b])
        /\ new.nodes[s] = node
        /\ \A r \in Occupied(t.buckets[b]) \ {s} :
              new.nodes[r] = t.buckets[b].nodes[r]
    BY <1>2, <2>1, ReplaceSlotOK
  <2> QED
    BY <2>2
<1>5. \A r \in Occupied(new) : Table_FindBucket(t, new.nodes[r].id) = b
  BY <1>2, <1>4 DEF InPlace
<1>6. t.buckets \in [BucketIndexes -> Bucket \cup {NULL}]
      /\ b \in BucketIndexes
  BY <1>1, FindBucketType DEF WellFormed, IsTable
<1>7. /\ ReplaceNode(t, b, s, node).rc = "OKReplaced"
      /\ ReplaceNode(t, b, s, node).table = [t EXCEPT !.buckets[b] = new]
  BY <1>6 DEF ReplaceNode, InsertResult
<1> HIDE DEF new
<1>8. /\ WellFormed([t EXCEPT !.buckets[b] = new])
      /\ [t EXCEPT !.buckets[b] = new].id = t.id
  BY <1>1, <1>4, <1>5, ChangeBucketOK
<1> QED
  BY <1>7, <1>8

-----------------------------------------------------------------------------
(* The nodes that a split moves take as many different slots of the new    *)
(* bucket.                                                                 *)
LEMMA ShiftedToInjective ==
    ASSUME NEW S \in SUBSET Slots
    PROVE  /\ \A s \in S : ShiftedTo(S, s) \in Slots
           /\ \A r, s \in S : ShiftedTo(S, r) = ShiftedTo(S, s) => r = s
           /\ IsFiniteSet(S) /\ Cardinality(S) \in Nat
           /\ Cardinality({ShiftedTo(S, s) : s \in S}) = Cardinality(S)
<1> DEFINE Below(s) == {r \in S : r < s}
<1>1. IsFiniteSet(S) /\ S \in SUBSET Nat /\ Cardinality(S) \in Nat
  BY OccupiedFinite, FS_Subset, FS_CardinalityType
<1>2. ASSUME NEW s \in S
      PROVE  /\ IsFiniteSet(Below(s))
             /\ Cardinality(Below(s)) \in Nat
             /\ ShiftedTo(S, s) = Cardinality(Below(s))
  <2>1. Below(s) \in SUBSET S
    OBVIOUS
  <2> QED
    BY <1>1, <2>1, FS_Subset, FS_CardinalityType DEF ShiftedTo
<1>3. ASSUME NEW r \in S, NEW s \in S, r < s
      PROVE  ShiftedTo(S, r) < ShiftedTo(S, s)
  <2>1. Below(r) \in SUBSET Below(s)
    <3>1. \A q \in S : q < r => q < s
      BY <1>1, <1>3
    <3> QED
      BY <3>1
  <2>2. r \in Below(s) /\ r \notin Below(r)
    BY <1>1, <1>3
  <2>3. /\ IsFiniteSet(Below(s))
        /\ Cardinality(Below(r)) \in Nat /\ Cardinality(Below(s)) \in Nat
        /\ ShiftedTo(S, r) = Cardinality(Below(r))
        /\ ShiftedTo(S, s) = Cardinality(Below(s))
    BY <1>2
  <2> HIDE DEF Below
  <2>4. /\ Cardinality(Below(r)) <= Cardinality(Below(s))
        /\ Cardinality(Below(r)) # Cardinality(Below(s))
    BY <2>1, <2>2, <2>3, FS_Subset
  <2> QED
    BY <2>3, <2>4
<1>4. ASSUME NEW r \in S, NEW s \in S, ShiftedTo(S, r) = ShiftedTo(S, s)
      PROVE  r = s
  <2>1. ShiftedTo(S, r) \in Nat /\ r \in Nat /\ s \in Nat
    BY <1>1, <1>2
  <2>2. ~(r < s) /\ ~(s < r)
    BY <1>3, <1>4, <2>1
  <2> QED
    BY <2>1, <2>2
<1>5. ASSUME NEW s \in S PROVE ShiftedTo(S, s) \in Slots
  <2>1. s \in 0 .. K - 1
    BY DEF Slots
  <2>2. Below(s) \in SUBSET (0 .. s - 1)
    <3>1. \A r \in S : r < s => r \in 0 .. s - 1
      BY <1>1, <2>1, TableAssumption
    <3> QED
      BY <3>1
  <2>3. IsFiniteSet(0 .. s - 1) /\ Cardinality(0 .. s - 1) = s
    BY <2>1, FS_Interval, TableAssumption
  <2>4. Cardinality(Below(s)) <= s
    <3> HIDE DEF Below
    <3>1. Cardinality(Below(s)) <= Cardinality(0 .. s - 1)
      BY ONLY <2>2, <2>3, FS_Subset
    <3> QED
      BY ONLY <3>1, <2>3
  <2>5. ShiftedTo(S, s) \in Nat /\ ShiftedTo(S, s) <= s
    BY <1>2, <2>4
  <2> QED
    BY <2>1, <2>5, TableAssumption DEF Slots
<1>6. Cardinality({ShiftedTo(S, s) : s \in S}) = Cardinality(S)
  <2> DEFINE T == {ShiftedTo(S, s) : s \in S}
             f == [s \in S |-> ShiftedTo(S, s)]
  <2>1. f \in Surjection(S, T)
    BY DEF Surjection
  <2>2. f \in [S -> T] /\ \A r, s \in S : f[r] = f[s] => r = s
    BY <1>4
  <2>3. f \in Injection(S, T)
    BY <2>2 DEF Injection, IsInjective
  <2> QED
    BY <1>1, <2>1, <2>3, FS_Surjection
<1> QED
  BY <1>1, <1>4, <1>5, <1>6

(* What a split leaves of the old bucket. *)
LEMMA RemainingOK ==
    ASSUME NEW bucket, BucketOK(bucket), NEW S \in SUBSET Occupied(bucket)
    PROVE  /\ BucketOK(Remaining(bucket, S))
           /\ Occupied(Remaining(bucket, S)) = Occupied(bucket) \ S
           /\ \A s \in Occupied(bucket) \ S :
                 Remaining(bucket, S).nodes[s] = bucket.nodes[s]
<1> DEFINE b == Remaining(bucket, S)
<1>1. /\ bucket.nodes \in [Slots -> Node \cup {NULL}]
      /\ bucket.count \in 0 .. K
      /\ bucket.count = Cardinality(Occupied(bucket))
  BY DEF BucketOK, Bucket
<1>2. /\ b.nodes = [s \in Slots |-> IF s \in S THEN NULL ELSE bucket.nodes[s]]
      /\ b.count = bucket.count - Cardinality(S)
      /\ b = [nodes |-> b.nodes, count |-> b.count]
  BY DEF Remaining
<1> HIDE DEF b
<1>3. Occupied(b) = Occupied(bucket) \ S
  BY <1>2 DEF Occupied
<1>4. \A s \in Occupied(bucket) \ S : b.nodes[s] = bucket.nodes[s]
  BY <1>2 DEF Occupied
<1>5. /\ IsFiniteSet(S) /\ Cardinality(S) \in Nat
      /\ Cardinality(S) <= Cardinality(Occupied(bucket))
  BY OccupiedFinite, FS_Subset, FS_CardinalityType
<1>6. Cardinality(Occupied(b)) = Cardinality(Occupied(bucket)) - Cardinality(S)
  <2>1. Occupied(bucket) \cap S = S
    OBVIOUS
  <2> QED
    <3>1. IsFiniteSet(Occupied(bucket))
      BY OccupiedFinite
    <3>2. Cardinality(Occupied(bucket) \ S)
            = Cardinality(Occupied(bucket)) - Cardinality(Occupied(bucket) \cap S)
      BY <3>1, FS_Difference
    <3> QED
      BY <1>3, <2>1, <3>2
<1>7. b \in Bucket
  <2>1. b.nodes \in [Slots -> Node \cup {NULL}]
    BY <1>1, <1>2
  <2>2. b.count \in 0 .. K
    BY <1>1, <1>2, <1>5, TableAssumption
  <2> QED
    BY <1>2, <2>1, <2>2 DEF Bucket
<1>8. BucketOK(b)
  BY <1>1, <1>2, <1>3, <1>4, <1>6, <1>7 DEF BucketOK
<1> QED
  BY <1>3, <1>4, <1>8 DEF b

(* What a split puts into the new bucket. *)
LEMMA ShiftedOK ==
    ASSUME NEW bucket, BucketOK(bucket), NEW S \in SUBSET Occupied(bucket)
    PROVE  /\ BucketOK(Shifted(bucket, S))
           /\ \A k \in Occupied(Shifted(bucket, S)) :
                 \E s \in S : Shifted(bucket, S).nodes[k] = bucket.nodes[s]
           /\ \A s \in S :
                 /\ ShiftedTo(S, s) \in Occupied(Shifted(bucket, S))
                 /\ Shifted(bucket, S).nodes[ShiftedTo(S, s)] = bucket.nodes[s]
<1> DEFINE b == Shifted(bucket, S)
           Taken == {ShiftedTo(S, s) : s \in S}
<1>1. /\ bucket.nodes \in [Slots -> Node \cup {NULL}]
      /\ S \in SUBSET Slots
      /\ \A s \in S : bucket.nodes[s] # NULL /\ bucket.nodes[s] \in Node
  BY DEF BucketOK, Bucket, Occupied
<1>2. /\ \A s \in S : ShiftedTo(S, s) \in Slots
      /\ \A r, s \in S : ShiftedTo(S, r) = ShiftedTo(S, s) => r = s
      /\ IsFiniteSet(S) /\ Cardinality(S) \in Nat
      /\ Cardinality(Taken) = Cardinality(S)
  BY <1>1, ShiftedToInjective
<1>3. /\ b.count = Cardinality(S)
      /\ b = [nodes |-> b.nodes, count |-> b.count]
      /\ b.nodes = [k \in Slots |-> IF \E s \in S : ShiftedTo(S, s) = k
                        THEN bucket.nodes[CHOOSE s \in S : ShiftedTo(S, s) = k]
                        ELSE NULL]
  BY DEF Shifted
<1> HIDE DEF b
<1>4. ASSUME NEW s \in S PROVE b.nodes[ShiftedTo(S, s)] = bucket.nodes[s]
  <2>1. (CHOOSE r \in S : ShiftedTo(S, r) = ShiftedTo(S, s)) = s
    BY <1>2
  <2> QED
    BY <1>2, <1>3, <2>1
<1>5. \A k \in Slots \ Taken : b.nodes[k] = NULL
  BY <1>3
<1>6. Occupied(b) = Taken
  BY <1>1, <1>2, <1>4, <1>5 DEF Occupied
<1>7. b \in Bucket
  <2>1. ASSUME NEW k \in Slots PROVE b.nodes[k] \in Node \cup {NULL}
    BY <1>1, <1>4, <1>5
  <2>2. b.nodes \in [Slots -> Node \cup {NULL}]
    BY <1>3, <2>1
  <2>3. Cardinality(S) <= K
    BY <1>1, OccupiedFinite, FS_Subset
  <2> QED
    BY <1>2, <1>3, <2>2, <2>3, TableAssumption DEF Bucket
<1>8. \A k, l \in Occupied(b) : b.nodes[k].id = b.nodes[l].id => k = l
  BY <1>4, <1>6 DEF BucketOK
<1>9. BucketOK(b)
  BY <1>2, <1>3, <1>6, <1>7, <1>8 DEF BucketOK
<1> QED
  BY <1>4, <1>6, <1>9 DEF b

(* Splitting the last bucket of a table keeps all its nodes, each where it *)
(* is then looked for.                                                     *)
LEMMA SplitOK ==
    ASSUME NEW t, WellFormed(t), NEW b, b = t.end - 1, t.end < MaxBuckets
    PROVE  /\ WellFormed(Table_ShiftBucketNodes(Table_AddBucket(t), b))
           /\ Table_ShiftBucketNodes(Table_AddBucket(t), b).id = t.id
           /\ Table_ShiftBucketNodes(Table_AddBucket(t), b).end = t.end + 1
           /\ \A id \in Hashes :
                 Table_HasNode(Table_ShiftBucketNodes(Table_AddBucket(t), b), id)
                   <=> Table_HasNode(t, id)
           /\ \A N : OnlyIn(t, N) =>
                 OnlyIn(Table_ShiftBucketNodes(Table_AddBucket(t), b), N)
<1> DEFINE bucket == t.buckets[b]
           a == Table_AddBucket(t)
           S == ShiftableSlots(t, b)
           u == Table_ShiftBucketNodes(a, b)
           old == Remaining(bucket, S)
           new == Shifted(bucket, S)
<1>1. /\ IsTable(t) /\ MaxBuckets \in Nat /\ t.end \in 1 .. MaxBuckets
      /\ b \in 0 .. t.end - 1 /\ b \in BucketIndexes
      /\ b + 1 \in BucketIndexes /\ t.end = b + 1
      /\ bucket \in Bucket /\ BucketOK(bucket) /\ InPlace(t, b)
  <2>1. IsTable(t) /\ MaxBuckets \in Nat /\ t.end \in 1 .. MaxBuckets
    BY TableAssumption, HashBitsAssumption DEF WellFormed, IsTable, MaxBuckets
  <2>2. b \in 0 .. t.end - 1
    BY <2>1
  <2> QED
    BY <2>1, <2>2 DEF WellFormed, BucketIndexes, BucketOK
<1>2. t \in [id : Hashes, end : Int,
             buckets : [BucketIndexes -> Bucket \cup {NULL}]]
  BY <1>1 DEF IsTable
<1>3. /\ a.id = t.id /\ a.end = t.end + 1
      /\ a.buckets = [t.buckets EXCEPT ![b + 1] = Bucket_Create]
  BY <1>1, <1>2 DEF Table_AddBucket
<1>4. Bucket_Create \in Bucket
  BY TableAssumption DEF Bucket_Create, Bucket
<1>5. a \in [id : Hashes, end : Int,
             buckets : [BucketIndexes -> Bucket \cup {NULL}]]
  <2>1. t.end \in BucketIndexes /\ t.end + 1 \in Int
    BY <1>1
  <2>2. \A B \in Bucket, n \in Int :
            [t EXCEPT !.buckets[t.end] = B, !.end = n]
              \in [id : Hashes, end : Int,
                   buckets : [BucketIndexes -> Bucket \cup {NULL}]]
    BY <1>2, <2>1
  <2> QED
    BY <1>4, <2>1, <2>2 DEF Table_AddBucket
<1> HIDE DEF a
<1>6. a.buckets[b] = bucket
  BY <1>1, <1>2, <1>3
<1>7. ShiftableSlots(a, b) = S
  BY <1>3, <1>6 DEF ShiftableSlots
<1> HIDE DEF S
<1>8. /\ u.id = t.id /\ u.end = t.end + 1
      /\ u.buckets[b] = old /\ u.buckets[b + 1] = new
      /\ \A c \in BucketIndexes \ {b, b + 1} : u.buckets[c] = t.buckets[c]
      /\ u.buckets = [c \in BucketIndexes |-> u.buckets[c]]
      /\ u \in [id : Hashes, end : Int, buckets : [BucketIndexes ->
                  Bucket \cup {NULL, old, new}]]
  <2>1. u = [a EXCEPT !.buckets[b] = old, !.buckets[b + 1] = new]
    BY <1>5, <1>6, <1>7 DEF Table_ShiftBucketNodes
  <2> HIDE DEF u, old, new, bucket
  <2>2. /\ u.id = a.id /\ u.end = a.end
        /\ u.buckets = [[a.buckets EXCEPT ![b] = old] EXCEPT ![b + 1] = new]
    BY <1>5, <2>1
  <2>3. u \in [id : Hashes, end : Int, buckets : [BucketIndexes ->
                  Bucket \cup {NULL, old, new}]]
    BY <1>1, <1>5, <2>1
  <2> QED
    <3>1. u.buckets = [[[t.buckets EXCEPT ![b + 1] = Bucket_Create]
                           EXCEPT ![b] = old] EXCEPT ![b + 1] = new]
      BY <1>3, <2>2
    <3>2. /\ b \in BucketIndexes /\ b + 1 \in BucketIndexes /\ b # b + 1
          /\ DOMAIN t.buckets = BucketIndexes
      BY <1>1, <1>2
    <3>3. /\ u.buckets[b] = old /\ u.buckets[b + 1] = new
          /\ \A c \in BucketIndexes \ {b, b + 1} : u.buckets[c] = t.buckets[c]
      BY <3>1, <3>2
    <3>4. u.buckets = [c \in BucketIndexes |-> u.buckets[c]]
      BY <2>3
    <3> QED
      BY <1>3, <2>2, <2>3, <3>3, <3>4
<1> HIDE DEF u, old, new, bucket
<1>9. S \in SUBSET Occupied(bucket)
  BY DEF S, ShiftableSlots, bucket
<1>10. /\ BucketOK(old)
       /\ Occupied(old) = Occupied(bucket) \ S
       /\ \A s \in Occupied(bucket) \ S : old.nodes[s] = bucket.nodes[s]
  BY <1>1, <1>9, RemainingOK DEF old
<1>11. /\ BucketOK(new)
       /\ \A k \in Occupied(new) : \E s \in S : new.nodes[k] = bucket.nodes[s]
       /\ \A s \in S : \E k \in Occupied(new) : new.nodes[k] = bucket.nodes[s]
  BY <1>1, <1>9, ShiftedOK DEF new
<1>12. IsTable(u)
  <2>1. old \in Bucket /\ new \in Bucket
    BY <1>10, <1>11 DEF BucketOK
  <2>2. \A c \in BucketIndexes : IF c < u.end THEN u.buckets[c] \in Bucket
                                 ELSE u.buckets[c] = NULL
    <3> TAKE c \in BucketIndexes
    <3>0. c \in Int /\ b \in Int /\ t.end = b + 1 /\ u.end = b + 2
      BY <1>1, <1>8 DEF BucketIndexes
    <3>1. CASE c \in {b, b + 1}
      BY <3>1, <1>1, <1>8, <2>1
    <3>2. CASE c < b
      <4>1. c < t.end /\ c < u.end /\ c \notin {b, b + 1}
        BY ONLY <3>0, <3>2
      <4> QED
        BY <4>1, <1>1, <1>8 DEF IsTable
    <3>3. CASE c > b + 1
      <4>1. ~(c < t.end) /\ ~(c < u.end) /\ c \notin {b, b + 1}
        BY ONLY <3>0, <3>3
      <4> QED
        BY <4>1, <1>1, <1>8 DEF IsTable
    <3>4. c \in {b, b + 1} \/ c < b \/ c > b + 1
      BY ONLY <3>0
    <3> QED
      BY <3>1, <3>2, <3>3, <3>4, Zenon
  <2>3. u.buckets \in [BucketIndexes -> Bucket \cup {NULL}]
    BY <1>8, <2>2
  <2>4. u.id \in Hashes /\ u.end \in 1 .. MaxBuckets
    BY <1>1, <1>8 DEF IsTable
  <2> QED
    BY <1>8, <2>2, <2>3, <2>4 DEF IsTable
<1>13. ASSUME NEW c \in 0 .. t.end - 1, NEW s \in Occupied(t.buckets[c])
       PROVE  /\ Hash_SharedPrefix(t.id, t.buckets[c].nodes[s].id) \in Nat
              /\ c <= Hash_SharedPrefix(t.id, t.buckets[c].nodes[s].id)
              /\ c < b =>
                   Hash_SharedPrefix(t.id, t.buckets[c].nodes[s].id) = c
  <2>1. BucketOK(t.buckets[c]) /\ InPlace(t, c)
    BY DEF WellFormed
  <2>2. t.buckets[c].nodes[s].id \in Hashes
    BY <2>1 DEF BucketOK, Bucket, Occupied, Node
  <2>3. Hash_SharedPrefix(t.id, t.buckets[c].nodes[s].id) \in 0 .. HashBits
    BY <1>1, <2>2, SharedPrefixType DEF IsTable
  <2>4. Table_FindBucket(t, t.buckets[c].nodes[s].id) = c
    BY <2>1 DEF InPlace
  <2> QED
    BY <1>1, <2>3, <2>4, HashBitsAssumption DEF Table_FindBucket
<1>13a. /\ MaxBuckets \in Nat /\ t.end \in 1 .. MaxBuckets
       /\ t.end = b + 1 /\ u.end = t.end + 1 /\ b \in 0 .. t.end - 1
  BY <1>1, <1>8
<1>14. ASSUME NEW c \in 0 .. u.end - 1
       PROVE  BucketOK(u.buckets[c]) /\ InPlace(u, c)
  <2>1. CASE c = b
    <3>1. ASSUME NEW s \in Occupied(old)
          PROVE  Table_FindBucket(u, old.nodes[s].id) = b
      <4>1. s \in Occupied(bucket) /\ s \notin S /\ old.nodes[s] = bucket.nodes[s]
        BY <1>10
      <4>2. Hash_SharedPrefix(t.id, bucket.nodes[s].id) = b
        <5> DEFINE pfx == Hash_SharedPrefix(t.id, bucket.nodes[s].id)
        <5>1. pfx \in Nat /\ b <= pfx
          BY <4>1, <1>13, <1>13a DEF bucket
        <5>2. ~(b < pfx)
          BY <4>1 DEF S, ShiftableSlots, bucket
        <5>3. b \in Nat
          BY <1>13a
        <5> HIDE DEF pfx
        <5>4. pfx = b
          BY ONLY <5>1, <5>2, <5>3
        <5> QED
          BY <5>4 DEF pfx
      <4> QED
        BY <4>1, <4>2, <1>1, <1>8 DEF Table_FindBucket
    <3> QED
      BY <2>1, <3>1, <1>8, <1>10 DEF InPlace
  <2>2. CASE c = b + 1
    <3>1. ASSUME NEW k \in Occupied(new)
          PROVE  Table_FindBucket(u, new.nodes[k].id) = b + 1
      <4>1. PICK s \in S : new.nodes[k] = bucket.nodes[s]
        BY <1>11
      <4>2. /\ Hash_SharedPrefix(t.id, bucket.nodes[s].id) > b
            /\ Hash_SharedPrefix(t.id, bucket.nodes[s].id) \in Nat
        BY <1>1, <1>9, <1>13 DEF S, ShiftableSlots, bucket
      <4> QED
        BY <4>1, <4>2, <1>1, <1>8 DEF Table_FindBucket
    <3> QED
      BY <2>2, <3>1, <1>8, <1>11 DEF InPlace
  <2>3. CASE c \notin {b, b + 1}
    <3>1. c \in 0 .. t.end - 1 /\ c < b /\ c \in BucketIndexes
      BY ONLY <2>3, <1>14, <1>13a DEF BucketIndexes
    <3>2. u.buckets[c] = t.buckets[c]
      BY <3>1, <1>8, <1>1
    <3>3. BucketOK(t.buckets[c])
      BY <3>1 DEF WellFormed
    <3>4. ASSUME NEW s \in Occupied(t.buckets[c])
          PROVE  Table_FindBucket(u, t.buckets[c].nodes[s].id) = c
      BY <1>1, <1>8, <3>1, <1>13 DEF Table_FindBucket
    <3> QED
      BY <3>2, <3>3, <3>4 DEF InPlace
  <2> QED
    BY <2>1, <2>2, <2>3
<1>15. ASSUME NEW id \in Hashes
       PROVE  Table_HasNode(u, id) <=> Table_HasNode(t, id)
  <2> DEFINE pfx == Hash_SharedPrefix(t.id, id)
  <2>1. pfx \in 0 .. HashBits
    BY <1>1, SharedPrefixType DEF IsTable
  <2>2. CASE pfx < b
    <3>1. Table_FindBucket(t, id) = pfx /\ Table_FindBucket(u, id) = pfx
      BY <2>1, <2>2, <1>1, <1>8 DEF Table_FindBucket
    <3>2. pfx \in BucketIndexes \ {b, b + 1}
      BY <2>1, <2>2, <1>1 DEF BucketIndexes
    <3> QED
      BY <3>1, <3>2, <1>8 DEF Table_HasNode
  <2>3. CASE pfx >= b
    <3>1. Table_FindBucket(t, id) = b
      BY <2>1, <2>3, <1>1 DEF Table_FindBucket
    <3>2. Table_HasNode(t, id) <=> \E s \in Occupied(bucket) : bucket.nodes[s].id = id
      BY <3>1 DEF Table_HasNode, Bucket_ContainsNode, bucket
    <3>3. \A s \in Occupied(bucket) : bucket.nodes[s].id = id => (s \in S <=> b < pfx)
      BY DEF S, ShiftableSlots, bucket
    <3>4. CASE pfx = b
      <4>1. Table_FindBucket(u, id) = b
        BY <3>4, <1>1, <1>8 DEF Table_FindBucket
      <4>2. Table_HasNode(u, id) <=> \E s \in Occupied(old) : old.nodes[s].id = id
        BY <4>1, <1>8 DEF Table_HasNode, Bucket_ContainsNode
      <4>3. ~(b < pfx)
        BY <3>4, <1>1
      <4> QED
        BY <3>2, <3>3, <4>2, <4>3, <1>10
    <3>5. CASE pfx > b
      <4>1. Table_FindBucket(u, id) = b + 1
        BY <3>5, <2>1, <1>1, <1>8 DEF Table_FindBucket
      <4>2. Table_HasNode(u, id) <=> \E k \in Occupied(new) : new.nodes[k].id = id
        BY <4>1, <1>8 DEF Table_HasNode, Bucket_ContainsNode
      <4>3. b < pfx
        BY <3>5, <2>1, <1>1
      <4> QED
        BY <3>2, <3>3, <4>2, <4>3, <1>9, <1>11
    <3> QED
      BY <2>1, <2>3, <3>4, <3>5, <1>1
  <2> QED
    BY <2>1, <2>2, <2>3, <1>1
<1>16. ASSUME NEW N, OnlyIn(t, N), NEW c \in 0 .. u.end - 1
       PROVE  BucketIn(u.buckets[c], N)
  <2>1. CASE c = b
    BY <2>1, <1>1, <1>8, <1>10, <1>16 DEF OnlyIn, BucketIn, bucket
  <2>2. CASE c = b + 1
    BY <2>2, <1>1, <1>8, <1>9, <1>11, <1>16 DEF OnlyIn, BucketIn, bucket
  <2>3. CASE c \notin {b, b + 1}
    <3>1. c \in 0 .. t.end - 1 /\ c \in BucketIndexes
      BY ONLY <2>3, <1>16, <1>13a DEF BucketIndexes
    <3> QED
      BY <3>1, <2>3, <1>8, <1>16 DEF OnlyIn
  <2> QED
    BY <2>1, <2>2, <2>3
<1>17. \A N : OnlyIn(t, N) => OnlyIn(u, N)
  BY <1>16 DEF OnlyIn
<1> QED
  BY <1>8, <1>12, <1>14, <1>15, <1>17 DEF WellFormed, u, a

-----------------------------------------------------------------------------
(* Table_HasNode after one bucket has changed. *)
LEMMA ChangeBucketHas ==
    ASSUME NEW t, WellFormed(t), NEW b \in 0 .. t.end - 1, NEW bucket,
           NEW id \in Hashes
    PROVE  Table_HasNode([t EXCEPT !.buckets[b] = bucket], id)
             <=> IF Table_FindBucket(t, id) = b
                 THEN Bucket_ContainsNode(bucket, id)
                 ELSE Table_HasNode(t, id)
<1> DEFINE u == [t EXCEPT !.buckets[b] = bucket]
<1>1. IsTable(t) /\ b \in BucketIndexes
  BY TableAssumption, HashBitsAssumption
     DEF WellFormed, IsTable, BucketIndexes, MaxBuckets
<1>2. /\ u.id = t.id /\ u.end = t.end
      /\ u.buckets = [t.buckets EXCEPT ![b] = bucket]
  BY <1>1 DEF IsTable
<1>3. /\ u.buckets[b] = bucket
      /\ \A c \in BucketIndexes \ {b} : u.buckets[c] = t.buckets[c]
  BY <1>1, <1>2 DEF IsTable
<1> HIDE DEF u
<1>4. Table_FindBucket(u, id) = Table_FindBucket(t, id)
  BY <1>2 DEF Table_FindBucket
<1>5. Table_FindBucket(t, id) \in BucketIndexes
  BY <1>1, FindBucketType
<1>6. Table_HasNode(u, id)
        <=> Bucket_ContainsNode(u.buckets[Table_FindBucket(t, id)], id)
  BY <1>4 DEF Table_HasNode
<1>7. CASE Table_FindBucket(t, id) = b
  BY <1>3, <1>6, <1>7 DEF u
<1>8. CASE Table_FindBucket(t, id) # b
  BY <1>3, <1>5, <1>6, <1>8 DEF u, Table_HasNode
<1> QED
  BY <1>7, <1>8

(* Adding a node to a bucket removes none. *)
LEMMA AddToBucketKeeps ==
    ASSUME NEW t, WellFormed(t), NEW node \in Node,
           ~Table_HasNode(t, node.id),
           NEW id \in Hashes, Table_HasNode(t, id)
    PROVE  Table_HasNode(AddToBucket(t, node).table, id)
<1> DEFINE b == Table_FindBucket(t, node.id)
           bucket == t.buckets[b]
           new == Bucket_AddNode(bucket, node)
<1>1. /\ node.id \in Hashes
      /\ b \in 0 .. t.end - 1
  BY FindBucketType DEF Node, WellFormed
<1>2. BucketOK(bucket)
  BY <1>1 DEF WellFormed
<1>3. CASE Bucket_IsFull(bucket) \/ Occupied(bucket) = Slots
  BY <1>3 DEF AddToBucket, InsertResult
<1>4. CASE ~Bucket_IsFull(bucket) /\ Occupied(bucket) # Slots
  <2>1. ~Bucket_ContainsNode(bucket, node.id)
    BY DEF Table_HasNode
  <2>2. \A s \in Occupied(bucket) : s \in Occupied(new)
                                    /\ new.nodes[s] = bucket.nodes[s]
    BY <1>2, <1>4, <2>1, AddNodeOK
  <2>3. AddToBucket(t, node).table = [t EXCEPT !.buckets[b] = new]
    BY <1>4 DEF AddToBucket, InsertResult
  <2> HIDE DEF new
  <2>4. Table_FindBucket(t, id) = b => Bucket_ContainsNode(new, id)
    BY <2>2 DEF Table_HasNode, Bucket_ContainsNode
  <2> HIDE DEF b, bucket
  <2>5. Table_HasNode([t EXCEPT !.buckets[b] = new], id)
    BY <1>1, <2>4, ChangeBucketHas
  <2> QED
    BY <2>3, <2>5
<1> QED
  BY <1>3, <1>4

(* Replacing a node removes that node only. *)
LEMMA ReplaceNodeKeeps ==
    ASSUME NEW t, WellFormed(t), NEW node \in Node,
           ~Table_HasNode(t, node.id),
           NEW b, b = Table_FindBucket(t, node.id),
           NEW s \in Occupied(t.buckets[b]),
           NEW id \in Hashes, Table_HasNode(t, id),
           id # t.buckets[b].nodes[s].id
    PROVE  Table_HasNode(ReplaceNode(t, b, s, node).table, id)
<1> DEFINE new == ReplaceSlot(t.buckets[b], s, node)
<1>1. /\ node.id \in Hashes
      /\ b \in 0 .. t.end - 1 /\ b \in BucketIndexes
  BY FindBucketType DEF Node, WellFormed
<1>2. BucketOK(t.buckets[b])
  BY <1>1 DEF WellFormed
<1>3. \A r \in Occupied(t.buckets[b]) \ {s} : t.buckets[b].nodes[r].id # node.id
  BY DEF Table_HasNode, Bucket_ContainsNode
<1>4. /\ Occupied(new) = Occupied(t.buckets[b])
      /\ \A r \in Occupied(t.buckets[b]) \ {s} :
            new.nodes[r] = t.buckets[b].nodes[r]
  BY <1>2, <1>3, ReplaceSlotOK
<1>5. t.buckets \in [BucketIndexes -> Bucket \cup {NULL}]
  BY DEF WellFormed, IsTable
<1>6. ReplaceNode(t, b, s, node).table = [t EXCEPT !.buckets[b] = new]
  BY <1>1, <1>5 DEF ReplaceNode, InsertResult
<1> HIDE DEF new
<1>7. Table_FindBucket(t, id) = b => Bucket_ContainsNode(new, id)
  BY <1>4 DEF Table_HasNode, Bucket_ContainsNode
<1>8. Table_HasNode([t EXCEPT !.buckets[b] = new], id)
  BY <1>1, <1>7, ChangeBucketHas
<1> QED
  BY <1>6, <1>8

(* First picks one of the slots it is given. *)
LEMMA FirstSlot ==
    ASSUME NEW S \in SUBSET Slots, S # {}
    PROVE  First(S) \in S
BY FirstIsLeast, OccupiedFinite

(* Of some Questionable nodes one is the oldest. *)
LEMMA QuestionableSlotOK ==
    ASSUME NEW bucket, BucketOK(bucket), NEW time \in Nat,
           WithStatus(bucket, "Questionable", time) # {}
    PROVE  /\ QuestionableSlot(bucket, time)
                 \in WithStatus(bucket, "Questionable", time)
           /\ \A r \in WithStatus(bucket, "Questionable", time) :
                 OldestTime(bucket.nodes[QuestionableSlot(bucket, time)])
                   <= OldestTime(bucket.nodes[r])
<1> DEFINE Q == WithStatus(bucket, "Questionable", time)
           Seen(s) == OldestTime(bucket.nodes[s])
           Oldest == {s \in Q : \A r \in Q : Seen(s) <= Seen(r)}
<1>1. Q \in SUBSET Slots /\ \A s \in Q : bucket.nodes[s] \in Node
  BY DEF WithStatus, BucketOK, Bucket, Occupied
<1>2. \A s \in Q : Seen(s) \in Nat
  BY <1>1 DEF OldestTime, Node
<1> HIDE DEF Q, Seen
<1>3. Oldest # {}
  <2> DEFINE T == {Seen(s) : s \in Q}
  <2>1. T \in SUBSET Nat /\ T # {}
    BY <1>2 DEF Q
  <2>2. PICK m \in T : \A n \in T : m <= n
    BY <2>1, FirstIsLeast
  <2> QED
    BY <2>2
<1>4. First(Oldest) \in Oldest
  BY <1>1, <1>3, FirstSlot
<1> QED
  BY <1>4 DEF QuestionableSlot, Q, Seen

(* Table_InsertNode, whichever way it goes. *)
LEMMA InsertNodeOK ==
    ASSUME NEW t, WellFormed(t), NEW node \in Node, NEW time \in Nat
    PROVE  /\ WellFormed(Table_InsertNode(t, node, time).table)
           /\ Table_InsertNode(t, node, time).rc # "ERROR"
           /\ Evolves(t, Table_InsertNode(t, node, time).table, time)
<1> DEFINE b == Table_FindBucket(t, node.id)
           bucket == t.buckets[b]
           r == Table_InsertNode(t, node, time)
           Bad == WithStatus(bucket, "Bad", time)
           Old == WithStatus(bucket, "Questionable", time)
<1>1. node.id \in Hashes /\ b \in 0 .. t.end - 1
  BY FindBucketType DEF Node, WellFormed
<1>2. BucketOK(bucket) /\ InPlace(t, b)
  BY <1>1 DEF WellFormed
<1>3. CASE Bucket_ContainsNode(bucket, node.id)
  BY <1>3 DEF Table_InsertNode, InsertResult, Evolves, Kept
<1>4. ASSUME ~Bucket_ContainsNode(bucket, node.id)
      PROVE  ~Table_HasNode(t, node.id)
  BY <1>4 DEF Table_HasNode
<1>5. CASE ~Bucket_ContainsNode(bucket, node.id) /\ ~Bucket_IsFull(bucket)
  <2>1. r = AddToBucket(t, node)
    BY <1>5 DEF Table_InsertNode
  <2> QED
    BY <2>1, <1>4, <1>5, AddToBucketOK, AddToBucketKeeps DEF Evolves, Kept
<1>6. ASSUME ~Bucket_ContainsNode(bucket, node.id),
             NEW s \in Occupied(bucket), Worst(bucket, s, time),
             r = ReplaceNode(t, b, s, node)
      PROVE  /\ WellFormed(r.table) /\ r.rc # "ERROR"
             /\ Evolves(t, r.table, time)
  <2> HIDE DEF r
  <2>1. WellFormed(r.table) /\ r.rc # "ERROR" /\ r.table.id = t.id
    BY <1>4, <1>6, ReplaceNodeOK
  <2>2. KeptBut(t, r.table, bucket.nodes[s].id)
    BY <1>4, <1>6, ReplaceNodeKeeps DEF KeptBut
  <2> HIDE DEF b
  <2> QED
    BY <1>1, <1>6, <2>1, <2>2 DEF Evolves
<1>7. CASE ~Bucket_ContainsNode(bucket, node.id) /\ Bucket_IsFull(bucket)
  <2>1. Bad \in SUBSET Slots /\ Bad \subseteq Occupied(bucket)
    BY DEF WithStatus, Occupied
  <2>2. CASE Bad # {}
    <3>1. BadSlot(bucket, time) \in Bad
      BY <2>1, <2>2, FirstSlot DEF BadSlot
    <3>2. r = ReplaceNode(t, b, BadSlot(bucket, time), node)
      BY <1>7, <2>2 DEF Table_InsertNode
    <3>3. /\ BadSlot(bucket, time) \in Occupied(bucket)
          /\ Worst(bucket, BadSlot(bucket, time), time)
      BY <3>1 DEF WithStatus, Worst
    <3> HIDE DEF r, b, bucket
    <3> QED
      BY <1>6, <1>7, <3>2, <3>3 DEF r
  <2>3. CASE Bad = {} /\ Old # {}
    <3>1. /\ QuestionableSlot(bucket, time) \in Old
          /\ \A q \in Old :
                OldestTime(bucket.nodes[QuestionableSlot(bucket, time)])
                  <= OldestTime(bucket.nodes[q])
      BY <1>2, <2>3, QuestionableSlotOK
    <3>2. r = ReplaceNode(t, b, QuestionableSlot(bucket, time), node)
      BY <1>7, <2>3 DEF Table_InsertNode
    <3>3. /\ QuestionableSlot(bucket, time) \in Occupied(bucket)
          /\ Node_Status(bucket.nodes[QuestionableSlot(bucket, time)], time)
               = "Questionable"
      BY <3>1 DEF WithStatus
    <3>4. Worst(bucket, QuestionableSlot(bucket, time), time)
      BY <2>3, <3>1, <3>3 DEF Worst
    <3> HIDE DEF r, b, bucket
    <3> QED
      BY <1>6, <1>7, <3>2, <3>3, <3>4 DEF r
  <2>4. CASE Bad = {} /\ Old = {}
    <3> DEFINE u == SplitBucket(t, b, node)
    <3>1. r = AddToBucket(u, node)
      BY <1>7, <2>4 DEF Table_InsertNode
    <3>2. /\ WellFormed(u) /\ u.id = t.id
          /\ \A id \in Hashes : Table_HasNode(u, id) <=> Table_HasNode(t, id)
      BY SplitOK DEF SplitBucket, Table_IsLastBucket, Table_CanAddBucket
    <3> HIDE DEF u, r
    <3>3. ~Table_HasNode(u, node.id)
      BY <1>1, <1>4, <1>7, <3>2
    <3>4. WellFormed(r.table) /\ r.rc # "ERROR" /\ r.table.id = t.id
      BY <3>1, <3>2, <3>3, AddToBucketOK
    <3>5. \A id \in Hashes : Table_HasNode(t, id) => Table_HasNode(r.table, id)
      BY <3>1, <3>2, <3>3, AddToBucketKeeps
    <3> QED
      BY <3>4, <3>5 DEF r, Evolves, Kept
  <2> QED
    BY <2>2, <2>3, <2>4
<1> QED
  BY <1>3, <1>5, <1>7

(* Table_CopyAndAddNode and the first part of both Mark operations. *)
LEMMA FindOrAddOK ==
    ASSUME NEW t, WellFormed(t), NEW node \in Node, NEW time \in Nat
    PROVE  /\ WellFormed(Table_CopyAndAddNode(t, node, time))
           /\ WellFormed(FindOrAdd(t, node, time))
           /\ Evolves(t, Table_CopyAndAddNode(t, node, time), time)
           /\ Evolves(t, FindOrAdd(t, node, time), time)
<1>1. Node_Copy(node) \in Node
  BY DEF Node_Copy, Node_Create, Node
<1>2. Evolves(t, t, time)
  BY DEF Evolves, Kept
<1>3. /\ WellFormed(Table_CopyAndAddNode(t, node, time))
      /\ Evolves(t, Table_CopyAndAddNode(t, node, time), time)
  BY <1>1, <1>2, InsertNodeOK DEF Table_CopyAndAddNode
<1> QED
  BY <1>2, <1>3 DEF FindOrAdd

(* What is kept after that is kept altogether. *)
LEMMA EvolvesKept ==
    ASSUME NEW t, NEW u, NEW v, NEW time, Evolves(t, u, time), Kept(u, v),
           v.id = u.id
    PROVE  Evolves(t, v, time)
BY DEF Evolves, Kept, KeptBut

(* Updating a node in its slot. *)
LEMMA UpdateNodeOK ==
    ASSUME NEW t, WellFormed(t), NEW b \in 0 .. t.end - 1,
           NEW s \in Occupied(t.buckets[b]),
           NEW node \in Node, node.id = t.buckets[b].nodes[s].id
    PROVE  /\ WellFormed([t EXCEPT !.buckets[b].nodes[s] = node])
           /\ Kept(t, [t EXCEPT !.buckets[b].nodes[s] = node])
           /\ [t EXCEPT !.buckets[b].nodes[s] = node].id = t.id
<1> DEFINE new == ReplaceSlot(t.buckets[b], s, node)
<1>1. /\ BucketOK(t.buckets[b]) /\ InPlace(t, b)
      /\ b \in BucketIndexes
      /\ t.buckets \in [BucketIndexes -> Bucket \cup {NULL}]
  BY TableAssumption, HashBitsAssumption
     DEF WellFormed, IsTable, BucketIndexes, MaxBuckets
<1>2. \A r \in Occupied(t.buckets[b]) \ {s} : t.buckets[b].nodes[r].id # node.id
  BY <1>1 DEF BucketOK
<1>3. /\ BucketOK(new)
      /\ Occupied(new) = Occupied(t.buckets[b])
      /\ new.nodes[s] = node
      /\ \A r \in Occupied(t.buckets[b]) \ {s} :
            new.nodes[r] = t.buckets[b].nodes[r]
  BY <1>1, <1>2, ReplaceSlotOK
<1>4. [t EXCEPT !.buckets[b].nodes[s] = node] = [t EXCEPT !.buckets[b] = new]
  BY DEF ReplaceSlot
<1> HIDE DEF new
<1>5. \A r \in Occupied(new) : new.nodes[r].id = t.buckets[b].nodes[r].id
  BY <1>3
<1>6. \A r \in Occupied(new) : Table_FindBucket(t, new.nodes[r].id) = b
  BY <1>1, <1>3, <1>5 DEF InPlace
<1>7. /\ WellFormed([t EXCEPT !.buckets[b] = new])
      /\ [t EXCEPT !.buckets[b] = new].id = t.id
  BY <1>3, <1>6, ChangeBucketOK
<1>8. ASSUME NEW id \in Hashes, Table_HasNode(t, id)
      PROVE  Table_HasNode([t EXCEPT !.buckets[b] = new], id)
  <2>1. Table_FindBucket(t, id) = b => Bucket_ContainsNode(new, id)
    BY <1>3, <1>5, <1>8 DEF Table_HasNode, Bucket_ContainsNode
  <2> QED
    BY <2>1, <1>8, ChangeBucketHas
<1> QED
  BY <1>4, <1>7, <1>8 DEF Kept

(* Table_FindNode finds the node that Table_HasNode promises. *)
LEMMA FindNodeOK ==
    ASSUME NEW t, WellFormed(t), NEW id \in Hashes, Table_HasNode(t, id)
    PROVE  /\ Table_FindBucket(t, id) \in 0 .. t.end - 1
           /\ FindSlot(t, id) \in Occupied(t.buckets[Table_FindBucket(t, id)])
           /\ Table_FindNode(t, id) \in Node
           /\ Table_FindNode(t, id).id = id
<1> DEFINE b == Table_FindBucket(t, id)
           S == {s \in Occupied(t.buckets[b]) : t.buckets[b].nodes[s].id = id}
<1>1. b \in 0 .. t.end - 1
  BY FindBucketType DEF WellFormed
<1>2. S # {} /\ S \in SUBSET Slots
  BY DEF Table_HasNode, Bucket_ContainsNode, Occupied
<1>3. First(S) \in S
  BY <1>2, FirstSlot
<1>4. FindSlot(t, id) \in S
  BY <1>3 DEF FindSlot
<1>5. t.buckets[b] \in Bucket
  BY <1>1 DEF WellFormed, BucketOK
<1> QED
  BY <1>1, <1>4, <1>5 DEF Table_FindNode, Bucket, Occupied

(* SetFound writes back what Table_FindNode found. *)
LEMMA SetFoundOK ==
    ASSUME NEW t, WellFormed(t), NEW node \in Node, Table_HasNode(t, node.id)
    PROVE  /\ WellFormed(SetFound(t, node))
           /\ Kept(t, SetFound(t, node))
           /\ SetFound(t, node).id = t.id
<1> DEFINE b == Table_FindBucket(t, node.id)
           s == FindSlot(t, node.id)
<1>1. node.id \in Hashes
  BY DEF Node
<1>2. /\ b \in 0 .. t.end - 1 /\ s \in Occupied(t.buckets[b])
      /\ node.id = t.buckets[b].nodes[s].id
  BY <1>1, FindNodeOK DEF Table_FindNode
<1>3. SetFound(t, node) = [t EXCEPT !.buckets[b].nodes[s] = node]
  BY DEF SetFound
<1> HIDE DEF b, s
<1> QED
  BY <1>2, <1>3, UpdateNodeOK

(* A reply keeps the table well formed and throws out the worst node only. *)
LEMMA MarkReplyOK ==
    ASSUME NEW t, WellFormed(t), NEW node \in Node, NEW type, NEW time \in Nat
    PROVE  /\ WellFormed(Table_MarkReply(t, node, type, time))
           /\ Evolves(t, Table_MarkReply(t, node, type, time), time)
<1> DEFINE u == FindOrAdd(t, node, time)
           found == Table_FindNode(u, node.id)
           new == [found EXCEPT
                !.reply_time = time,
                !.pending_queries = Decrement(@),
                !.replied = @ \cup ({type} \cap CountedReplies)]
<1>1. WellFormed(u) /\ Evolves(t, u, time)
  BY FindOrAddOK
<1>2. node.id \in Hashes
  BY DEF Node
<1>3. Table_MarkReply(t, node, type, time)
        = IF ~Table_HasNode(u, node.id) THEN u ELSE SetFound(u, new)
  BY DEF Table_MarkReply
<1> HIDE DEF u
<1>4. CASE ~Table_HasNode(u, node.id)
  BY <1>1, <1>3, <1>4
<1>5. CASE Table_HasNode(u, node.id)
  <2>1. found \in Node /\ found.id = node.id
    BY <1>1, <1>2, <1>5, FindNodeOK
  <2> HIDE DEF found
  <2>2. new \in Node /\ new.id = node.id
    <3>1. Decrement(found.pending_queries) \in Nat
      BY <2>1 DEF Node, Decrement
    <3>2. found.replied \cup ({type} \cap CountedReplies) \in SUBSET CountedReplies
      BY <2>1 DEF Node
    <3> QED
      BY <2>1, <3>1, <3>2 DEF Node
  <2> HIDE DEF new
  <2>3. /\ WellFormed(SetFound(u, new)) /\ Kept(u, SetFound(u, new))
        /\ SetFound(u, new).id = u.id
    BY <1>1, <1>5, <2>2, SetFoundOK
  <2> QED
    BY <1>1, <1>3, <1>5, <2>3, EvolvesKept
<1> QED
  BY <1>4, <1>5

(* Likewise for a query. *)
LEMMA MarkQueryOK ==
    ASSUME NEW t, WellFormed(t), NEW node \in Node, NEW time \in Nat
    PROVE  /\ WellFormed(Table_MarkQuery(t, node, time))
           /\ Evolves(t, Table_MarkQuery(t, node, time), time)
<1> DEFINE u == FindOrAdd(t, node, time)
           found == Table_FindNode(u, node.id)
           new == [found EXCEPT !.query_time = time]
<1>1. WellFormed(u) /\ Evolves(t, u, time)
  BY FindOrAddOK
<1>2. node.id \in Hashes
  BY DEF Node
<1>3. Table_MarkQuery(t, node, time)
        = IF ~Table_HasNode(u, node.id) THEN u ELSE SetFound(u, new)
  BY DEF Table_MarkQuery
<1> HIDE DEF u
<1>4. CASE ~Table_HasNode(u, node.id)
  BY <1>1, <1>3, <1>4
<1>5. CASE Table_HasNode(u, node.id)
  <2>1. found \in Node /\ found.id = node.id
    BY <1>1, <1>2, <1>5, FindNodeOK
  <2> HIDE DEF found
  <2>2. new \in Node /\ new.id = node.id
    BY <2>1 DEF Node
  <2> HIDE DEF new
  <2>3. /\ WellFormed(SetFound(u, new)) /\ Kept(u, SetFound(u, new))
        /\ SetFound(u, new).id = u.id
    BY <1>1, <1>5, <2>2, SetFoundOK
  <2> QED
    BY <1>1, <1>3, <1>5, <2>3, EvolvesKept
<1> QED
  BY <1>4, <1>5

(* A table starts with one empty bucket. *)
LEMMA TableCreateOK ==
    ASSUME NEW id \in Hashes
    PROVE  WellFormed(Table_Create(id)) /\ Table_Create(id).id = id
<1> DEFINE t == Table_Create(id)
<1>1. MaxBuckets \in Nat \ {0} /\ 0 \in BucketIndexes
  BY TableAssumption, HashBitsAssumption DEF MaxBuckets, BucketIndexes
<1>2. /\ t.id = id /\ t.end = 1
      /\ t.buckets = [i \in BucketIndexes |-> IF i = 0 THEN Bucket_Create
                                                       ELSE NULL]
      /\ t = [id |-> t.id, end |-> t.end, buckets |-> t.buckets]
  BY DEF Table_Create
<1>3. /\ Bucket_Create \in Bucket /\ Occupied(Bucket_Create) = {}
  BY TableAssumption DEF Bucket_Create, Bucket, Occupied
<1>4. BucketOK(Bucket_Create)
  BY <1>3, FS_EmptySet DEF BucketOK, Bucket_Create
<1> HIDE DEF t
<1>5. t.buckets[0] = Bucket_Create /\ \A i \in BucketIndexes \ {0} : t.buckets[i] = NULL
  BY <1>1, <1>2
<1>6. t.buckets \in [BucketIndexes -> Bucket \cup {NULL}]
  BY <1>1, <1>2, <1>3
<1>7. t \in [id : Hashes, end : 1 .. MaxBuckets,
             buckets : [BucketIndexes -> Bucket \cup {NULL}]]
  BY <1>1, <1>2, <1>6
<1>8. IsTable(t)
  BY <1>1, <1>2, <1>3, <1>5, <1>7 DEF IsTable, BucketIndexes
<1>9. \A b \in 0 .. t.end - 1 : BucketOK(t.buckets[b]) /\ InPlace(t, b)
  BY <1>2, <1>3, <1>4, <1>5 DEF InPlace
<1> QED
  BY <1>2, <1>8, <1>9 DEF WellFormed, t

(* A node of a well-formed table is found, and what is found is stored. *)
LEMMA StoredIffFound ==
    ASSUME NEW t, WellFormed(t), NEW id \in Hashes
    PROVE  id \in StoredIds(t) <=> Table_HasNode(t, id)
<1> DEFINE b == Table_FindBucket(t, id)
<1>1. IsTable(t) /\ b \in 0 .. t.end - 1 /\ b \in BucketIndexes
  BY FindBucketType DEF WellFormed
<1>2. ASSUME Table_HasNode(t, id) PROVE id \in StoredIds(t)
  <2>1. PICK s \in Slots : /\ t.buckets[b].nodes[s] # NULL
                           /\ t.buckets[b].nodes[s].id = id
    BY <1>2 DEF Table_HasNode, Bucket_ContainsNode, Occupied
  <2>2. <<b, s>> \in Places(t)
    BY <1>1, <2>1 DEF Places, IsTable
  <2> HIDE DEF b
  <2> QED
    BY <2>1, <2>2 DEF StoredIds, NodeAt
<1>3. ASSUME id \in StoredIds(t) PROVE Table_HasNode(t, id)
  <2>1. PICK p \in Places(t) : NodeAt(t, p).id = id
    BY <1>3 DEF StoredIds
  <2>2. /\ p[1] \in 0 .. t.end - 1
        /\ p[2] \in Occupied(t.buckets[p[1]])
    BY <1>1, <2>1 DEF Places, BucketIndexes, Occupied, IsTable
  <2>3. Table_FindBucket(t, id) = p[1]
    BY <2>1, <2>2 DEF WellFormed, InPlace, NodeAt
  <2> QED
    BY <2>1, <2>2, <2>3 DEF Table_HasNode, Bucket_ContainsNode, NodeAt
<1> QED
  BY <1>2, <1>3

(* Where a node is looked for, its shared prefix is as long or longer. *)
LEMMA FindBucketPrefix ==
    ASSUME NEW t, IsTable(t), NEW id \in Hashes
    PROVE  /\ Hash_SharedPrefix(t.id, id) \in 0 .. HashBits
           /\ Table_FindBucket(t, id) <= Hash_SharedPrefix(t.id, id)
           /\ Table_FindBucket(t, id) < t.end - 1
                => Hash_SharedPrefix(t.id, id) = Table_FindBucket(t, id)
<1>1. t.id \in Hashes /\ t.end \in 1 .. MaxBuckets
  BY DEF IsTable
<1>2. Hash_SharedPrefix(t.id, id) \in 0 .. HashBits
  BY <1>1, SharedPrefixType
<1>3. MaxBuckets \in Nat
  BY TableAssumption, HashBitsAssumption DEF MaxBuckets
<1> QED
  BY <1>1, <1>2, <1>3, HashBitsAssumption DEF Table_FindBucket

(* "The last bits worth of hash ids will all fit in the same bucket":      *)
(* there are no more than K ids that belong in the last bucket there can   *)
(* be, so that it is not full while one of them is missing.                *)
LEMMA LastBucketRoom ==
    ASSUME NEW t, WellFormed(t), NEW id \in Hashes, ~Table_HasNode(t, id),
           Table_FindBucket(t, id) = MaxBuckets - 1
    PROVE  ~Bucket_IsFull(t.buckets[MaxBuckets - 1])
<1> DEFINE b == MaxBuckets - 1
           bucket == t.buckets[b]
           Id(s) == IF s \in Slots THEN bucket.nodes[s].id ELSE id
           Low == b + 1 .. HashBits
           Bits(x) == {i \in Low : x[i] = 1}
           f == [s \in 0 .. K |-> Bits(Id(s))]
<1>1. SUFFICES ASSUME Bucket_IsFull(bucket) PROVE FALSE
  OBVIOUS
<1>2. /\ IsTable(t) /\ b \in 0 .. t.end - 1
      /\ b = HashBits - LastBits /\ b \in Nat
      /\ BucketOK(bucket) /\ InPlace(t, b)
  <2>1. IsTable(t) /\ b \in 0 .. t.end - 1
    BY FindBucketType DEF WellFormed
  <2> QED
    BY <2>1, TableAssumption, HashBitsAssumption DEF WellFormed, MaxBuckets
<1>3. Occupied(bucket) = Slots
  BY <1>1, <1>2, FullMeansNoEmptySlot
<1>4. \A s \in Slots : bucket.nodes[s] \in Node /\ bucket.nodes[s].id \in Hashes
  BY <1>2, <1>3 DEF BucketOK, Bucket, Occupied, Node
<1>5. ASSUME NEW s \in 0 .. K
      PROVE  /\ Id(s) \in Hashes
             /\ Table_FindBucket(t, Id(s)) = b
  BY <1>2, <1>3, <1>4 DEF InPlace
<1>6. ASSUME NEW r \in 0 .. K, NEW s \in 0 .. K, Id(r) = Id(s) PROVE r = s
  <2>1. CASE r \in Slots /\ s \in Slots
    BY <1>2, <1>3, <1>6, <2>1 DEF BucketOK
  <2>2. CASE r \notin Slots /\ s \notin Slots
    BY <2>2, TableAssumption DEF Slots
  <2>3. \A q \in Slots : bucket.nodes[q].id # id
    BY <1>3 DEF Table_HasNode, Bucket_ContainsNode
  <2> QED
    BY <1>6, <2>1, <2>2, <2>3
<1> HIDE DEF Id
<1>7. ASSUME NEW s \in 0 .. K, NEW i \in 1 .. b
      PROVE  Id(s)[i] = t.id[i]
  <2>1. /\ Hash_SharedPrefix(t.id, Id(s)) \in 0 .. HashBits
        /\ b <= Hash_SharedPrefix(t.id, Id(s))
    BY <1>2, <1>5, FindBucketPrefix
  <2>2. \A j \in 1 .. Hash_SharedPrefix(t.id, Id(s)) : t.id[j] = Id(s)[j]
    BY <1>2, <1>5, SharedPrefixType DEF IsTable
  <2>3. i \in 1 .. Hash_SharedPrefix(t.id, Id(s))
    BY <1>2, <2>1, HashBitsAssumption
  <2> QED
    BY <2>2, <2>3
<1>8. ASSUME NEW r \in 0 .. K, NEW s \in 0 .. K, Bits(Id(r)) = Bits(Id(s))
      PROVE  r = s
  <2>1. Id(r) \in Hashes /\ Id(s) \in Hashes
    BY <1>5
  <2>2. ASSUME NEW i \in BitPositions PROVE Id(r)[i] = Id(s)[i]
    <3>1. CASE i \in 1 .. b
      BY <1>7, <3>1
    <3>2. CASE i \in Low
      <4>1. Id(r)[i] \in {0, 1} /\ Id(s)[i] \in {0, 1}
        BY <2>1 DEF Hashes
      <4>2. Id(r)[i] = 1 <=> Id(s)[i] = 1
        BY <1>8, <3>2
      <4> QED
        BY <4>1, <4>2
    <3> QED
      BY <1>2, <3>1, <3>2, HashBitsAssumption DEF BitPositions
  <2>3. Id(r) = Id(s)
    BY <2>1, <2>2 DEF Hashes
  <2> QED
    BY <1>6, <2>3
<1>9. IsFiniteSet(0 .. K) /\ Cardinality(0 .. K) = K + 1
  BY FS_Interval, TableAssumption
<1>10. /\ IsFiniteSet(SUBSET Low)
       /\ Cardinality(SUBSET Low) = 2 ^ LastBits
  <2>1. b + 1 \in Int /\ HashBits \in Int /\ HashBits - (b + 1) + 1 = LastBits
        /\ (b + 1 > HashBits => LastBits = 0)
    BY <1>2, TableAssumption, HashBitsAssumption
  <2>2. IsFiniteSet(Low) /\ Cardinality(Low) = LastBits
    BY <2>1, FS_Interval
  <2> QED
    BY <2>2, FS_SUBSET
<1>11. f \in [0 .. K -> SUBSET Low]
  OBVIOUS
<1>12. 2 ^ LastBits < K + 1
  <2>1. 2 ^ LastBits \in Nat
    BY <1>10, FS_CardinalityType
  <2> QED
    BY <2>1, LastBitsAssumption, TableAssumption
<1>13. \A r, s \in 0 .. K : f[r] = f[s] => r = s
  BY <1>8
<1> HIDE DEF f, Low
<1>14. \E r, s \in 0 .. K : r # s /\ f[r] = f[s]
  BY <1>9, <1>10, <1>11, <1>12, FS_PigeonHole
<1> QED
  BY <1>13, <1>14

(* Table_InsertNode refuses a node for want of a node to replace, and only *)
(* in a bucket that has just been split or that no split would relieve.    *)
LEMMA RefusedOK ==
    ASSUME NEW t, WellFormed(t), NEW node \in Node, NEW time \in Nat,
           NEW b, b = Table_FindBucket(t, node.id),
           NEW r, r = Table_InsertNode(t, node, time), r.rc = "OKFull"
    PROVE  /\ \A s \in Slots : Node_Status(t.buckets[b].nodes[s], time)
                                  \in {"Good", "Unknown"}
           /\ \/ r.table.end = t.end + 1
              \/ \A s \in Slots :
                    Hash_SharedPrefix(t.id, t.buckets[b].nodes[s].id) = b
<1> DEFINE bucket == t.buckets[b]
           u == SplitBucket(t, b, node)
<1>1. node.id \in Hashes /\ IsTable(t) /\ b \in 0 .. t.end - 1
      /\ t.end \in 1 .. MaxBuckets /\ MaxBuckets \in Nat
  <2>1. node.id \in Hashes /\ IsTable(t)
    BY DEF Node, WellFormed
  <2> QED
    BY <2>1, FindBucketType, TableAssumption, HashBitsAssumption
       DEF IsTable, MaxBuckets
<1>2. BucketOK(bucket) /\ InPlace(t, b)
  BY <1>1 DEF WellFormed
<1>3. /\ ~Bucket_ContainsNode(bucket, node.id)
      /\ Bucket_IsFull(bucket)
      /\ WithStatus(bucket, "Bad", time) = {}
      /\ WithStatus(bucket, "Questionable", time) = {}
      /\ r = AddToBucket(u, node)
  BY DEF Table_InsertNode, AddToBucket, ReplaceNode, InsertResult
<1>4. Occupied(bucket) = Slots
  BY <1>2, <1>3, FullMeansNoEmptySlot
<1>5. \A s \in Slots : Node_Status(bucket.nodes[s], time) \in {"Good", "Unknown"}
  <2>1. \A s \in Slots : Node_Status(bucket.nodes[s], time)
                            \in {"Good", "Questionable", "Unknown", "Bad"}
    BY DEF Node_Status
  <2> QED
    BY <1>3, <1>4, <2>1 DEF WithStatus
<1>6. r.table = u
  BY <1>3 DEF AddToBucket, InsertResult
<1>7. ASSUME NEW s \in Slots
      PROVE  /\ Hash_SharedPrefix(t.id, bucket.nodes[s].id) \in 0 .. HashBits
             /\ b <= Hash_SharedPrefix(t.id, bucket.nodes[s].id)
             /\ b < t.end - 1
                  => Hash_SharedPrefix(t.id, bucket.nodes[s].id) = b
  <2>1. bucket.nodes[s].id \in Hashes
    BY <1>2, <1>4 DEF BucketOK, Bucket, Occupied, Node
  <2>2. Table_FindBucket(t, bucket.nodes[s].id) = b
    BY <1>2, <1>4 DEF InPlace
  <2> QED
    BY <1>1, <2>1, <2>2, FindBucketPrefix
<1>8. CASE b # t.end - 1
  BY <1>1, <1>5, <1>7, <1>8
<1>9. CASE b = t.end - 1 /\ ~(t.end < MaxBuckets)
  <2>1. b = MaxBuckets - 1
    BY <1>1, <1>9
  <2>2. ~Table_HasNode(t, node.id)
    BY <1>3 DEF Table_HasNode
  <2> QED
    BY <1>1, <1>3, <2>1, <2>2, LastBucketRoom
<1>10. CASE b = t.end - 1 /\ t.end < MaxBuckets
  <2>1. CASE Table_HasShiftableNodes(t, b, node)
    <3>1. u = Table_ShiftBucketNodes(Table_AddBucket(t), b)
      BY <1>10, <2>1
         DEF SplitBucket, Table_IsLastBucket, Table_CanAddBucket
    <3>2. u.end = t.end + 1
      BY <1>10, <3>1, SplitOK
    <3> QED
      BY <1>5, <1>6, <3>2
  <2>2. CASE ~Table_HasShiftableNodes(t, b, node)
    <3>1. \A s \in Slots : ~(b < Hash_SharedPrefix(t.id, bucket.nodes[s].id))
      BY <1>4, <2>2 DEF Table_HasShiftableNodes, ShiftableSlots
    <3>2. \A s \in Slots : Hash_SharedPrefix(t.id, bucket.nodes[s].id) = b
      BY <1>1, <1>7, <3>1, HashBitsAssumption
    <3> QED
      BY <1>5, <3>2
  <2> QED
    BY <2>1, <2>2
<1> QED
  BY <1>8, <1>9, <1>10

-----------------------------------------------------------------------------
(* Which nodes a table holds.  N is any set of nodes: those that have been *)
(* heard from, for instance, or those that have the ids of a set.          *)

(* Changing one bucket. *)
LEMMA ChangeBucketIn ==
    ASSUME NEW t, WellFormed(t), NEW b \in 0 .. t.end - 1, NEW bucket,
           NEW N, OnlyIn(t, N), BucketIn(bucket, N)
    PROVE  OnlyIn([t EXCEPT !.buckets[b] = bucket], N)
<1> DEFINE u == [t EXCEPT !.buckets[b] = bucket]
<1>1. IsTable(t) /\ b \in BucketIndexes
  BY TableAssumption, HashBitsAssumption
     DEF WellFormed, IsTable, BucketIndexes, MaxBuckets
<1>2. u.end = t.end /\ u.buckets = [t.buckets EXCEPT ![b] = bucket]
  BY <1>1 DEF IsTable
<1> HIDE DEF u
<1>3. ASSUME NEW c \in 0 .. t.end - 1 PROVE BucketIn(u.buckets[c], N)
  <2>1. c \in BucketIndexes /\ c \in DOMAIN t.buckets
    BY <1>1, TableAssumption, HashBitsAssumption
       DEF IsTable, BucketIndexes, MaxBuckets
  <2> QED
    BY <1>2, <2>1 DEF OnlyIn
<1> QED
  BY <1>2, <1>3 DEF OnlyIn, u

(* The last part of Table_InsertNode. *)
LEMMA AddToBucketIn ==
    ASSUME NEW t, WellFormed(t), NEW node \in Node,
           ~Table_HasNode(t, node.id),
           NEW N, OnlyIn(t, N), node \in N
    PROVE  OnlyIn(AddToBucket(t, node).table, N)
<1> DEFINE b == Table_FindBucket(t, node.id)
           bucket == t.buckets[b]
           new == Bucket_AddNode(bucket, node)
<1>1. node.id \in Hashes /\ b \in 0 .. t.end - 1
  BY FindBucketType DEF Node, WellFormed
<1>2. BucketOK(bucket) /\ BucketIn(bucket, N)
  BY <1>1 DEF WellFormed, OnlyIn
<1>3. CASE Bucket_IsFull(bucket) \/ Occupied(bucket) = Slots
  BY <1>3 DEF AddToBucket, InsertResult
<1>4. CASE ~Bucket_IsFull(bucket) /\ Occupied(bucket) # Slots
  <2>1. AddToBucket(t, node).table = [t EXCEPT !.buckets[b] = new]
    BY <1>4 DEF AddToBucket, InsertResult
  <2>2. ~Bucket_ContainsNode(bucket, node.id)
    BY DEF Table_HasNode
  <2>3. \A s \in Occupied(new) :
           new.nodes[s] = node \/ (s \in Occupied(bucket)
                                    /\ new.nodes[s] = bucket.nodes[s])
    BY <1>2, <1>4, <2>2, AddNodeOK
  <2> HIDE DEF new, b
  <2>4. BucketIn(new, N)
    BY <1>2, <2>3 DEF BucketIn
  <2> QED
    BY <1>1, <2>1, <2>4, ChangeBucketIn
<1> QED
  BY <1>3, <1>4

(* Replacing a node. *)
LEMMA ReplaceNodeIn ==
    ASSUME NEW t, WellFormed(t), NEW node \in Node,
           ~Table_HasNode(t, node.id),
           NEW b, b = Table_FindBucket(t, node.id),
           NEW s \in Occupied(t.buckets[b]),
           NEW N, OnlyIn(t, N), node \in N
    PROVE  OnlyIn(ReplaceNode(t, b, s, node).table, N)
<1> DEFINE new == ReplaceSlot(t.buckets[b], s, node)
<1>1. node.id \in Hashes /\ b \in 0 .. t.end - 1
  BY FindBucketType DEF Node, WellFormed
<1>2. BucketOK(t.buckets[b]) /\ BucketIn(t.buckets[b], N)
  BY <1>1 DEF WellFormed, OnlyIn
<1>3. \A r \in Occupied(t.buckets[b]) \ {s} : t.buckets[b].nodes[r].id # node.id
  BY DEF Table_HasNode, Bucket_ContainsNode
<1>4. /\ Occupied(new) = Occupied(t.buckets[b])
      /\ new.nodes[s] = node
      /\ \A r \in Occupied(t.buckets[b]) \ {s} :
            new.nodes[r] = t.buckets[b].nodes[r]
  BY <1>2, <1>3, ReplaceSlotOK
<1>5. ReplaceNode(t, b, s, node).table = [t EXCEPT !.buckets[b] = new]
  BY DEF ReplaceNode, InsertResult
<1> HIDE DEF new
<1>6. BucketIn(new, N)
  BY <1>2, <1>4 DEF BucketIn
<1> QED
  BY <1>1, <1>5, <1>6, ChangeBucketIn

(* Table_InsertNode adds that node at most. *)
LEMMA InsertNodeIn ==
    ASSUME NEW t, WellFormed(t), NEW node \in Node, NEW time \in Nat,
           NEW N, OnlyIn(t, N), node \in N
    PROVE  OnlyIn(Table_InsertNode(t, node, time).table, N)
<1> DEFINE b == Table_FindBucket(t, node.id)
           bucket == t.buckets[b]
           r == Table_InsertNode(t, node, time)
           Bad == WithStatus(bucket, "Bad", time)
           Old == WithStatus(bucket, "Questionable", time)
<1>1. node.id \in Hashes /\ b \in 0 .. t.end - 1
  BY FindBucketType DEF Node, WellFormed
<1>2. BucketOK(bucket)
  BY <1>1 DEF WellFormed
<1>3. CASE Bucket_ContainsNode(bucket, node.id)
  BY <1>3 DEF Table_InsertNode, InsertResult
<1>4. CASE ~Bucket_ContainsNode(bucket, node.id)
  <2>1. ~Table_HasNode(t, node.id)
    BY <1>4 DEF Table_HasNode
  <2>2. CASE ~Bucket_IsFull(bucket)
    <3>1. r = AddToBucket(t, node)
      BY <1>4, <2>2 DEF Table_InsertNode
    <3> QED
      BY <2>1, <3>1, AddToBucketIn
  <2>3. CASE Bucket_IsFull(bucket) /\ Bad # {}
    <3>1. r = ReplaceNode(t, b, BadSlot(bucket, time), node)
      BY <1>4, <2>3 DEF Table_InsertNode
    <3>2. Bad \in SUBSET Slots /\ Bad \subseteq Occupied(bucket)
      BY DEF WithStatus, Occupied
    <3>3. BadSlot(bucket, time) \in Occupied(bucket)
      BY <2>3, <3>2, FirstSlot DEF BadSlot
    <3> HIDE DEF r
    <3>4. OnlyIn(r.table, N)
      BY <2>1, <3>1, <3>3, ReplaceNodeIn
    <3> QED
      BY <3>4 DEF r
  <2>4. CASE Bucket_IsFull(bucket) /\ Bad = {} /\ Old # {}
    <3>1. r = ReplaceNode(t, b, QuestionableSlot(bucket, time), node)
      BY <1>4, <2>4 DEF Table_InsertNode
    <3>2. QuestionableSlot(bucket, time) \in Old
      BY <1>2, <2>4, QuestionableSlotOK
    <3>3. QuestionableSlot(bucket, time) \in Occupied(bucket)
      BY <3>2 DEF WithStatus
    <3> HIDE DEF r
    <3>4. OnlyIn(r.table, N)
      BY <2>1, <3>1, <3>3, ReplaceNodeIn
    <3> QED
      BY <3>4 DEF r
  <2>5. CASE Bucket_IsFull(bucket) /\ Bad = {} /\ Old = {}
    <3> DEFINE u == SplitBucket(t, b, node)
    <3>1. r = AddToBucket(u, node)
      BY <1>4, <2>5 DEF Table_InsertNode
    <3>2. /\ WellFormed(u) /\ OnlyIn(u, N)
          /\ \A id \in Hashes : Table_HasNode(u, id) <=> Table_HasNode(t, id)
      BY SplitOK DEF SplitBucket, Table_IsLastBucket, Table_CanAddBucket
    <3> HIDE DEF u, r
    <3>3. OnlyIn(r.table, N)
      BY <1>1, <2>1, <3>1, <3>2, AddToBucketIn
    <3> QED
      BY <3>3 DEF r
  <2> QED
    BY <2>2, <2>3, <2>4, <2>5
<1> QED
  BY <1>3, <1>4

(* Table_CopyAndAddNode adds a copy at most. *)
LEMMA CopyAndAddIn ==
    ASSUME NEW t, WellFormed(t), NEW node \in Node, NEW time \in Nat,
           NEW N, OnlyIn(t, N), Node_Copy(node) \in N
    PROVE  /\ OnlyIn(Table_CopyAndAddNode(t, node, time), N)
           /\ OnlyIn(FindOrAdd(t, node, time), N)
<1>1. Node_Copy(node) \in Node
  BY DEF Node_Copy, Node_Create, Node
<1>2. OnlyIn(Table_CopyAndAddNode(t, node, time), N)
  BY <1>1, InsertNodeIn DEF Table_CopyAndAddNode
<1> QED
  BY <1>2 DEF FindOrAdd

(* The node found is one of the table's, and the others have other ids. *)
LEMMA FoundIn ==
    ASSUME NEW t, WellFormed(t), NEW node \in Node, NEW N,
           OnlyIn(t, N \cup {Node_Copy(node)})
    PROVE  /\ OthersIn(t, node.id, N)
           /\ ~Table_HasNode(t, node.id) => OnlyIn(t, N)
           /\ Table_HasNode(t, node.id) =>
                 Table_FindNode(t, node.id) \in N \cup {Node_Copy(node)}
<1>1. node.id \in Hashes /\ Node_Copy(node).id = node.id
  BY DEF Node, Node_Copy, Node_Create
<1>2. OthersIn(t, node.id, N)
  BY <1>1 DEF OthersIn, OnlyIn, BucketIn
<1>3. ASSUME NEW b \in 0 .. t.end - 1, NEW s \in Occupied(t.buckets[b]),
             ~Table_HasNode(t, node.id)
      PROVE  t.buckets[b].nodes[s].id # node.id
  <2>1. Table_FindBucket(t, t.buckets[b].nodes[s].id) = b
    BY DEF WellFormed, InPlace
  <2> QED
    BY <1>3, <2>1 DEF Table_HasNode, Bucket_ContainsNode
<1>4. ~Table_HasNode(t, node.id) => OnlyIn(t, N)
  BY <1>2, <1>3 DEF OthersIn, OnlyIn, BucketIn
<1>5. ASSUME Table_HasNode(t, node.id)
      PROVE  Table_FindNode(t, node.id) \in N \cup {Node_Copy(node)}
  BY <1>1, <1>5, FindNodeOK DEF Table_FindNode, OnlyIn, BucketIn
<1> QED
  BY <1>2, <1>4, <1>5

(* Writing the found node back. *)
LEMMA SetFoundIn ==
    ASSUME NEW t, WellFormed(t), NEW node \in Node, Table_HasNode(t, node.id),
           NEW N, OthersIn(t, node.id, N), node \in N
    PROVE  OnlyIn(SetFound(t, node), N)
<1> DEFINE b == Table_FindBucket(t, node.id)
           s == FindSlot(t, node.id)
           new == ReplaceSlot(t.buckets[b], s, node)
           u == [t EXCEPT !.buckets[b] = new]
<1>1. node.id \in Hashes
  BY DEF Node
<1>2. /\ b \in 0 .. t.end - 1 /\ s \in Occupied(t.buckets[b])
      /\ node.id = t.buckets[b].nodes[s].id
  BY <1>1, FindNodeOK DEF Table_FindNode
<1>3. SetFound(t, node) = u
  BY DEF SetFound, ReplaceSlot
<1> HIDE DEF b, s
<1>4. BucketOK(t.buckets[b]) /\ IsTable(t) /\ b \in BucketIndexes
  BY <1>2, TableAssumption, HashBitsAssumption
     DEF WellFormed, IsTable, BucketIndexes, MaxBuckets
<1>5. \A r \in Occupied(t.buckets[b]) \ {s} : t.buckets[b].nodes[r].id # node.id
  BY <1>2, <1>4 DEF BucketOK
<1>6. /\ Occupied(new) = Occupied(t.buckets[b])
      /\ new.nodes[s] = node
      /\ \A r \in Occupied(t.buckets[b]) \ {s} :
            new.nodes[r] = t.buckets[b].nodes[r]
  <2>1. s \in Occupied(t.buckets[b]) /\ BucketOK(t.buckets[b]) /\ node \in Node
    BY <1>2, <1>4
  <2> QED
    BY ONLY <2>1, <1>5, ReplaceSlotOK
<1> HIDE DEF new
<1>7. BucketIn(new, N)
  BY <1>2, <1>5, <1>6 DEF BucketIn, OthersIn
<1>8. u.end = t.end /\ u.buckets = [t.buckets EXCEPT ![b] = new]
  BY <1>4 DEF IsTable
<1> HIDE DEF u
<1>9. ASSUME NEW c \in 0 .. t.end - 1 PROVE BucketIn(u.buckets[c], N)
  <2>1. c \in BucketIndexes /\ c \in DOMAIN t.buckets
    BY <1>4, TableAssumption, HashBitsAssumption
       DEF IsTable, BucketIndexes, MaxBuckets
  <2>2. CASE c = b
    BY <1>7, <1>8, <2>1, <2>2
  <2>3. CASE c # b
    <3>1. u.buckets[c] = t.buckets[c]
      BY <1>8, <2>1, <2>3
    <3>2. ASSUME NEW r \in Occupied(t.buckets[c])
          PROVE  t.buckets[c].nodes[r].id # node.id
      <4>1. Table_FindBucket(t, t.buckets[c].nodes[r].id) = c
        BY DEF WellFormed, InPlace
      <4> QED
        BY <4>1, <2>3 DEF b
    <3> QED
      BY <3>1, <3>2 DEF BucketIn, OthersIn
  <2> QED
    BY <2>2, <2>3
<1> QED
  BY <1>3, <1>8, <1>9 DEF OnlyIn

(* After a reply the table holds what it held, but for the node that has   *)
(* answered.                                                               *)
LEMMA MarkReplyChanges ==
    ASSUME NEW t, WellFormed(t), NEW node \in Node, NEW type, NEW time \in Nat,
           NEW M, OnlyIn(t, M), NEW N, \A n \in M : n.id # node.id => n \in N,
           \A n \in M \cup {Node_Copy(node)} :
               n \in Node /\ n.id = node.id => AfterReply(n, type, time) \in N
    PROVE  OnlyIn(Table_MarkReply(t, node, type, time), N)
<1> DEFINE u == FindOrAdd(t, node, time)
           found == Table_FindNode(u, node.id)
           new == AfterReply(found, type, time)
<1>1. WellFormed(u)
  BY FindOrAddOK
<1>2. node.id \in Hashes
  BY DEF Node
<1>3. OnlyIn(u, M \cup {Node_Copy(node)})
  <2>1. OnlyIn(t, M \cup {Node_Copy(node)})
    BY DEF OnlyIn, BucketIn
  <2> QED
    BY <2>1, CopyAndAddIn
<1>4. Table_MarkReply(t, node, type, time)
        = IF ~Table_HasNode(u, node.id) THEN u ELSE SetFound(u, new)
  BY DEF Table_MarkReply, AfterReply
<1> HIDE DEF u
<1>5. /\ OthersIn(u, node.id, N)
      /\ ~Table_HasNode(u, node.id) => OnlyIn(u, N)
      /\ Table_HasNode(u, node.id) => found \in M \cup {Node_Copy(node)}
  <2>1. /\ OthersIn(u, node.id, M)
        /\ Table_HasNode(u, node.id) => found \in M \cup {Node_Copy(node)}
    BY <1>1, <1>3, FoundIn
  <2> HIDE DEF found
  <2>2. OthersIn(u, node.id, N)
    BY <2>1 DEF OthersIn
  <2>3. ASSUME ~Table_HasNode(u, node.id) PROVE OnlyIn(u, N)
    <3>1. ASSUME NEW b \in 0 .. u.end - 1, NEW s \in Occupied(u.buckets[b])
          PROVE  u.buckets[b].nodes[s].id # node.id
      <4>1. Table_FindBucket(u, u.buckets[b].nodes[s].id) = b
        BY <1>1 DEF WellFormed, InPlace
      <4> QED
        BY <2>3, <4>1 DEF Table_HasNode, Bucket_ContainsNode
    <3> QED
      BY <2>2, <3>1 DEF OthersIn, OnlyIn, BucketIn
  <2> QED
    BY <2>1, <2>2, <2>3
<1>6. CASE ~Table_HasNode(u, node.id)
  BY <1>4, <1>5, <1>6
<1>7. CASE Table_HasNode(u, node.id)
  <2>1. found \in Node /\ found.id = node.id
    BY <1>1, <1>2, <1>7, FindNodeOK
  <2> HIDE DEF found
  <2>2. new \in N
    BY <1>5, <1>7, <2>1
  <2>3. new \in Node /\ new.id = node.id
    <3>1. Decrement(found.pending_queries) \in Nat
      BY <2>1 DEF Node, Decrement
    <3>2. found.replied \cup ({type} \cap CountedReplies) \in SUBSET CountedReplies
      BY <2>1 DEF Node
    <3> QED
      BY <2>1, <3>1, <3>2 DEF Node, AfterReply
  <2> HIDE DEF new
  <2> QED
    BY <1>1, <1>4, <1>5, <1>7, <2>2, <2>3, SetFoundIn
<1> QED
  BY <1>6, <1>7

(* The same for nodes that it may hold before as well as after. *)
LEMMA MarkReplyIn ==
    ASSUME NEW t, WellFormed(t), NEW node \in Node, NEW type, NEW time \in Nat,
           NEW M, OnlyIn(t, M), NEW N, M \in SUBSET N,
           \A n \in M \cup {Node_Copy(node)} :
               n \in Node /\ n.id = node.id => AfterReply(n, type, time) \in N
    PROVE  OnlyIn(Table_MarkReply(t, node, type, time), N)
<1>1. \A n \in M : n.id # node.id => n \in N
  OBVIOUS
<1> QED
  BY <1>1, MarkReplyChanges

(* Likewise for a query. *)
LEMMA MarkQueryIn ==
    ASSUME NEW t, WellFormed(t), NEW node \in Node, NEW time \in Nat,
           NEW M, OnlyIn(t, M), NEW N, M \in SUBSET N,
           \A n \in M \cup {Node_Copy(node)} :
               n \in Node /\ n.id = node.id => AfterQuery(n, time) \in N
    PROVE  OnlyIn(Table_MarkQuery(t, node, time), N)
<1> DEFINE u == FindOrAdd(t, node, time)
           found == Table_FindNode(u, node.id)
           new == AfterQuery(found, time)
<1>1. WellFormed(u)
  BY FindOrAddOK
<1>2. node.id \in Hashes
  BY DEF Node
<1>3. OnlyIn(u, M \cup {Node_Copy(node)})
  <2>1. OnlyIn(t, M \cup {Node_Copy(node)})
    BY DEF OnlyIn, BucketIn
  <2> QED
    BY <2>1, CopyAndAddIn
<1>4. Table_MarkQuery(t, node, time)
        = IF ~Table_HasNode(u, node.id) THEN u ELSE SetFound(u, new)
  BY DEF Table_MarkQuery, AfterQuery
<1> HIDE DEF u
<1>5. /\ OthersIn(u, node.id, N)
      /\ ~Table_HasNode(u, node.id) => OnlyIn(u, N)
      /\ Table_HasNode(u, node.id) => found \in M \cup {Node_Copy(node)}
  <2>1. /\ OthersIn(u, node.id, M)
        /\ ~Table_HasNode(u, node.id) => OnlyIn(u, M)
        /\ Table_HasNode(u, node.id) => found \in M \cup {Node_Copy(node)}
    BY <1>1, <1>3, FoundIn
  <2> HIDE DEF found
  <2> QED
    BY <2>1 DEF OthersIn, OnlyIn, BucketIn
<1>6. CASE ~Table_HasNode(u, node.id)
  BY <1>4, <1>5, <1>6
<1>7. CASE Table_HasNode(u, node.id)
  <2>1. found \in Node /\ found.id = node.id
    BY <1>1, <1>2, <1>7, FindNodeOK
  <2> HIDE DEF found
  <2>2. new \in N
    BY <1>5, <1>7, <2>1
  <2>3. new \in Node /\ new.id = node.id
    BY <2>1 DEF Node, AfterQuery
  <2> HIDE DEF new
  <2> QED
    BY <1>1, <1>4, <1>5, <1>7, <2>2, <2>3, SetFoundIn
<1> QED
  BY <1>6, <1>7

(* A new table holds none. *)
LEMMA TableCreateIn ==
    ASSUME NEW id \in Hashes, NEW N
    PROVE  OnlyIn(Table_Create(id), N)
<1>1. /\ Table_Create(id).end = 1 /\ 0 \in BucketIndexes
      /\ Table_Create(id).buckets[0] = Bucket_Create
  BY TableAssumption, HashBitsAssumption
     DEF Table_Create, MaxBuckets, BucketIndexes
<1>2. Occupied(Bucket_Create) = {}
  BY DEF Bucket_Create, Occupied
<1> QED
  BY <1>1, <1>2 DEF OnlyIn, BucketIn

=============================================================================
