---------------------------- MODULE TableProofs ----------------------------
(***************************************************************************)
(* The operations of RoutingTable, one action at a time, and the theorems  *)
(* about them, for all sizes of ids, buckets and tables.                   *)
(***************************************************************************)
EXTENDS RoutingTable, CloseLemmas

(* The inductive invariant. *)
IndInv == WellFormed(table) /\ table.id = OwnId /\ now \in Nat

-----------------------------------------------------------------------------

(* The client's table is created empty. *)
LEMMA InitOK == Init => IndInv
BY TableCreateOK, RoutingTableAssumption DEF Init, IndInv

(* Every step keeps the invariant and all nodes but the worst of a bucket. *)
LEMMA NextOK ==
    ASSUME IndInv, [Next]_vars
    PROVE  /\ IndInv'
           /\ Evolves(table, table', now)
<1>1. WellFormed(table) /\ table.id = OwnId /\ now \in Nat
  BY DEF IndInv
<1>2. \A id \in Ids : /\ id \in Hashes
                      /\ Node_Create(id) \in Node
                      /\ \A n, m \in Nat :
                         /\ [Node_Create(id) EXCEPT !.reply_time = n,
                                !.pending_queries = m] \in Node
                         /\ [Node_Create(id) EXCEPT !.reply_time = n] \in Node
                         /\ [Node_Create(id) EXCEPT !.query_time = n] \in Node
  BY RoutingTableAssumption DEF Node_Create, Node
<1>3. ASSUME NEW id \in Ids, InsertNode(id)
      PROVE  /\ IndInv'
             /\ Evolves(table, table', now)
  BY <1>1, <1>2, <1>3, InsertNodeOK DEF InsertNode, IndInv, Evolves
<1>4. ASSUME NEW node \in Sources, CopyNode(node)
      PROVE  /\ IndInv'
             /\ Evolves(table, table', now)
  <2>1. PICK id \in Ids, r \in {0, now}, q \in {0, NodeMaxPending} :
           node = Heard(id, r, q)
    BY DEF Sources
  <2>2. r \in Nat /\ q \in Nat
    BY <1>1, TableAssumption
  <2>3. node \in Node
    BY <1>2, <2>1, <2>2 DEF Heard
  <2> QED
    BY <1>1, <1>4, <2>3, FindOrAddOK DEF CopyNode, IndInv, Evolves
<1>5. ASSUME NEW id \in Ids, NEW type, MarkReply(id, type)
      PROVE  /\ IndInv'
             /\ Evolves(table, table', now)
  <2> DEFINE node == [Node_Create(id) EXCEPT !.reply_time = now]
  <2>1. node \in Node
    BY <1>1, <1>2
  <2>2. table' = Table_MarkReply(table, node, type, now) /\ now' = now
    BY <1>5 DEF MarkReply
  <2> HIDE DEF node
  <2> QED
    BY <1>1, <2>1, <2>2, MarkReplyOK DEF IndInv, Evolves
<1>6. ASSUME NEW id \in Ids, MarkQuery(id)
      PROVE  /\ IndInv'
             /\ Evolves(table, table', now)
  <2> DEFINE node == [Node_Create(id) EXCEPT !.query_time = now]
  <2>1. node \in Node
    BY <1>1, <1>2
  <2>2. table' = Table_MarkQuery(table, node, now) /\ now' = now
    BY <1>6 DEF MarkQuery
  <2> HIDE DEF node
  <2> QED
    BY <1>1, <2>1, <2>2, MarkQueryOK DEF IndInv, Evolves
<1>7. ASSUME NEW b \in BucketIndexes, NEW s \in Slots, SendQuery(b, s)
      PROVE  /\ IndInv'
             /\ Evolves(table, table', now)
  <2> DEFINE node == table.buckets[b].nodes[s]
             new == [node EXCEPT !.pending_queries = @ + 1]
  <2>1. b \in 0 .. table.end - 1 /\ s \in Occupied(table.buckets[b])
    BY <1>1, <1>7 DEF SendQuery, WellFormed, IsTable, BucketIndexes
  <2>2. node \in Node
    BY <1>1, <2>1 DEF WellFormed, BucketOK, Bucket, Occupied
  <2>3. table' = [table EXCEPT !.buckets[b].nodes[s] = new] /\ now' = now
    BY <1>7 DEF SendQuery
  <2>4. new \in Node /\ new.id = table.buckets[b].nodes[s].id
    BY <2>2 DEF Node
  <2> HIDE DEF new, node
  <2> QED
    BY <1>1, <2>1, <2>3, <2>4, UpdateNodeOK DEF IndInv, Evolves
<1>8. CASE Tick
  BY <1>1, <1>8 DEF Tick, IndInv, Evolves, Kept
<1>9. CASE UNCHANGED vars
  BY <1>1, <1>9 DEF vars, IndInv, Evolves, Kept
<1>10. CASE Next
  <2>1. CASE \E id \in Ids : InsertNode(id)
    BY <1>3, <2>1
  <2>2. CASE \E node \in Sources : CopyNode(node)
    BY <1>4, <2>2
  <2>3. CASE \E id \in Ids, type \in ReplyTypes : MarkReply(id, type)
    BY <1>5, <2>3
  <2>4. CASE \E id \in Queriers : MarkQuery(id)
    BY <1>6, <2>4, RoutingTableAssumption
  <2>5. CASE \E b \in BucketIndexes, s \in Slots : SendQuery(b, s)
    BY <1>7, <2>5
  <2> QED
    BY <1>8, <1>10, <2>1, <2>2, <2>3, <2>4, <2>5 DEF Next
<1> QED
  BY <1>9, <1>10

(* The invariant implies the ones that the runs check. *)
LEMMA IndInvImplies ==
    ASSUME IndInv
    PROVE  /\ TypeOK /\ CountsMatch /\ NodesAreFindable /\ NoDuplicates
           /\ GathersClosest /\ InsertNeverFails
           /\ LastBucketHasRoom /\ RefusedForAReason
<1>1. WellFormed(table) /\ table.id = OwnId /\ now \in Nat
  BY DEF IndInv
<1>2. TypeOK
  BY <1>1 DEF WellFormed, TypeOK
<1>3. CountsMatch
  BY <1>1 DEF WellFormed, BucketOK, CountsMatch
<1>4. NodesAreFindable
  BY <1>1, PlacesOK DEF NodesAreFindable
<1>5. NoDuplicates
  BY <1>1, PlacesOK DEF NoDuplicates
<1>6. GathersClosest
  BY <1>1, GatherClosestOK, RoutingTableAssumption DEF GathersClosest
<1>7. InsertNeverFails
  <2> SUFFICES ASSUME NEW id \in Ids
               PROVE  Table_InsertNode(table, Node_Create(id), now).rc # "ERROR"
    BY DEF InsertNeverFails
  <2>1. Node_Create(id) \in Node
    BY RoutingTableAssumption DEF Node_Create, Node
  <2> QED
    BY <1>1, <2>1, InsertNodeOK
<1>8. LastBucketHasRoom
  <2> SUFFICES ASSUME NEW id \in Ids \ StoredIds(table),
                      Table_FindBucket(table, id) = MaxBuckets - 1
               PROVE  ~Bucket_IsFull(table.buckets[MaxBuckets - 1])
    BY DEF LastBucketHasRoom
  <2>1. id \in Hashes /\ ~Table_HasNode(table, id)
    BY <1>1, StoredIffFound, RoutingTableAssumption
  <2> QED
    BY <1>1, <2>1, LastBucketRoom
<1>9. RefusedForAReason
  <2> SUFFICES ASSUME NEW id \in Ids,
                      Table_InsertNode(table, Node_Create(id), now).rc = "OKFull"
               PROVE  LET b == Table_FindBucket(table, id)
                          r == Table_InsertNode(table, Node_Create(id), now)
                      IN  /\ \A s \in Slots :
                                Node_Status(table.buckets[b].nodes[s], now)
                                    \in {"Good", "Unknown"}
                          /\ \/ r.table.end = table.end + 1
                             \/ \A s \in Slots :
                                   Hash_SharedPrefix(OwnId,
                                       table.buckets[b].nodes[s].id) = b
    BY DEF RefusedForAReason
  <2>1. Node_Create(id) \in Node /\ Node_Create(id).id = id
    BY RoutingTableAssumption DEF Node_Create, Node
  <2> QED
    BY <1>1, <2>1, RefusedOK
<1> QED
  BY <1>2, <1>3, <1>4, <1>5, <1>6, <1>7, <1>8, <1>9

-----------------------------------------------------------------------------
(* The inductive invariant holds throughout. *)
THEOREM IndInvHolds == Spec => []IndInv
<1>1. IndInv /\ [Next]_vars => IndInv'
  BY NextOK
<1> QED
  BY InitOK, <1>1, PTL DEF Spec

(* The ranges that bucket.c and table.c assert are never left. *)
THEOREM TypeCorrect == Spec => []TypeOK
<1>1. IndInv => TypeOK
  BY IndInvImplies
<1> QED
  BY IndInvHolds, <1>1, PTL

(* The counts of the buckets are right, through replacements and splits. *)
THEOREM CountsAreRight == Spec => []CountsMatch
<1>1. IndInv => CountsMatch
  BY IndInvImplies
<1> QED
  BY IndInvHolds, <1>1, PTL

(* Every node of the table is found in the one bucket that is searched. *)
THEOREM EveryNodeIsFindable == Spec => []NodesAreFindable
<1>1. IndInv => NodesAreFindable
  BY IndInvImplies
<1> QED
  BY IndInvHolds, <1>1, PTL

(* No id is in the table twice. *)
THEOREM NoIdIsStoredTwice == Spec => []NoDuplicates
<1>1. IndInv => NoDuplicates
  BY IndInvImplies
<1> QED
  BY IndInvHolds, <1>1, PTL

(* Table_InsertNode never returns ERROR. *)
THEOREM InsertIsTotal == Spec => []InsertNeverFails
<1>1. IndInv => InsertNeverFails
  BY IndInvImplies
<1> QED
  BY IndInvHolds, <1>1, PTL

(* The last bucket has room for every id that belongs there. *)
THEOREM LastBucketIsRoomy == Spec => []LastBucketHasRoom
<1>1. IndInv => LastBucketHasRoom
  BY IndInvImplies
<1> QED
  BY IndInvHolds, <1>1, PTL

(* No node is turned away that a replacement or a split could make room    *)
(* for.                                                                    *)
THEOREM NoneIsRefusedWithoutReason == Spec => []RefusedForAReason
<1>1. IndInv => RefusedForAReason
  BY IndInvImplies
<1> QED
  BY IndInvHolds, <1>1, PTL

(* The K closest nodes of the whole table are gathered, in order. *)
THEOREM ClosestAreGathered == Spec => []GathersClosest
<1>1. IndInv => GathersClosest
  BY IndInvImplies
<1> QED
  BY IndInvHolds, <1>1, PTL

-----------------------------------------------------------------------------
(* A node whose id a step loses is the worst of its bucket, and the only   *)
(* one that is lost.                                                       *)
LEMMA LostIsWorst ==
    ASSUME IndInv, [Next]_vars, NEW p \in Places(table),
           NodeAt(table, p).id \notin StoredIds(table')
    PROVE  /\ p[1] \in 0 .. table.end - 1
           /\ p[2] \in Occupied(table.buckets[p[1]])
           /\ Worst(table.buckets[p[1]], p[2], now)
           /\ \A q \in Places(table) \ {p} :
                 NodeAt(table, q).id \in StoredIds(table')
<1>1. /\ WellFormed(table) /\ WellFormed(table')
      /\ Evolves(table, table', now)
  BY NextOK DEF IndInv
<1>2. \A q \in Places(table) :
         /\ NodeAt(table, q).id \in Hashes
         /\ Table_HasNode(table, NodeAt(table, q).id)
         /\ NodeAt(table, q).id \in StoredIds(table')
               <=> Table_HasNode(table', NodeAt(table, q).id)
  BY <1>1, PlacesOK, StoredIffFound DEF StoredIds
<1>3. PICK b \in 0 .. table.end - 1, s \in Slots :
         /\ s \in Occupied(table.buckets[b])
         /\ Worst(table.buckets[b], s, now)
         /\ KeptBut(table, table', table.buckets[b].nodes[s].id)
  BY <1>1, <1>2 DEF Evolves, Kept, Occupied
<1>4. NodeAt(table, p).id = table.buckets[b].nodes[s].id
  BY <1>2, <1>3 DEF KeptBut
<1>5. /\ p[1] \in 0 .. table.end - 1
      /\ p[2] \in Occupied(table.buckets[p[1]])
      /\ Table_FindBucket(table, NodeAt(table, p).id) = p[1]
      /\ \A q \in Places(table) :
            NodeAt(table, q).id = NodeAt(table, p).id => q = p
  BY <1>1, PlacesOK
<1>6. p[1] = b
  BY <1>1, <1>3, <1>4, <1>5 DEF WellFormed, InPlace
<1>7. p[2] = s
  BY <1>1, <1>3, <1>4, <1>5, <1>6 DEF WellFormed, BucketOK, NodeAt
<1>8. \A q \in Places(table) \ {p} : NodeAt(table, q).id \in StoredIds(table')
  BY <1>2, <1>3, <1>4, <1>5 DEF KeptBut
<1> QED
  BY <1>3, <1>5, <1>6, <1>7, <1>8

(* No step of any operation throws out a Good or an Unknown node. *)
THEOREM LiveNodesStay == Spec => KeepsLiveNodes
<1> DEFINE A == \A p \in Places(table) :
                   Node_Status(NodeAt(table, p), now) \in {"Good", "Unknown"}
                     => NodeAt(table, p).id \in StoredIds(table')
<1>1. ASSUME IndInv, [Next]_vars PROVE A
  BY <1>1, LostIsWorst DEF Worst, NodeAt
<1>2. IndInv /\ [Next]_vars => [A]_vars
  BY <1>1
<1> QED
  BY IndInvHolds, <1>2, PTL DEF Spec, KeepsLiveNodes

(* One node at most is thrown out in a step, and no other node of its      *)
(* bucket would have been the better choice.                               *)
THEOREM WorstNodeGoes == Spec => EvictsTheWorst
<1> DEFINE A ==
        \A p \in Places(table) :
          NodeAt(table, p).id \notin StoredIds(table') =>
            \A q \in Places(table) \ {p} :
               /\ NodeAt(table, q).id \in StoredIds(table')
               /\ q[1] = p[1] /\ Node_Status(NodeAt(table, p), now) # "Bad" =>
                    /\ Node_Status(NodeAt(table, q), now) # "Bad"
                    /\ Node_Status(NodeAt(table, q), now) = "Questionable"
                         => OldestTime(NodeAt(table, p))
                               <= OldestTime(NodeAt(table, q))
<1>1. ASSUME IndInv, [Next]_vars PROVE A
  <2> SUFFICES ASSUME NEW p \in Places(table),
                      NodeAt(table, p).id \notin StoredIds(table'),
                      NEW q \in Places(table) \ {p}
               PROVE  /\ NodeAt(table, q).id \in StoredIds(table')
                      /\ q[1] = p[1] /\ Node_Status(NodeAt(table, p), now) # "Bad"
                           =>
                           /\ Node_Status(NodeAt(table, q), now) # "Bad"
                           /\ Node_Status(NodeAt(table, q), now) = "Questionable"
                                => OldestTime(NodeAt(table, p))
                                      <= OldestTime(NodeAt(table, q))
    OBVIOUS
  <2>1. /\ Worst(table.buckets[p[1]], p[2], now)
        /\ NodeAt(table, q).id \in StoredIds(table')
    BY <1>1, LostIsWorst
  <2>2. q[2] \in Occupied(table.buckets[q[1]])
    BY <1>1, PlacesOK DEF IndInv
  <2> QED
    BY <2>1, <2>2 DEF Worst, WithStatus, NodeAt
<1>2. IndInv /\ [Next]_vars => [A]_vars
  BY <1>1
<1> QED
  BY IndInvHolds, <1>2, PTL DEF Spec, EvictsTheWorst

=============================================================================
