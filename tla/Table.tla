------------------------------- MODULE Table -------------------------------
(***************************************************************************)
(* Nodes, buckets and the routing table (node.c, bucket.c, table.c) as     *)
(* operators on table values.  The client keeps one table and every search *)
(* one of its own; RoutingTable gives one of them its operations.          *)
(*                                                                         *)
(* A node's addr and port follow its id and are left out.  replied is the  *)
(* set of reply types whose counter (rfindnode_count, rgetpeers_count,     *)
(* rannounce_count) is not 0, which is all that the code asks of them.     *)
(* change_time is written and never read; index is the bucket's position.  *)
(***************************************************************************)
EXTENDS Hash, FiniteSets

CONSTANTS
    K,               \* BUCKET_K
    LastBits,        \* BUCKET_LAST_BITS
    NodeMaxPending,  \* NODE_MAX_PENDING
    Respite,         \* NODE_RESPITE
    NULL             \* the null pointer

(* MUTANT: one bucket too few. *)
MaxBuckets_OffByOne == HashBits - LastBits

MaxBuckets == HashBits + 1 - LastBits       \* MAX_TABLE_BUCKETS

CountedReplies == {"RFindNode", "RGetPeers", "RAnnouncePeer"}

Node == [id : Hashes, reply_time : Nat, query_time : Nat,
         pending_queries : Nat, replied : SUBSET CountedReplies]

ASSUME TableAssumption ==
    /\ K \in Nat \ {0}
    /\ LastBits \in Nat
    /\ LastBits <= HashBits
    /\ NodeMaxPending \in Nat
    /\ Respite \in Nat \ {0}
    /\ NULL \notin Node

(* "The last bits worth of hash ids will all fit in the same bucket." *)
ASSUME LastBitsAssumption == 2 ^ LastBits <= K

Slots == 0 .. K - 1

BucketIndexes == 0 .. MaxBuckets - 1

-----------------------------------------------------------------------------
(* Nodes *)

Node_Status(node, time) ==
    LET replied == node.reply_time # 0
        recent  == \/ time - node.reply_time < Respite
                   \/ time - node.query_time < Respite
        patient == node.pending_queries < NodeMaxPending
    IN  CASE replied /\ recent              -> "Good"
          [] replied /\ ~recent /\ patient  -> "Questionable"
          [] ~replied /\ patient            -> "Unknown"
          [] OTHER                          -> "Bad"

(* What calloc leaves in a node besides its id; nodes parsed from replies, *)
(* read from a dump or copied from another node all start like this.       *)
Node_Create(id) == [id |-> id, reply_time |-> 0, query_time |-> 0,
                    pending_queries |-> 0, replied |-> {}]

Node_Copy(node) == Node_Create(node.id)

-----------------------------------------------------------------------------
(* Buckets: K slots, sparsely filled, and a count kept beside them. *)

Bucket_Create == [nodes |-> [s \in Slots |-> NULL], count |-> 0]

Occupied(bucket) == {s \in Slots : bucket.nodes[s] # NULL}

(* MUTANT: takes the occupied slots to be the first ones. *)
Bucket_ContainsNode_Dense(bucket, id) ==
    \E s \in 0 .. bucket.count - 1 :
        bucket.nodes[s] # NULL /\ bucket.nodes[s].id = id

Bucket_ContainsNode(bucket, id) ==
    \E s \in Occupied(bucket) : bucket.nodes[s].id = id

Bucket_IsFull(bucket) == bucket.count = K

First(slots) == CHOOSE s \in slots : \A r \in slots : s <= r

WithStatus(bucket, status, time) ==
    {s \in Occupied(bucket) : Node_Status(bucket.nodes[s], time) = status}

(* The slot Bucket_ReplaceBad overwrites: the first Bad node's. *)
BadSlot(bucket, time) == First(WithStatus(bucket, "Bad", time))

OldestTime(node) == IF node.query_time < node.reply_time
                  THEN node.query_time ELSE node.reply_time

(* MUTANT: the oldest node of any status. *)
QuestionableSlot_AnyStatus(bucket, time) ==
    First({s \in Occupied(bucket) :
              \A r \in Occupied(bucket) : OldestTime(bucket.nodes[s])
                                             <= OldestTime(bucket.nodes[r])})

(* MUTANT: the first Questionable node, not the oldest. *)
QuestionableSlot_First(bucket, time) ==
    First(WithStatus(bucket, "Questionable", time))

(* The slot Bucket_ReplaceQuestionable overwrites: the first of the        *)
(* Questionable nodes with the oldest reply or query.                      *)
QuestionableSlot(bucket, time) ==
    LET Q == WithStatus(bucket, "Questionable", time)
    IN  First({s \in Q : \A r \in Q : OldestTime(bucket.nodes[s])
                                         <= OldestTime(bucket.nodes[r])})

ReplaceSlot(bucket, s, node) == [bucket EXCEPT !.nodes[s] = node]

(* MUTANT: the count is not kept. *)
Bucket_AddNode_NoCount(bucket, node) ==
    [bucket EXCEPT !.nodes[First(Slots \ Occupied(bucket))] = node]

(* Fills the first empty slot.  The callers have checked the count. *)
Bucket_AddNode(bucket, node) ==
    [nodes |-> [bucket.nodes EXCEPT ![First(Slots \ Occupied(bucket))] = node],
     count |-> bucket.count + 1]

-----------------------------------------------------------------------------
(* The table: buckets[0 .. end-1] are allocated, the others are NULL. *)

Table_AddBucket(table) ==
    [table EXCEPT !.buckets[table.end] = Bucket_Create, !.end = table.end + 1]

(* A new table already has its first bucket. *)
Table_Create(id) ==
    [id |-> id, end |-> 1,
     buckets |-> [i \in BucketIndexes |-> IF i = 0 THEN Bucket_Create
                                                    ELSE NULL]]

(* The index of the bucket that Table_FindBucket returns. *)
Table_FindBucket(table, id) ==
    LET pfx == Hash_SharedPrefix(table.id, id)
    IN  IF pfx < table.end THEN pfx ELSE table.end - 1

(* MUTANT: leaves the nodes that belong in the next bucket. *)
ShiftableSlots_OffByOne(table, b) ==
    {s \in Occupied(table.buckets[b]) :
        b + 1 < Hash_SharedPrefix(table.id, table.buckets[b].nodes[s].id)}

(* The slots of bucket b that hold a node of a longer shared prefix. *)
ShiftableSlots(table, b) ==
    {s \in Occupied(table.buckets[b]) :
        b < Hash_SharedPrefix(table.id, table.buckets[b].nodes[s].id)}

(* MUTANT: asks the new node only. *)
Table_HasShiftableNodes_NewOnly(table, b, node) ==
    b < Hash_SharedPrefix(table.id, node.id)

Table_HasShiftableNodes(table, b, node) ==
    \/ b < Hash_SharedPrefix(table.id, node.id)
    \/ ShiftableSlots(table, b) # {}

Table_IsLastBucket(table, b) == table.end - 1 = b

Table_CanAddBucket(table) == table.end < MaxBuckets

(* The slot a shifted node takes in the next bucket, which is empty: the   *)
(* nodes move in slot order, each to the first free slot.                  *)
ShiftedTo(S, s) == Cardinality({r \in S : r < s})

(* MUTANT: the old bucket keeps its count. *)
Remaining_SameCount(bucket, S) ==
    [bucket EXCEPT !.nodes =
        [s \in Slots |-> IF s \in S THEN NULL ELSE bucket.nodes[s]]]

(* The old bucket without the nodes of the slots S. *)
Remaining(bucket, S) ==
    [nodes |-> [s \in Slots |-> IF s \in S THEN NULL ELSE bucket.nodes[s]],
     count |-> bucket.count - Cardinality(S)]

(* The new bucket with those nodes. *)
Shifted(bucket, S) ==
    LET From(t) == CHOOSE s \in S : ShiftedTo(S, s) = t
    IN  [nodes |-> [t \in Slots |-> IF \E s \in S : ShiftedTo(S, s) = t
                                   THEN bucket.nodes[From(t)] ELSE NULL],
         count |-> Cardinality(S)]

(* Called for the last bucket but one, when the last has just been added. *)
Table_ShiftBucketNodes(table, b) ==
    LET S == ShiftableSlots(table, b)
    IN  [table EXCEPT !.buckets[b] = Remaining(@, S),
                      !.buckets[b + 1] = Shifted(table.buckets[b], S)]

(* The table after Table_InsertNode, its return code and the node it threw *)
(* out (NULL if none).                                                     *)
InsertResult(rc, table, replaced) ==
    [rc |-> rc, table |-> table, replaced |-> replaced]

ReplaceNode(table, b, s, node) ==
    InsertResult("OKReplaced",
                 [table EXCEPT !.buckets[b] = ReplaceSlot(@, s, node)],
                 table.buckets[b].nodes[s])

(* A full last bucket is split once, when that moves anything. *)
SplitBucket(table, b, node) ==
    IF /\ Table_IsLastBucket(table, b)
       /\ Table_CanAddBucket(table)
       /\ Table_HasShiftableNodes(table, b, node)
    THEN Table_ShiftBucketNodes(Table_AddBucket(table), b)
    ELSE table

(* The end of Table_InsertNode: ERROR stands for Bucket_AddNode's          *)
(* "Bucket with count %d had no empty slots".                              *)
AddToBucket(table, node) ==
    LET b      == Table_FindBucket(table, node.id)
        bucket == table.buckets[b]
    IN  IF Bucket_IsFull(bucket)
        THEN InsertResult("OKFull", table, NULL)
        ELSE IF Occupied(bucket) = Slots
        THEN InsertResult("ERROR", table, NULL)
        ELSE InsertResult("OKAdded",
                 [table EXCEPT !.buckets[b] = Bucket_AddNode(@, node)], NULL)

Table_InsertNode(table, node, time) ==
    LET b      == Table_FindBucket(table, node.id)
        bucket == table.buckets[b]
    IN  IF Bucket_ContainsNode(bucket, node.id)
        THEN InsertResult("OKAlreadyAdded", table, NULL)
        ELSE IF ~Bucket_IsFull(bucket)
        THEN AddToBucket(table, node)
        ELSE IF WithStatus(bucket, "Bad", time) # {}
        THEN ReplaceNode(table, b, BadSlot(bucket, time), node)
        ELSE IF WithStatus(bucket, "Questionable", time) # {}
        THEN ReplaceNode(table, b, QuestionableSlot(bucket, time), node)
        ELSE AddToBucket(SplitBucket(table, b, node), node)

(* The table after Table_CopyAndAddNode: a Bad node is not copied. *)
Table_CopyAndAddNode(table, node, time) ==
    IF Node_Status(node, time) = "Bad"
    THEN table
    ELSE Table_InsertNode(table, Node_Copy(node), time).table

(* Table_FindNode looks for id in one bucket only. *)
Table_HasNode(table, id) ==
    Bucket_ContainsNode(table.buckets[Table_FindBucket(table, id)], id)

FindSlot(table, id) ==
    LET bucket == table.buckets[Table_FindBucket(table, id)]
    IN  First({s \in Occupied(bucket) : bucket.nodes[s].id = id})

Table_FindNode(table, id) ==
    table.buckets[Table_FindBucket(table, id)].nodes[FindSlot(table, id)]

SetFound(table, node) ==
    [table EXCEPT !.buckets[Table_FindBucket(table, node.id)]
                      .nodes[FindSlot(table, node.id)] = node]

(* Find the node or copy it into the table; it may not get in. *)
FindOrAdd(table, node, time) ==
    IF Table_HasNode(table, node.id) THEN table
    ELSE Table_CopyAndAddNode(table, node, time)

(* MUTANT: an answer does not settle a query. *)
Decrement_Never(n) == n

(* MUTANT: an unexpected reply is counted too. *)
Decrement_Unguarded(n) == n - 1

Decrement(n) == IF n > 0 THEN n - 1 ELSE n

Table_MarkReply(table, node, type, time) ==
    LET t     == FindOrAdd(table, node, time)
        found == Table_FindNode(t, node.id)
    IN  IF ~Table_HasNode(t, node.id) THEN t
        ELSE SetFound(t, [found EXCEPT
                !.reply_time = time,
                !.pending_queries = Decrement(@),
                !.replied = @ \cup ({type} \cap CountedReplies)])

Table_MarkQuery(table, node, time) ==
    LET t == FindOrAdd(table, node, time)
    IN  IF ~Table_HasNode(t, node.id) THEN t
        ELSE SetFound(t, [Table_FindNode(t, node.id) EXCEPT
                             !.query_time = time])

-----------------------------------------------------------------------------
(* What every table satisfies. *)

(* The range of count is asserted by Bucket_IsFull and Bucket_AddNode. *)
Bucket == [nodes : [Slots -> Node \cup {NULL}], count : 0 .. K]

(* The buckets below end, and no others, are allocated. *)
IsTable(t) ==
    /\ t \in [id : Hashes, end : 1 .. MaxBuckets,
              buckets : [BucketIndexes -> Bucket \cup {NULL}]]
    /\ \A b \in BucketIndexes : IF b < t.end THEN t.buckets[b] \in Bucket
                                            ELSE t.buckets[b] = NULL

(* The places that hold a node. *)
Places(t) == {p \in BucketIndexes \X Slots :
                 p[1] < t.end /\ t.buckets[p[1]].nodes[p[2]] # NULL}

NodeAt(t, p) == t.buckets[p[1]].nodes[p[2]]

StoredIds(t) == {NodeAt(t, p).id : p \in Places(t)}

=============================================================================
