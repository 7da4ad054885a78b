---------------------------- MODULE RoutingTable ----------------------------
(***************************************************************************)
(* One routing table under the operations that the handlers and the        *)
(* searches perform on it, and the passing of time.                        *)
(***************************************************************************)
EXTENDS Close

CONSTANTS
    OwnId,       \* table->id
    Ids,         \* the ids of the nodes that are heard of
    Queriers,    \* those of them that send queries
    ReplyTypes,  \* the types of the replies that arrive
    StartTime,   \* time(NULL) when the table is created
    MaxTime,     \* bound: the clock stops here
    MaxPending   \* bound on a node's pending_queries

(* 0 means "never" in a node's times, so the clock starts after a respite. *)
ASSUME RoutingTableAssumption ==
    /\ OwnId \in Hashes
    /\ Ids \subseteq Hashes
    /\ Queriers \subseteq Ids
    /\ StartTime \in Nat /\ StartTime >= Respite
    /\ MaxTime \in Nat
    /\ MaxPending \in Nat

VARIABLES
    table,
    now

vars == <<table, now>>

Init == /\ table = Table_Create(OwnId)
        /\ now = StartTime

(* AddSearchNodes: a node parsed from a reply. *)
InsertNode(id) ==
    /\ table' = Table_InsertNode(table, Node_Create(id), now).table
    /\ UNCHANGED now

(* Nodes of other tables: never heard from, just heard from, or Bad. *)
Heard(id, r, p) ==
    [Node_Create(id) EXCEPT !.reply_time = r, !.pending_queries = p]

Sources ==
    {Heard(id, r, p) : id \in Ids, r \in {0, now}, p \in {0, NodeMaxPending}}

(* Search_CopyTable and HandleRPing. *)
CopyNode(node) ==
    /\ table' = Table_CopyAndAddNode(table, node, now)
    /\ UNCHANGED now

(* A reply from id. ReceiveMessage has set the message's node. *)
MarkReply(id, type) ==
    /\ table' = Table_MarkReply(table,
                    [Node_Create(id) EXCEPT !.reply_time = now], type, now)
    /\ UNCHANGED now

(* A query from id. *)
MarkQuery(id) ==
    /\ table' = Table_MarkQuery(table,
                    [Node_Create(id) EXCEPT !.query_time = now], now)
    /\ UNCHANGED now

(* SendFindNodes, SendGetPeers and SendAnnouncePeer count the query. *)
SendQuery(b, s) ==
    /\ b < table.end
    /\ s \in Occupied(table.buckets[b])
    /\ table.buckets[b].nodes[s].pending_queries < MaxPending
    /\ table' = [table EXCEPT
                   !.buckets[b].nodes[s].pending_queries = @ + 1]
    /\ UNCHANGED now

Tick == /\ now < MaxTime
        /\ now' = now + 1
        /\ UNCHANGED table

Next == \/ \E id \in Ids : InsertNode(id)
        \/ \E node \in Sources : CopyNode(node)
        \/ \E id \in Ids, type \in ReplyTypes : MarkReply(id, type)
        \/ \E id \in Queriers : MarkQuery(id)
        \/ \E b \in BucketIndexes, s \in Slots : SendQuery(b, s)
        \/ Tick

Spec == Init /\ [][Next]_vars

-----------------------------------------------------------------------------
(* Every count is in the range that bucket.c asserts, end in the range     *)
(* that table.c asserts, and no bucket that is reached is NULL.            *)
TypeOK == IsTable(table) /\ now \in Nat

(* The count of a bucket, which Bucket_IsFull and Bucket_AddNode trust, is *)
(* the number of its occupied slots, through every replacement and split.  *)
CountsMatch ==
    \A b \in 0 .. table.end - 1 :
        table.buckets[b].count = Cardinality(Occupied(table.buckets[b]))

(* Table_FindNode looks for an id in one bucket only: a node is always in  *)
(* the bucket in which it is looked for, although adding a bucket changes  *)
(* that bucket for the nodes already there.                                *)
NodesAreFindable ==
    \A p \in Places(table) : Table_FindBucket(table, NodeAt(table, p).id) = p[1]

(* No id is stored twice; Table_InsertNode checks one bucket only. *)
NoDuplicates ==
    \A p, q \in Places(table) :
        NodeAt(table, p).id = NodeAt(table, q).id => p = q

(* "The last bits worth of hash ids will all fit in the same bucket": the  *)
(* last bucket there can be is never full for an id that is not in it.     *)
LastBucketHasRoom ==
    \A id \in Ids \ StoredIds(table) :
        LET b == Table_FindBucket(table, id)
        IN  b = MaxBuckets - 1 => ~Bucket_IsFull(table.buckets[b])

(* A new node is turned away only when no node of its bucket could be      *)
(* replaced and the bucket is one that splitting does not relieve; if it   *)
(* could be split, it has been, and a later attempt finds another bucket.  *)
RefusedForAReason ==
    \A id \in Ids :
        LET b == Table_FindBucket(table, id)
            r == Table_InsertNode(table, Node_Create(id), now)
        IN  r.rc = "OKFull" =>
                /\ \A s \in Slots :
                      Node_Status(table.buckets[b].nodes[s], now)
                          \in {"Good", "Unknown"}
                /\ \/ r.table.end = table.end + 1
                   \/ \A s \in Slots : 
                         Hash_SharedPrefix(OwnId,
                             table.buckets[b].nodes[s].id) = b

(* Inserting a node never fails: Bucket_AddNode finds the empty slot that  *)
(* the count promises.                                                     *)
InsertNeverFails ==
    \A id \in Ids : Table_InsertNode(table, Node_Create(id), now).rc # "ERROR"

(* A node that answered or queried recently, or that has not been asked    *)
(* often enough to be given up, never leaves the table: not by             *)
(* replacement and not by a split.                                         *)
KeepsLiveNodes ==
    [][\A p \in Places(table) :
          Node_Status(NodeAt(table, p), now) \in {"Good", "Unknown"}
            => NodeAt(table, p).id \in StoredIds(table')]_vars

(* At most one node is thrown out at a time, a Questionable one only when  *)
(* its bucket has no Bad one and none with an older reply or query.        *)
EvictsTheWorst ==
    [][\A p \in Places(table) :
          NodeAt(table, p).id \notin StoredIds(table') =>
            \A q \in Places(table) \ {p} :
               /\ NodeAt(table, q).id \in StoredIds(table')
               /\ q[1] = p[1] /\ Node_Status(NodeAt(table, p), now) # "Bad" =>
                    /\ Node_Status(NodeAt(table, q), now) # "Bad"
                    /\ Node_Status(NodeAt(table, q), now) = "Questionable"
                         => OldestTime(NodeAt(table, p))
                               <= OldestTime(NodeAt(table, q))]_vars

(* table.h: Table_GatherClosest returns "the BUCKET_K nodes from table     *)
(* that are closest to the id": sorting each node in among those found so  *)
(* far, and forgetting all but K, finds the K closest of the whole table,  *)
(* the closest first.                                                      *)
GathersClosest ==
    \A id \in Ids : Table_GatherClosest(table, id) = Closest(table, id)

(* Table_Read frees a line's node unless it was added: no line replaces a  *)
(* node that was read before, which would leave a freed node in the table, *)
(* and none is refused except by a bucket that has just been split and     *)
(* would have to be split again.                                           *)
DumpIsReadBack ==
    LET read == Table_Read(Table_Dump(table), now)
    IN  /\ \A i \in DOMAIN read.lines :
              \/ read.lines[i].rc = "OKAdded"
              \/ read.lines[i].rc = "OKFull" /\ read.lines[i].split
        /\ \A id \in StoredIds(table) :
              Table_HasNode(read.table, id)
                \/ \E i \in DOMAIN read.lines : /\ read.lines[i].rc = "OKFull"
                                                /\ Table_Dump(table)[i + 1] = id

=============================================================================
