------------------------------ MODULE Hashmap ------------------------------
(***************************************************************************)
(* The hash table of lcthw/hashmap.c, in which the client keeps pending    *)
(* responses, the peers of each info_hash and the tokens of a search.      *)
(*                                                                         *)
(* buckets is the array of buckets, whose end is set to its max and which  *)
(* is never pushed to.  Each bucket is a DArray of nodes; those that are   *)
(* still NULL are not in the domain of buckets.  A key stands for all the  *)
(* keys that the map's compare function holds equal.                       *)
(***************************************************************************)
EXTENDS DArray

CONSTANTS
    Keys, Data,
    HashOf(_),        \* the map's hash function, on keys
    NumberOfBuckets   \* DEFAULT_NUMBER_OF_BUCKETS

ASSUME NumberOfBucketsAssumption == NumberOfBuckets \in Nat \ {0}

ASSUME HashAssumption == \A k \in Keys : HashOf(k) \in Nat

VARIABLES
    buckets,
    asked,       \* history: the last operation, with its arguments
    returned,    \* what the last operation returned
    visited      \* the keys it called back for, when it was a traversal

hashmapVars == <<buckets, asked, returned, visited>>

(* No bucket has been set up. *)
Hashmap_create == <<>>

HashmapInit ==
    buckets = Hashmap_create /\ asked = <<>> /\ returned = NULL /\ visited = <<>>

HashmapNode(k, d) == [key |-> k, data |-> d, hash |-> HashOf(k)]

BucketOf(k) == HashOf(k) % NumberOfBuckets

(* MUTANT: takes a node with the same hash for the one with the key. *)
Hashmap_get_node_ByHash(bucket, k) ==
    SelectInSeq(Elements(bucket), LAMBDA node : node.hash = HashOf(k)) - 1

(* The index of k's node in its bucket; -1 when it has none. *)
Hashmap_get_node(bucket, k) ==
    SelectInSeq(Elements(bucket),
                LAMBDA node : node.hash = HashOf(k) /\ node.key = k) - 1

(* The bucket for k, set up if need be. *)
Hashmap_find_bucket(k) ==
    IF BucketOf(k) \in DOMAIN buckets THEN buckets[BucketOf(k)]
    ELSE DArray_create(NumberOfBuckets)

Hashmap_set(k, d) ==
    LET bucket == Hashmap_find_bucket(k)
        found  == Hashmap_get_node(bucket, k) >= 0
        new    == IF found THEN bucket ELSE DArray_push(bucket, HashmapNode(k, d))
    IN  /\ asked' = <<"set", k, d>>
        /\ returned' = IF found THEN -1 ELSE 0
        /\ buckets' = [b \in DOMAIN buckets \cup {BucketOf(k)} |->
                           IF b = BucketOf(k) THEN new ELSE buckets[b]]
        /\ visited' = <<>>

(* The index of k's node in its bucket, if there is such a bucket. *)
Find(k) == IF BucketOf(k) \notin DOMAIN buckets THEN -1
           ELSE Hashmap_get_node(buckets[BucketOf(k)], k)

Hashmap_get(k) ==
    /\ asked' = <<"get", k>>
    /\ returned' = IF Find(k) = -1 THEN NULL
                   ELSE DArray_get(buckets[BucketOf(k)], Find(k)).data
    /\ visited' = <<>>
    /\ UNCHANGED buckets

(* Puts the last node of a bucket in the place of the freed one, at i. *)
Refill(bucket, i) ==
    LET pop == DArray_pop(bucket)
    IN  IF i # bucket.end - 1
        THEN DArray_set(pop.array, i, pop.el) ELSE pop.array

Hashmap_delete(k) ==
    LET bucket == buckets[BucketOf(k)]
    IN  /\ asked' = <<"delete", k>>
        /\ visited' = <<>>
        /\ IF Find(k) = -1
           THEN returned' = NULL /\ UNCHANGED buckets
           ELSE /\ returned' = DArray_get(bucket, Find(k)).data
                /\ buckets' = [buckets EXCEPT ![BucketOf(k)] =
                                   Refill(bucket, Find(k))]

(* The nodes of all buckets, in the order of a traversal. *)
Nodes(bs) ==
    FoldLeft(LAMBDA nodes, b : IF b \in DOMAIN bs THEN nodes \o Elements(bs[b])
                               ELSE nodes,
             <<>>, [turn \in 1 .. NumberOfBuckets |-> turn - 1])

(* The callback returns nonzero for the key stop, and zero for others. *)
Hashmap_traverse(stop) ==
    LET keys == LET nodes == Nodes(buckets)
                IN  [i \in DOMAIN nodes |-> nodes[i].key]
        at   == SelectInSeq(keys, LAMBDA k : k = stop)
    IN  /\ asked' = <<"traverse", stop>>
        /\ visited' = IF at = 0 THEN keys ELSE SubSeq(keys, 1, at)
        /\ returned' = IF at = 0 THEN 0 ELSE 1
        /\ UNCHANGED buckets

(* Hashmap_destroy, and Hashmap_create for the next map. *)
Hashmap_destroy ==
    /\ asked' = <<"destroy">>
    /\ buckets' = Hashmap_create
    /\ returned' = NULL
    /\ visited' = <<>>

HashmapNext == \/ \E k \in Keys, d \in Data : Hashmap_set(k, d)
               \/ \E k \in Keys : Hashmap_get(k) \/ Hashmap_delete(k)
               \/ \E stop \in Keys \cup {NULL} : Hashmap_traverse(stop)
               \/ Hashmap_destroy

HashmapSpec == HashmapInit /\ [][HashmapNext]_hashmapVars

-----------------------------------------------------------------------------
(* A bucket's nodes are in the bucket of their hash, no key has two, and   *)
(* the bucket can take another one, after any number of expansions and of  *)
(* contractions during deletes.                                            *)
BucketsAreSound ==
    \A b \in DOMAIN buckets :
        /\ HasRoom(buckets[b])
        /\ \A i \in 1 .. buckets[b].end :
              LET node == Elements(buckets[b])[i]
              IN  /\ node \in {HashmapNode(k, d) : k \in Keys, d \in Data}
                  /\ BucketOf(node.key) = b
                  /\ Hashmap_get_node(buckets[b], node.key) = i - 1

Contents ==
    LET nodes == UNION {ToSet(Elements(buckets[b])) : b \in DOMAIN buckets}
    IN  [k \in {n.key : n \in nodes} |-> (CHOOSE n \in nodes : n.key = k).data]

Map == INSTANCE MapSpec WITH entries <- Contents, request <- asked,
                                outcome <- returned, met <- visited

(* Buckets, collisions of hashes, and the swap with which a node is        *)
(* deleted cannot be told from a partial function; a traversal meets every *)
(* entry once.                                                             *)
IsAMap == Map!Spec

=============================================================================
