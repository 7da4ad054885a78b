------------------------------- MODULE Search -------------------------------
(***************************************************************************)
(* A search (search.c) as operators on search records: a table of its own  *)
(* around the target, the ids whose get_peers token is known, the ids that *)
(* sent peers, and the time of the last query that kept it busy.           *)
(***************************************************************************)
EXTENDS Close

CONSTANT SearchRespite      \* search_respite of Search_IsDone

ASSUME SearchAssumption == SearchRespite \in Nat

SearchRecord ==
    [table : [id : Hashes, end : 1 .. MaxBuckets,
              buckets : [BucketIndexes -> Bucket \cup {NULL}]],
     tokens : SUBSET Hashes, peers : SUBSET Hashes, send_time : Nat]

ASSUME SearchNotNULL == NULL \notin SearchRecord

Search_Create(target) == [table |-> Table_Create(target), tokens |-> {},
                          peers |-> {}, send_time |-> 0]

(* MUTANT: no respite. *)
Search_IsDone_NoRespite(search, time) ==
    /\ search.send_time # 0
    /\ search.send_time <= time

Search_IsDone(search, time) ==
    /\ search.send_time # 0
    /\ search.send_time + SearchRespite < time

-----------------------------------------------------------------------------
(* Search_DoWork: the queries of one pass.  A node is asked again in every *)
(* pass until it has answered.                                             *)

(* The elements of the sequence s that are in S, in order. *)
Within(s, S) == FoldLeft(LAMBDA kept, x : IF x \in S THEN Append(kept, x)
                                          ELSE kept, <<>>, s)

Unanswered(search, type, places) ==
    Within(places, {p \in Places(search.table) :
                       type \notin NodeAt(search.table, p).replied})

SendFindNodes(search) ==
    Unanswered(search, "RFindNode", Table_ForEachNode(search.table))

SendGetPeers(search) ==
    Unanswered(search, "RGetPeers", Table_ForEachCloseNode(search.table))

SendAnnouncePeer(search) ==
    Within(Unanswered(search, "RAnnouncePeer",
                      Table_ForEachCloseNode(search.table)),
           {p \in Places(search.table) :
               NodeAt(search.table, p).id \in search.tokens})

(* The type and the node of each query, in the order they are queued. *)
Queries(search) ==
    LET To(type, places) ==
            [i \in DOMAIN places |-> [type |-> type, place |-> places[i]]]
    IN  To("QFindNode", SendFindNodes(search))
          \o To("QGetPeers", SendGetPeers(search))
          \o To("QAnnouncePeer", SendAnnouncePeer(search))

(* pending_queries counts the queries as they are queued. *)
CountQueries(t, queries) ==
    LET Sent(p) == Cardinality({i \in DOMAIN queries : queries[i].place = p})
        Counted(p) == IF NodeAt(t, p) = NULL THEN NULL
                      ELSE [NodeAt(t, p) EXCEPT !.pending_queries = @ + Sent(p)]
    IN  [t EXCEPT !.buckets = [b \in BucketIndexes |->
            IF b >= t.end THEN NULL
            ELSE [t.buckets[b] EXCEPT !.nodes =
                     [s \in Slots |-> Counted(<<b, s>>)]]]]

(* MUTANT: announce_peer queries do not keep the search busy. *)
Search_DoWork_AnnounceUncounted(search, queries, time) ==
    [search EXCEPT
        !.table = CountQueries(search.table, queries),
        !.send_time = IF \E i \in DOMAIN queries :
                            queries[i].type = "QGetPeers"
                      THEN time ELSE @]

(* MUTANT: send_time is not set. *)
Search_DoWork_Timeless(search, queries, time) ==
    [search EXCEPT !.table = CountQueries(search.table, queries)]

(* The search after the pass that queued the queries.  Only get_peers and  *)
(* announce_peer queries keep it from being done.                          *)
Search_DoWork(search, queries, time) ==
    [search EXCEPT
        !.table = CountQueries(search.table, queries),
        !.send_time = IF \E i \in DOMAIN queries :
                            queries[i].type \in {"QGetPeers", "QAnnouncePeer"}
                      THEN time ELSE @]

=============================================================================
