--------------------------- MODULE MCRoutingTable ---------------------------
(* Instances of RoutingTable for TLC: ids of three bits, buckets of two. *)
EXTENDS RoutingTable

MCOwnId == <<0, 0, 0>>

(* Fills every bucket, the last one with all the ids it can hold. *)
SplitIds == {<<1, 0, 0>>, <<1, 0, 1>>, <<0, 1, 0>>, <<0, 1, 1>>,
             <<0, 0, 1>>, <<0, 0, 0>>}

(* Three ids compete for the first bucket, one can be shifted out of it. *)
AgingIds == {<<1, 0, 0>>, <<1, 0, 1>>, <<1, 1, 1>>, <<0, 1, 0>>}

OneQuerier == {<<1, 0, 0>>}

=============================================================================
