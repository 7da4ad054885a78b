------------------------------ MODULE MapSpec ------------------------------
(***************************************************************************)
(* What a Hashmap promises: a partial function from keys to data.  A key   *)
(* that is there is not set again; a traversal meets every entry once, and *)
(* stops early only at the entry its callback stops at.                    *)
(***************************************************************************)
EXTENDS Integers, SequencesExt

CONSTANTS Keys, Data, NULL
VARIABLES
    entries,
    request,  \* the last call
    outcome,  \* what it returned
    met       \* the keys it called back for

mapVars == <<entries, request, outcome, met>>

Init == entries = <<>> /\ request = <<>> /\ outcome = NULL /\ met = <<>>

Set(k, d) ==
    /\ request' = <<"set", k, d>>
    /\ met' = <<>>
    /\ IF k \in DOMAIN entries
       THEN outcome' = -1 /\ UNCHANGED entries
       ELSE /\ outcome' = 0
            /\ entries' = [key \in DOMAIN entries \cup {k} |->
                              IF key = k THEN d ELSE entries[key]]

Get(k) ==
    /\ request' = <<"get", k>>
    /\ outcome' = IF k \in DOMAIN entries THEN entries[k] ELSE NULL
    /\ met' = <<>>
    /\ UNCHANGED entries

Delete(k) ==
    /\ request' = <<"delete", k>>
    /\ outcome' = IF k \in DOMAIN entries THEN entries[k] ELSE NULL
    /\ entries' = [key \in DOMAIN entries \ {k} |-> entries[key]]
    /\ met' = <<>>

(* The callback stops the traversal at the key stop. *)
Traverse(stop) ==
    /\ request' = <<"traverse", stop>>
    /\ ToSet(met') \subseteq DOMAIN entries
    /\ IsInjective(met')
    /\ IF stop \in DOMAIN entries
       THEN met' # <<>> /\ Last(met') = stop /\ outcome' = 1
       ELSE ToSet(met') = DOMAIN entries /\ outcome' = 0
    /\ UNCHANGED entries

Destroy ==
    request' = <<"destroy">> /\ entries' = <<>> /\ outcome' = NULL /\ met' = <<>>

Next == \/ \E k \in Keys, d \in Data : Set(k, d)
        \/ \E k \in Keys : Get(k) \/ Delete(k)
        \/ \E stop \in Keys \cup {NULL} : Traverse(stop)
        \/ Destroy

Spec == Init /\ [][Next]_mapVars

=============================================================================
