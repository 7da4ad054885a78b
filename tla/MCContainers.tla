---------------------------- MODULE MCContainers ----------------------------
(***************************************************************************)
(* The containers for TLC: arrays, hash maps and lists of hooks do not     *)
(* interact, so each behaviour exercises one of them.                      *)
(***************************************************************************)
EXTENDS Array, Hashmap, Hooks

CONSTANTS k1, k2, k3, k4, k5, h1, h2

(* Two pairs of equal hashes in one bucket, and a key in the other. *)
MCHashOf(k) == CASE k \in {k1, k2} -> 1
                 [] k \in {k3, k4} -> 3
                 [] OTHER           -> 2

(* Two hooks of one type, none of the other. *)
MCTypeOf(h) == 0

(* Which container a behaviour is about. *)
VARIABLE part

Init == /\ ArrayInit /\ HashmapInit /\ HooksInit
        /\ part \in {"array", "hashmap", "hooks"}

Next ==
    /\ UNCHANGED part
    /\ \/ part = "array" /\ ArrayNext /\ UNCHANGED <<hashmapVars, hookVars>>
       \/ part = "hashmap" /\ HashmapNext /\ UNCHANGED <<arrayVars, hookVars>>
       \/ part = "hooks" /\ HooksNext /\ UNCHANGED <<arrayVars, hashmapVars>>

(* List nodes are told apart by their addresses only. *)
Symmetry == Permutations(ListNodes)

=============================================================================
