-------------------------------- MODULE Hash --------------------------------
(***************************************************************************)
(* The 160 bit ids of nodes and torrents (hash.c), as functions from bit   *)
(* positions to bits, the most significant bit first.  The code walks      *)
(* bytes and then the bits of one byte; only the bits matter here.         *)
(***************************************************************************)
EXTENDS Integers

CONSTANT HashBits       \* HASH_BITS

ASSUME HashBitsAssumption == HashBits \in Nat \ {0}

BitPositions == 1 .. HashBits

Hashes == [BitPositions -> {0, 1}]

(* The number of leading bits on which a and b agree. *)
Hash_SharedPrefix(a, b) ==
    CHOOSE n \in 0 .. HashBits :
        /\ \A i \in 1 .. n : a[i] = b[i]
        /\ n < HashBits => a[n + 1] # b[n + 1]

(* The bitwise exclusive or of a and b. *)
Hash_Distance(a, b) == [i \in BitPositions |-> IF a[i] = b[i] THEN 0 ELSE 1]

(* Distance_Compare(d, e) < 0: memcmp orders by the first difference. *)
Distance_Less(d, e) ==
    \E i \in BitPositions : /\ d[i] < e[i]
                            /\ \A j \in 1 .. i - 1 : d[j] = e[j]

=============================================================================
