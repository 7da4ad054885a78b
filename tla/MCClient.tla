------------------------------ MODULE MCClient ------------------------------
(* Instances of Client for TLC: ids of two bits. *)
EXTENDS Client

Own == <<0, 0>>
A == <<1, 0>>
B == <<0, 1>>
C == <<1, 1>>

(* B is known to A only; C to both. *)
MCRealId == [r \in Remotes |-> r]
MCContacts == [r \in Remotes |->
    SelectSeq(IF r = A THEN <<B, C, Own>> ELSE <<A, C>>,
              LAMBDA id : id \in Remotes \cup {Own})]
TwoRemotes == {A, B}
ThreeRemotes == {A, B, C}
OneBootstrap == {A}
OneHolder == {B}
BIsNowC == [MCRealId EXCEPT ![B] = C]
OneTarget == <<Own>>

=============================================================================
