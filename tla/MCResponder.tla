---------------------------- MODULE MCResponder ----------------------------
(* Instances of Responder for TLC: ids of two bits. *)
EXTENDS Responder

Own == <<0, 0>>
A == <<1, 0>>
B == <<1, 1>>
C == <<0, 1>>

OneAsker == {A}
TwoAskers == {A, C}
ThreeAskers == {A, B, C}
NearA == {A}

=============================================================================
