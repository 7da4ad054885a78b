----------------------------- MODULE ArraySpec -----------------------------
(* What a DArray promises: a sequence that is a stack at its end, whose    *)
(* elements can be crossed out and then swept away together.               *)
EXTENDS Naturals, SequencesExt

CONSTANTS Values, NULL
VARIABLES
    items,
    request,  \* the last call
    answer    \* what the last pop returned

arrayVars == <<items, request, answer>>

Init == items = <<>> /\ request = <<>> /\ answer = NULL

Push(v) ==
    /\ request' = <<"push", v>>
    /\ items' = Append(items, v)
    /\ UNCHANGED answer

Pop ==
    /\ request' = <<"pop">>
    /\ IF items = <<>>
       THEN answer' = NULL /\ UNCHANGED items
       ELSE /\ answer' = items[Len(items)]
            /\ items' = SubSeq(items, 1, Len(items) - 1)

CrossOut(i) ==
    /\ request' = <<"remove", i - 1>>
    /\ items' = [items EXCEPT ![i] = NULL]
    /\ UNCHANGED answer

(* The elements that are not crossed out, in their order. *)
Kept(s) == FoldLeft(LAMBDA kept, v : IF v = NULL THEN kept ELSE Append(kept, v),
                    <<>>, s)

Sweep ==
    /\ request' = <<"compact">>
    /\ items' = Kept(items)
    /\ UNCHANGED answer

Next == \/ \E v \in Values : Push(v)
        \/ Pop
        \/ \E i \in 1 .. Len(items) : CrossOut(i)
        \/ Sweep

Spec == Init /\ [][Next]_arrayVars

=============================================================================
