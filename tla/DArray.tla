------------------------------- MODULE DArray -------------------------------
(***************************************************************************)
(* The growing array of lcthw/darray.c, as operators on values: contents   *)
(* has a slot for every index below max, of which those below end are in   *)
(* use.  malloc and realloc succeed.                                       *)
(***************************************************************************)
EXTENDS Integers, SequencesExt

CONSTANTS
    ExpandRate,  \* DEFAULT_EXPAND_RATE
    NULL,        \* the null pointer
    Garbage      \* the content of memory that was never written

ASSUME ExpandRateAssumption == ExpandRate \in Nat \ {0}

PointerSize == 8

DArray_create(initial_max) ==
    [contents |-> [i \in 0 .. initial_max - 1 |-> NULL],
     end |-> 0, max |-> initial_max]

DArray_resize(a, newsize) ==
    [a EXCEPT !.max = newsize,
              !.contents = [i \in 0 .. newsize - 1 |->
                               IF i < a.max THEN a.contents[i] ELSE Garbage]]

(* memset is given the number of new slots, and one, as the number of      *)
(* bytes: it clears only the first of them.                                *)
DArray_expand(a) ==
    LET b == DArray_resize(a, a.max + ExpandRate)
        cleared == a.max .. a.max + (ExpandRate + 1) \div PointerSize - 1
    IN  [b EXCEPT !.contents = [i \in DOMAIN b.contents |->
                                   IF i \in cleared THEN NULL ELSE b.contents[i]]]

DArray_contract(a) ==
    DArray_resize(a, (IF a.end < ExpandRate THEN ExpandRate ELSE a.end) + 1)

DArray_set(a, i, el) ==
    IF i < a.max THEN [a EXCEPT !.contents[i] = el] ELSE a

DArray_get(a, i) == IF i < a.max THEN a.contents[i] ELSE NULL

DArray_remove(a, i) == [a EXCEPT !.contents[i] = NULL]

(* MUTANT: expands one element too late. *)
DArray_push_Late(a, el) ==
    LET b == [a EXCEPT !.contents[a.end] = el, !.end = @ + 1]
    IN  IF b.end > b.max THEN DArray_expand(b) ELSE b

DArray_push(a, el) ==
    LET b == [a EXCEPT !.contents[a.end] = el, !.end = @ + 1]
    IN  IF b.end >= b.max THEN DArray_expand(b) ELSE b

(* The array left by DArray_pop and the element popped. *)
DArray_pop(a) ==
    IF a.end - 1 < 0
    THEN [array |-> a, el |-> NULL]
    ELSE LET b == [DArray_remove(a, a.end - 1) EXCEPT !.end = @ - 1]
         IN  [array |-> IF b.end > ExpandRate /\ b.end % ExpandRate # 0
                        THEN DArray_contract(b) ELSE b,
              el    |-> a.contents[a.end - 1]]

(* Closes the gap at index i, without taking the last element away. *)
ShiftLeft(a, i) ==
    [a EXCEPT !.contents = [j \in DOMAIN a.contents |->
        IF j \in i .. a.end - 2 THEN a.contents[j + 1] ELSE a.contents[j]]]

(* MUTANT: goes on to the next index after closing a gap. *)
CompactAt_Skips(s) ==
    IF s.i >= s.array.end THEN s
    ELSE IF DArray_get(s.array, s.i) # NULL THEN [s EXCEPT !.i = @ + 1]
    ELSE [array |-> DArray_pop(ShiftLeft(s.array, s.i)).array, i |-> s.i + 1]

(* One turn of DArray_compact's loop, at index s.i. *)
CompactAt(s) ==
    IF s.i >= s.array.end THEN s
    ELSE IF DArray_get(s.array, s.i) # NULL THEN [s EXCEPT !.i = @ + 1]
    ELSE [s EXCEPT !.array = DArray_pop(ShiftLeft(s.array, s.i)).array]

(* Every turn either passes an element or drops one, so there are as many  *)
(* turns as there are elements.                                            *)
DArray_compact(a) ==
    FoldLeft(LAMBDA s, turn : CompactAt(s), [array |-> a, i |-> 0],
             [turn \in 1 .. a.end |-> turn]).array

-----------------------------------------------------------------------------
(* The elements in use, as a sequence. *)
Elements(a) == [i \in 1 .. a.end |-> a.contents[i - 1]]

(* DArray_push writes before it expands, so there is always a free slot. *)
HasRoom(a) == a.end < a.max /\ DOMAIN a.contents = 0 .. a.max - 1

=============================================================================
