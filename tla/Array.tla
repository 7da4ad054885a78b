------------------------------- MODULE Array -------------------------------
(***************************************************************************)
(* A DArray in use, as the client uses those that hold its searches and    *)
(* its messages: pushed to, popped from, and compacted after some of its   *)
(* elements have been removed.                                             *)
(***************************************************************************)
EXTENDS DArray

CONSTANTS
    Values,      \* what is pushed
    InitialMax,  \* the initial_max given to DArray_create
    MaxElements  \* bound on the number of elements

ASSUME InitialMaxAssumption == InitialMax \in Nat \ {0}

VARIABLES
    array,
    call,        \* history: the last operation, with its arguments
    popped       \* what the last DArray_pop returned

arrayVars == <<array, call, popped>>

ArrayInit == array = DArray_create(InitialMax) /\ call = <<>> /\ popped = NULL

ArrayPush(v) ==
    /\ array.end < MaxElements
    /\ call' = <<"push", v>>
    /\ array' = DArray_push(array, v)
    /\ UNCHANGED popped

ArrayPop ==
    /\ call' = <<"pop">>
    /\ array' = DArray_pop(array).array
    /\ popped' = DArray_pop(array).el

ArrayRemove(i) ==
    /\ call' = <<"remove", i>>
    /\ array' = DArray_remove(array, i)
    /\ UNCHANGED popped

ArrayCompact ==
    /\ call' = <<"compact">>
    /\ array' = DArray_compact(array)
    /\ UNCHANGED popped

ArrayNext == \/ \E v \in Values : ArrayPush(v)
             \/ ArrayPop
             \/ \E i \in 0 .. array.end - 1 : ArrayRemove(i)
             \/ ArrayCompact

ArrayBehaviour == ArrayInit /\ [][ArrayNext]_arrayVars

-----------------------------------------------------------------------------
(* However the array has grown and shrunk there is a slot for the next     *)
(* element: DArray_push writes before it looks at max, and DArray_contract *)
(* leaves a single free slot.                                              *)
PushStaysInside == HasRoom(array)

Abstract == INSTANCE ArraySpec WITH items <- Elements(array), request <- call,
                                         answer <- popped

(* Resizing, clearing only a part of the new slots, and compacting in      *)
(* place by shifts and pops cannot be told from a sequence: no element is  *)
(* lost, repeated, moved or read from memory that was never written.       *)
IsASequence == Abstract!Spec

=============================================================================
