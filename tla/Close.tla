------------------------------- MODULE Close -------------------------------
(***************************************************************************)
(* What is done with all of a table's nodes: gathering the closest ones    *)
(* (close.c), and writing the table to a text and reading it back          *)
(* (table.c).                                                              *)
(*                                                                         *)
(* A CloseNodes is the sequence of the places of its nodes; the distance   *)
(* that the code keeps with each follows from id.  A line of a dump stands *)
(* for the id in it.                                                       *)
(***************************************************************************)
EXTENDS Table, SequencesExt

(* The elements of the finite set S in the order Less. *)
Sorted(S, Less(_, _)) ==
    [i \in 1 .. Cardinality(S) |->
        CHOOSE p \in S : Cardinality({q \in S : Less(q, p)}) = i - 1]

(* The places of a table, in the order in which Table_ForEachNode visits   *)
(* them.                                                                   *)
Table_ForEachNode(t) ==
    Sorted(Places(t), LAMBDA p, q : \/ p[1] < q[1]
                                    \/ p[1] = q[1] /\ p[2] < q[2])

-----------------------------------------------------------------------------
(* The K nodes closest to an id *)

Closer(t, id, p, q) == Distance_Less(Hash_Distance(id, NodeAt(t, p).id),
                                     Hash_Distance(id, NodeAt(t, q).id))

(* Where p goes: before the first node that is not closer, or at the end.  *)
(* 0, for the code's -1, when there are K closer ones.                     *)
FindIndex(t, id, close, p) ==
    LET Fits(i) == i > Len(close) \/ ~Closer(t, id, close[i], p)
    IN  IF \E i \in 1 .. K : Fits(i)
        THEN First({i \in 1 .. K : Fits(i)}) ELSE 0

(* MUTANT: the new node overwrites the one it is closer than. *)
ShiftFrom_Stay(close, from) == close

(* Makes room at from; when there are K nodes the last one is dropped. *)
ShiftFrom(close, from) ==
    [i \in DOMAIN close |-> IF i > from THEN close[i - 1] ELSE close[i]]

CloseNodes_Add(t, id, close, p) ==
    LET i     == FindIndex(t, id, close, p)
        grown == IF Len(close) < K THEN Append(close, NULL) ELSE close
    IN  IF i = 0 THEN close
        ELSE [j \in DOMAIN grown |-> IF j = i THEN p ELSE ShiftFrom(grown, i)[j]]

Table_GatherClosest(t, id) ==
    FoldLeft(LAMBDA close, p : CloseNodes_Add(t, id, close, p),
             <<>>, Table_ForEachNode(t))

(* The order of Table_ForEachCloseNode, which pops them off the end. *)
Table_ForEachCloseNode(t) == Reverse(Table_GatherClosest(t, t.id))

(* What Table_GatherClosest is to return: the K closest nodes, sorted. *)
Closest(t, id) ==
    LET sorted == Sorted(Places(t), LAMBDA p, q : Closer(t, id, p, q))
    IN  SubSeq(sorted, 1, IF Len(sorted) < K THEN Len(sorted) ELSE K)

-----------------------------------------------------------------------------
(* Dumping and reading *)

(* The table's own id comes first. *)
Table_Dump(t) ==
    LET places == Table_ForEachNode(t)
    IN  <<t.id>> \o [i \in DOMAIN places |-> NodeAt(t, places[i]).id]

(* MUTANT: the counter is left as malloc returned it. *)
ReadNode_NotCleared(read, id, time) ==
    LET node   == [Node_Create(id) EXCEPT !.pending_queries = NodeMaxPending]
        result == Table_InsertNode(read.table, node, time)
    IN  [table |-> result.table,
         lines |-> Append(read.lines,
             [rc |-> result.rc, split |-> result.table.end > read.table.end])]

(* One line: the node is inserted as one that was never heard from.  The   *)
(* return codes are kept in the order of the lines.                        *)
ReadNode(read, id, time) ==
    LET result == Table_InsertNode(read.table, Node_Create(id), time)
    IN  [table |-> result.table,
         lines |-> Append(read.lines,
             [rc |-> result.rc, split |-> result.table.end > read.table.end])]

(* Every node that is not added is freed. *)
Table_Read(dump, time) ==
    FoldLeft(LAMBDA read, id : ReadNode(read, id, time),
             [table |-> Table_Create(Head(dump)), lines |-> <<>>], Tail(dump))

=============================================================================
