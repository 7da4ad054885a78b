----------------------------- MODULE HookProofs -----------------------------
(***************************************************************************)
(* The lists of hooks stay linked whatever is added and removed, and walks *)
(* over them are safe and complete while hooks remove only themselves, for *)
(* all sets of hooks and of addresses and all numbers of hook types.       *)
(***************************************************************************)
EXTENDS Hooks, ContainerProofs

Addresses == ListNodes \cup {NULL}

(* A list's record, and the memory of its nodes. *)
ListRecords == [first : Addresses, last : Addresses, count : Nat]

HeapNodes == [next : Addresses, prev : Addresses, value : HookSet]

IsHeap(h) ==
    /\ DOMAIN h \in SUBSET ListNodes /\ IsFiniteSet(DOMAIN h)
    /\ h \in [DOMAIN h -> HeapNodes]

(* The address at an index of S, the null pointer before and after it. *)
At(S, i) == IF i \in 1 .. Len(S) THEN S[i] ELSE NULL

(* The list l consists of the nodes S, in this order. *)
IsList(l, h, S) ==
    /\ l \in ListRecords
    /\ S \in Seq(DOMAIN h)
    /\ \A i, j \in 1 .. Len(S) : S[i] = S[j] => i = j
    /\ l.first = At(S, 1) /\ l.last = At(S, Len(S)) /\ l.count = Len(S)
    /\ \A i \in 1 .. Len(S) : /\ h[S[i]].next = At(S, i + 1)
                              /\ h[S[i]].prev = At(S, i - 1)

(* The list of a type, and the addresses of its nodes. *)
ListAt(hk, type) == DArray_get(hk, type)

NodesOf(hk, h, type) == Forward(ListAt(hk, type), h)

(* Every list is linked and holds the hooks of its type, and there are no  *)
(* other nodes.                                                            *)
ListsOK(hk, h) ==
    /\ IsHeap(h)
    /\ IsArray(hk, ListRecords) /\ hk.end = HookTypeMax
    /\ \A type \in HookTypes :
          /\ IsList(ListAt(hk, type), h, NodesOf(hk, h, type))
          /\ \A i \in 1 .. Len(NodesOf(hk, h, type)) :
                TypeOf(h[NodesOf(hk, h, type)[i]].value) = type
    /\ \A p \in DOMAIN h :
          \E i \in 1 .. Len(NodesOf(hk, h, TypeOf(h[p].value))) :
             NodesOf(hk, h, TypeOf(h[p].value))[i] = p

Runs == [cur : ListNodes, next : Addresses, called : HookSet, due : Seq(HookSet)]

(* A is a part of S without gaps. *)
Segment(A, S) ==
    \E m \in 1 .. Len(S) : /\ m + Len(A) - 1 <= Len(S)
                           /\ \A i \in 1 .. Len(A) : A[i] = S[m + i - 1]

(* The nodes ahead of a run: its next one, those of the hooks that are due *)
(* and perhaps more.  None of them is the only node of the hook that is    *)
(* being called.                                                           *)
Ahead(run, h, A) ==
    /\ A \in Seq(DOMAIN h) /\ Len(A) >= 1 /\ Len(run.due) <= Len(A)
    /\ run.next = A[1]
    /\ \A i \in 1 .. Len(run.due) : run.due[i] = h[A[i]].value
    /\ \A i \in 1 .. Len(A) : h[A[i]].value = run.called
                              => /\ run.cur \in DOMAIN h /\ run.cur # A[i]
                                 /\ h[run.cur].value = run.called

RunOK(run, hk, h) ==
    \/ run.next = NULL /\ run.due = <<>>
    \/ \E type \in HookTypes : \E A \in Seq(DOMAIN h) :
          Segment(A, NodesOf(hk, h, type)) /\ Ahead(run, h, A)

(* The inductive invariant. *)
HookInv ==
    /\ ListsOK(hooks, heap)
    /\ runs \in Seq(Runs) /\ undefined \in BOOLEAN /\ careful \in BOOLEAN
    /\ careful => /\ ~undefined
                  /\ \A i \in 1 .. Len(runs) : RunOK(runs[i], hooks, heap)

-----------------------------------------------------------------------------
(* The addresses before, within and after a sequence. *)
LEMMA AtOK ==
    ASSUME NEW D, NEW S \in Seq(D)
    PROVE  /\ Len(S) \in Nat
           /\ At(S, 0) = NULL /\ At(S, Len(S) + 1) = NULL
           /\ \A i \in 1 .. Len(S) : At(S, i) = S[i] /\ S[i] \in D
<1>1. Len(S) \in Nat /\ \A i \in 1 .. Len(S) : S[i] \in D
  OBVIOUS
<1> QED
  BY <1>1 DEF At

(* No two indexes of S have the same address. *)
Distinct(S) == \A i, j \in 1 .. Len(S) : S[i] = S[j] => i = j

(* There are as many indexes as elements. *)
LEMMA IndexesOK ==
    ASSUME NEW n \in Nat
    PROVE  IsFiniteSet(1 .. n) /\ Cardinality(1 .. n) = n
BY FS_Interval

(* A sequence of different members of a finite set is not longer than it. *)
LEMMA DistinctBound ==
    ASSUME NEW D, IsFiniteSet(D), NEW S \in Seq(D), Distinct(S)
    PROVE  Cardinality(D) \in Nat /\ Len(S) <= Cardinality(D)
<1> DEFINE n == Len(S)
<1>1. n \in Nat /\ S \in [1 .. n -> D]
  OBVIOUS
<1>2. Cardinality(D) \in Nat /\ IsFiniteSet(1 .. n) /\ Cardinality(1 .. n) = n
  BY <1>1, IndexesOK, FS_CardinalityType
<1>3. S \in Injection(1 .. n, D)
  BY <1>1 DEF Injection, IsInjective, Distinct
<1>4. Cardinality(1 .. n) <= Cardinality(D)
  BY <1>2, <1>3, FS_Injection
<1> QED
  BY <1>2, <1>4

(* Walk follows the pointers of a chain that ends with the null pointer    *)
(* and shows its addresses in order.                                       *)
LEMMA WalkIs ==
    ASSUME NEW link, IsFiniteSet(DOMAIN link), NULL \notin DOMAIN link,
           NEW S \in Seq(DOMAIN link), Distinct(S),
           \A i \in 1 .. Len(S) : link[S[i]] = At(S, i + 1)
    PROVE  Walk(At(S, 1), link) = S
<1> DEFINE p == At(S, 1)
           Loop(f) == [n \in Nat |-> IF n = 0 THEN p
                                     ELSE IF f[n - 1] \in DOMAIN link
                                          THEN link[f[n - 1]] ELSE NULL]
           at == CHOOSE f : f = Loop(f)
           steps == {n \in 1 .. Cardinality(DOMAIN link) + 1 : at[n - 1] # NULL}
           g == [n \in Nat |-> At(S, n + 1)]
<1>1. Walk(p, link) = [n \in 1 .. Cardinality(steps) |-> at[n - 1]]
  BY DEF Walk
<1>2. /\ Len(S) \in Nat /\ \A i \in 1 .. Len(S) : S[i] \in DOMAIN link
      /\ Cardinality(DOMAIN link) \in Nat /\ Len(S) <= Cardinality(DOMAIN link)
  BY DistinctBound
<1>3. g = Loop(g)
  <2>1. ASSUME NEW n \in Nat, n # 0
        PROVE  At(S, n + 1) = IF At(S, n) \in DOMAIN link
                              THEN link[At(S, n)] ELSE NULL
    <3>1. CASE n \in 1 .. Len(S)
      BY <1>2, <3>1 DEF At
    <3>2. CASE n \notin 1 .. Len(S)
      <4>1. n + 1 \notin 1 .. Len(S)
        BY <1>2, <2>1, <3>2
      <4> QED
        BY <3>2, <4>1 DEF At
    <3> QED
      BY <3>1, <3>2
  <2>2. g[0] = p
    BY DEF At
  <2>3. \A n \in Nat : n # 0 => n - 1 \in Nat /\ g[n - 1] = At(S, n)
    OBVIOUS
  <2>4. ASSUME NEW n \in Nat PROVE g[n] = Loop(g)[n]
    <3>1. CASE n = 0
      BY <2>2, <3>1
    <3>2. CASE n # 0
      <4>1. g[n] = At(S, n + 1) /\ g[n - 1] = At(S, n)
        BY <2>3, <3>2
      <4>2. Loop(g)[n] = IF g[n - 1] \in DOMAIN link THEN link[g[n - 1]] ELSE NULL
        BY <3>2
      <4> HIDE DEF g, Loop
      <4> QED
        BY <2>1, <3>2, <4>1, <4>2
    <3> QED
      BY <3>1, <3>2
  <2> QED
    BY <2>4
<1>4. at = Loop(at)
  <2> HIDE DEF Loop, g
  <2> QED
    BY <1>3
<1> HIDE DEF at
<1>5. \A n \in Nat : at[n] = IF n = 0 THEN p ELSE IF at[n - 1] \in DOMAIN link
                                                 THEN link[at[n - 1]] ELSE NULL
  BY <1>4
<1>6. \A n \in Nat : g[n] = IF n = 0 THEN p ELSE IF g[n - 1] \in DOMAIN link
                                                THEN link[g[n - 1]] ELSE NULL
  <2> HIDE DEF g
  <2> QED
    BY <1>3
<1> DEFINE c == Cardinality(DOMAIN link)
           Inv == {n \in Nat : at[n] = g[n]}
<1> HIDE DEF Loop, g, p, c
<1>7. 0 .. c \subseteq Inv
  <2>1. 0 \in Inv
    BY <1>5, <1>6
  <2>2. ASSUME NEW k \in 0 .. c - 1, k \in Inv PROVE k + 1 \in Inv
    <3>1. k \in Nat /\ k + 1 \in Nat /\ k + 1 # 0 /\ (k + 1) - 1 = k
      BY <1>2 DEF c
    <3>2. at[k + 1] = IF at[k] \in DOMAIN link THEN link[at[k]] ELSE NULL
      BY <1>5, <3>1
    <3>3. g[k + 1] = IF g[k] \in DOMAIN link THEN link[g[k]] ELSE NULL
      BY <1>6, <3>1
    <3> QED
      BY <2>2, <3>1, <3>2, <3>3
  <2>3. c \in Nat
    BY <1>2 DEF c
  <2> HIDE DEF Inv
  <2> QED
    BY ONLY <2>1, <2>2, <2>3, BoundedInduction
<1>8. \A n \in 1 .. c + 1 : at[n - 1] = At(S, n)
  <2>1. \A n \in 1 .. c + 1 : n - 1 \in 0 .. c /\ n - 1 \in Nat /\ (n - 1) + 1 = n
    BY <1>2 DEF c
  <2> QED
    BY <1>7, <2>1 DEF g
<1>9. steps = 1 .. Len(S)
  <2>1. \A n \in 1 .. c + 1 : At(S, n) # NULL <=> n \in 1 .. Len(S)
    BY <1>2 DEF At
  <2>2. 1 .. Len(S) \subseteq 1 .. c + 1
    BY <1>2 DEF c
  <2>3. steps = {n \in 1 .. c + 1 : At(S, n) # NULL}
    BY <1>8 DEF c
  <2> HIDE DEF steps
  <2> QED
    BY ONLY <2>1, <2>2, <2>3
<1> HIDE DEF steps
<1>10. Cardinality(steps) = Len(S)
  BY <1>2, <1>9, IndexesOK
<1>11. \A n \in 1 .. Len(S) : at[n - 1] = S[n]
  <2>1. \A n \in 1 .. Len(S) : n \in 1 .. c + 1
    BY <1>2 DEF c
  <2> QED
    BY <1>8, <2>1 DEF At
<1>12. Walk(p, link) = [n \in 1 .. Len(S) |-> S[n]]
  BY <1>1, <1>10, <1>11
<1> QED
  BY <1>12 DEF p

(* Following the next pointers of a list shows its nodes. *)
LEMMA ForwardIs ==
    ASSUME NEW h, IsHeap(h), NEW l, NEW S, IsList(l, h, S)
    PROVE  Forward(l, h) = S
<1> DEFINE link == [p \in DOMAIN h |-> h[p].next]
<1>1. DOMAIN link = DOMAIN h /\ IsFiniteSet(DOMAIN h) /\ NULL \notin DOMAIN h
  BY HooksAssumption DEF IsHeap
<1>2. S \in Seq(DOMAIN h) /\ Distinct(S) /\ l.first = At(S, 1)
  BY DEF IsList, Distinct
<1>3. \A i \in 1 .. Len(S) : link[S[i]] = At(S, i + 1)
  BY <1>2 DEF IsList
<1>4. Forward(l, h) = Walk(l.first, link)
  BY DEF Forward
<1> HIDE DEF link
<1> QED
  BY <1>1, <1>2, <1>3, <1>4, WalkIs

(* The nodes of S from the last to the first. *)
LEMMA ReverseOK ==
    ASSUME NEW D, NEW S \in Seq(D)
    PROVE  /\ Reverse(S) \in Seq(D) /\ Len(Reverse(S)) = Len(S)
           /\ \A i \in 1 .. Len(S) : Reverse(S)[i] = S[Len(S) - i + 1]
<1> DEFINE n == Len(S)
           R == [i \in 1 .. n |-> S[(n - i) + 1]]
<1>1. n \in Nat /\ \A i \in 1 .. n : S[i] \in D
  OBVIOUS
<1>2. \A i \in 1 .. n : (n - i) + 1 \in 1 .. n
  BY <1>1
<1>3. R \in [1 .. n -> D]
  BY <1>1, <1>2
<1>4. Reverse(S) = R
  BY DEF Reverse
<1>5. \A i \in 1 .. n : R[i] = S[(n - i) + 1]
  OBVIOUS
<1> HIDE DEF R, n
<1>6. R \in Seq(D) /\ Len(R) = n
  BY ONLY <1>1, <1>3, FunctionIsSeq
<1> QED
  BY <1>4, <1>5, <1>6 DEF n

(* Following the prev pointers shows them in reverse. *)
LEMMA BackwardIs ==
    ASSUME NEW h, IsHeap(h), NEW l, NEW S, IsList(l, h, S)
    PROVE  Backward(l, h) = Reverse(S)
<1> DEFINE link == [p \in DOMAIN h |-> h[p].prev]
           R == Reverse(S)
           n == Len(S)
<1>1. DOMAIN link = DOMAIN h /\ IsFiniteSet(DOMAIN h) /\ NULL \notin DOMAIN h
  BY HooksAssumption DEF IsHeap
<1>2. /\ S \in Seq(DOMAIN h) /\ l.last = At(S, n) /\ n \in Nat
      /\ \A i, j \in 1 .. n : S[i] = S[j] => i = j
  BY DEF IsList
<1>3. /\ R \in Seq(DOMAIN h) /\ Len(R) = n
      /\ \A i \in 1 .. n : R[i] = S[n - i + 1]
  BY <1>2, ReverseOK
<1>4. \A i \in 1 .. n : link[S[i]] = At(S, i - 1)
  BY <1>2 DEF IsList
<1>5. Backward(l, h) = Walk(l.last, link)
  BY DEF Backward
<1> HIDE DEF link, R, n
<1>6. \A i \in 1 .. n : (n - i) + 1 \in 1 .. n
  BY <1>2
<1>7. Distinct(R)
  <2> SUFFICES ASSUME NEW i \in 1 .. n, NEW j \in 1 .. n, R[i] = R[j]
               PROVE  i = j
    BY <1>3 DEF Distinct
  <2>1. n - i + 1 = n - j + 1
    BY <1>2, <1>3, <1>6
  <2> QED
    BY <1>2, <2>1
<1>8. \A i \in 0 .. n : At(R, i + 1) = At(S, n - i)
  <2> TAKE i \in 0 .. n
  <2>1. CASE i = n
    <3>1. n + 1 \notin 1 .. n /\ n - n \notin 1 .. n
      BY <1>2
    <3> QED
      BY <1>3, <2>1, <3>1 DEF At, n
  <2>2. CASE i # n
    <3>1. i + 1 \in 1 .. n /\ n - i \in 1 .. n /\ n - (i + 1) + 1 = n - i
      BY <1>2, <2>2
    <3>2. R[i + 1] = S[n - i]
      BY <1>3, <3>1
    <3> QED
      BY <1>3, <3>1, <3>2 DEF At, n
  <2> QED
    BY <2>1, <2>2
<1>9. \A i \in 1 .. Len(R) : link[R[i]] = At(R, i + 1)
  <2> TAKE i \in 1 .. Len(R)
  <2>1. /\ i \in 1 .. n /\ i \in 0 .. n /\ n - i + 1 \in 1 .. n
        /\ (n - i + 1) - 1 = n - i
    <3>1. i \in 1 .. n /\ n \in Nat
      BY <1>2, <1>3
    <3> QED
      BY ONLY <3>1
  <2>2. link[R[i]] = At(S, n - i)
    BY <1>3, <1>4, <2>1
  <2> QED
    BY <1>8, <2>1, <2>2
<1>10. l.last = At(R, 1)
  <2>1. 0 \in 0 .. n /\ 0 + 1 = 1 /\ n - 0 = n
    BY <1>2
  <2> QED
    BY <1>2, <1>8, <2>1
<1> QED
  BY <1>1, <1>3, <1>5, <1>7, <1>9, <1>10, WalkIs DEF R

-----------------------------------------------------------------------------
(* A list is not disturbed by changes to other nodes. *)
LEMMA ListFrame ==
    ASSUME NEW l, NEW h, NEW g, NEW S, IsList(l, h, S),
           \A i \in 1 .. Len(S) : S[i] \in DOMAIN g /\ g[S[i]] = h[S[i]]
    PROVE  IsList(l, g, S)
<1>1. S \in Seq(DOMAIN h)
  BY DEF IsList
<1>2. Len(S) \in Nat /\ S \in [1 .. Len(S) -> DOMAIN g]
  BY <1>1
<1>3. S \in Seq(DOMAIN g)
  BY ONLY <1>2, FunctionIsSeq
<1> QED
  BY <1>3 DEF IsList

(* List_push appends a node, and changes no other list. *)
LEMMA ListPushOK ==
    ASSUME NEW s, NEW S, IsHeap(s.heap), IsList(s.list, s.heap, S),
           NEW node \in ListNodes \ DOMAIN s.heap, NEW value \in HookSet,
           NEW t, t = List_push(s, node, value)
    PROVE  /\ IsHeap(t.heap) /\ IsList(t.list, t.heap, Append(S, node))
           /\ DOMAIN t.heap = DOMAIN s.heap \cup {node}
           /\ t.heap[node].value = value
           /\ \A p \in DOMAIN s.heap :
                 /\ t.heap[p].value = s.heap[p].value
                 /\ (\A i \in 1 .. Len(S) : S[i] # p) => t.heap[p] = s.heap[p]
<1> DEFINE h == s.heap
           n == Len(S)
           T == Append(S, node)
           last == s.list.last
           first == IF last = NULL THEN node ELSE s.list.first
<1>1. /\ S \in Seq(DOMAIN h) /\ n \in Nat /\ s.list \in ListRecords
      /\ s.list.first = At(S, 1) /\ last = At(S, n) /\ s.list.count = n
      /\ \A i \in 1 .. n : S[i] \in DOMAIN h
  BY DEF IsList
<1>2. \A i, j \in 1 .. n : S[i] = S[j] => i = j
  BY DEF IsList
<1>3. \A i \in 1 .. n : h[S[i]].next = At(S, i + 1) /\ h[S[i]].prev = At(S, i - 1)
  BY DEF IsList
<1>4. last \in DOMAIN h \cup {NULL} /\ (last = NULL <=> n = 0)
  BY <1>1, HooksAssumption DEF At, IsHeap
<1>5. /\ t.list \in ListRecords
      /\ t.list.first = first
      /\ t.list.last = node /\ t.list.count = n + 1
      /\ t.heap = [p \in DOMAIN h \cup {node} |->
                     IF p = node
                     THEN [next |-> NULL, prev |-> last, value |-> value]
                     ELSE IF p = last THEN [h[p] EXCEPT !.next = node] ELSE h[p]]
  <2>1. t.list = [s.list EXCEPT !.first = first, !.last = node, !.count = n + 1]
    BY <1>1 DEF List_push
  <2>2. first \in Addresses /\ node \in Addresses /\ n + 1 \in Nat
    BY <1>1 DEF ListRecords, Addresses
  <2>3. t.heap = List_push(s, node, value).heap
    OBVIOUS
  <2> HIDE DEF first, n
  <2>4. /\ t.list \in ListRecords /\ t.list.first = first
        /\ t.list.last = node /\ t.list.count = n + 1
    BY ONLY <1>1, <2>1, <2>2 DEF ListRecords
  <2> QED
    BY <2>3, <2>4 DEF List_push
<1>6. \A p \in DOMAIN h : h[p] \in HeapNodes
  BY DEF IsHeap
<1>7. /\ DOMAIN t.heap = DOMAIN h \cup {node}
      /\ t.heap[node] = [next |-> NULL, prev |-> last, value |-> value]
      /\ \A p \in DOMAIN h : /\ p # node
                             /\ p # last => t.heap[p] = h[p]
                             /\ p = last => t.heap[p] = [h[p] EXCEPT !.next = node]
  BY <1>5
<1>8. t.heap[node] \in HeapNodes /\ t.heap[node].value = value
      /\ t.heap[node].next = NULL /\ t.heap[node].prev = last
  BY <1>1, <1>4, <1>7 DEF HeapNodes, Addresses, IsHeap
<1>9. \A p \in DOMAIN h : /\ t.heap[p] \in HeapNodes
                          /\ t.heap[p].value = h[p].value
                          /\ t.heap[p].prev = h[p].prev
                          /\ t.heap[p].next = IF p = last THEN node ELSE h[p].next
  <2> TAKE p \in DOMAIN h
  <2>1. h[p] \in HeapNodes /\ node \in Addresses
    BY <1>6 DEF Addresses
  <2>2. CASE p = last
    <3>1. t.heap[p] = [h[p] EXCEPT !.next = node]
      BY <1>7, <2>2
    <3> QED
      BY ONLY <2>1, <2>2, <3>1 DEF HeapNodes
  <2>3. CASE p # last
    BY <1>7, <2>1, <2>3
  <2> QED
    BY <2>2, <2>3
<1>10. IsHeap(t.heap)
  <2>1. IsFiniteSet(DOMAIN h \cup {node})
    BY FS_AddElement DEF IsHeap
  <2>2. DOMAIN t.heap \in SUBSET ListNodes
    BY <1>7 DEF IsHeap
  <2>3. t.heap \in [DOMAIN t.heap -> HeapNodes]
    BY <1>5, <1>7, <1>8, <1>9
  <2> QED
    BY <1>7, <2>1, <2>2, <2>3 DEF IsHeap
<1>11. /\ T \in Seq(DOMAIN t.heap) /\ Len(T) = n + 1 /\ T[n + 1] = node
       /\ \A i \in 1 .. n : T[i] = S[i] /\ S[i] # node
  <2>1. S \in Seq(DOMAIN t.heap) /\ node \in DOMAIN t.heap
    BY <1>1, <1>7
  <2> QED
    BY <1>1, <2>1
<1> HIDE DEF T, h, n, last
<1>12. \A i \in 1 .. n + 1 : i \in 1 .. n \/ i = n + 1
  BY <1>1
<1>13. \A i, j \in 1 .. Len(T) : T[i] = T[j] => i = j
  BY <1>1, <1>2, <1>11, <1>12
<1>14. At(T, n + 1) = node /\ At(T, n + 2) = NULL /\ \A i \in 0 .. n : At(T, i) = At(S, i)
  <2>1. n + 1 \in 1 .. n + 1 /\ n + 2 \notin 1 .. n + 1
    BY <1>1
  <2>2. \A i \in 0 .. n : i \in 1 .. n + 1 <=> i \in 1 .. n
    BY <1>1
  <2> QED
    BY <1>11, <2>1, <2>2 DEF At, n
<1>15. t.list.first = At(T, 1) /\ t.list.last = At(T, Len(T)) /\ t.list.count = Len(T)
  <2>1. CASE n = 0
    BY <1>4, <1>5, <1>11, <1>14, <2>1
  <2>2. CASE n # 0
    <3>1. 1 \in 0 .. n
      BY <1>1, <2>2
    <3> QED
      BY <1>1, <1>4, <1>5, <1>11, <1>14, <2>2, <3>1
  <2> QED
    BY <2>1, <2>2
<1>16. ASSUME NEW i \in 1 .. n + 1
       PROVE  t.heap[T[i]].next = At(T, i + 1) /\ t.heap[T[i]].prev = At(T, i - 1)
  <2>1. CASE i = n + 1
    <3>1. i + 1 = n + 2 /\ i - 1 = n /\ n \in 0 .. n
      <4>1. n \in Nat
        BY <1>1
      <4> HIDE DEF n
      <4> QED
        BY ONLY <2>1, <4>1
    <3> QED
      BY <1>1, <1>8, <1>11, <1>14, <2>1, <3>1
  <2>2. CASE i \in 1 .. n
    <3>1. T[i] = S[i] /\ S[i] \in DOMAIN h
      BY <1>1, <1>11, <2>2
    <3>2. i - 1 \in 0 .. n /\ (i # n => i + 1 \in 0 .. n) /\ i # 0 /\ n \in 1 .. n
      BY <1>1, <2>2
    <3>3. S[i] = last <=> i = n
      <4>1. last = S[n]
        BY <1>1, <3>2 DEF At, n
      <4> QED
        BY <1>2, <2>2, <3>2, <4>1
    <3>4. t.heap[T[i]].prev = At(T, i - 1)
      BY <1>3, <1>9, <1>14, <2>2, <3>1, <3>2
    <3>5. CASE i = n
      BY <1>9, <1>14, <3>1, <3>3, <3>4, <3>5
    <3>6. CASE i # n
      BY <1>3, <1>9, <1>14, <2>2, <3>1, <3>2, <3>3, <3>4, <3>6
    <3> QED
      BY <3>5, <3>6
  <2> QED
    BY <1>12, <2>1, <2>2
<1>17. IsList(t.list, t.heap, T)
  BY <1>5, <1>11, <1>13, <1>15, <1>16 DEF IsList
<1>18. ASSUME NEW p \in DOMAIN h, \A i \in 1 .. n : S[i] # p
       PROVE  t.heap[p] = h[p]
  <2>1. last # p
    <3>1. CASE n = 0
      BY <1>4, <3>1, HooksAssumption DEF IsHeap, h
    <3>2. CASE n # 0
      <4>1. n \in 1 .. n
        BY <1>1, <3>2
      <4> QED
        BY <1>1, <1>18, <4>1 DEF At, n
    <3> QED
      BY <3>1, <3>2
  <2> QED
    BY <1>7, <2>1
<1> QED
  BY <1>7, <1>8, <1>9, <1>10, <1>17, <1>18 DEF T, h, n

(* S without its k-th element. *)
Without(S, k) == [i \in 1 .. Len(S) - 1 |-> IF i < k THEN S[i] ELSE S[i + 1]]

(* The elements that are left, in their order. *)
LEMMA WithoutOK ==
    ASSUME NEW D, NEW S \in Seq(D), Distinct(S), NEW k \in 1 .. Len(S)
    PROVE  /\ Without(S, k) \in Seq(D \ {S[k]}) /\ Distinct(Without(S, k))
           /\ Len(Without(S, k)) = Len(S) - 1
           /\ \A i \in 1 .. Len(S) - 1 :
                 /\ i < k => i \in 1 .. Len(S) /\ Without(S, k)[i] = S[i]
                 /\ i >= k => i + 1 \in 1 .. Len(S) /\ Without(S, k)[i] = S[i + 1]
           /\ \A i \in 0 .. Len(S) :
                 At(Without(S, k), i) = IF i < k THEN At(S, i) ELSE At(S, i + 1)
<1> DEFINE n == Len(S)
           R == Without(S, k)
<1>1. n \in Nat /\ k \in 1 .. n /\ n - 1 \in Nat /\ \A i \in 1 .. n : S[i] \in D
  OBVIOUS
<1>2. \A i \in 1 .. n - 1 : i \in 1 .. n /\ i + 1 \in 1 .. n
  BY <1>1
<1>3. \A i \in 1 .. n - 1 : /\ i < k => R[i] = S[i]
                            /\ i >= k => R[i] = S[i + 1]
  BY <1>1 DEF Without
<1>4. R \in [1 .. n - 1 -> D \ {S[k]}]
  <2>1. R = [i \in 1 .. n - 1 |-> R[i]]
    BY DEF Without
  <2>2. ASSUME NEW i \in 1 .. n - 1 PROVE R[i] \in D \ {S[k]}
    <3>1. CASE i < k
      <4>1. R[i] = S[i] /\ i \in 1 .. n /\ i # k
        BY <1>1, <1>2, <1>3, <3>1
      <4> QED
        BY <1>1, <4>1 DEF Distinct
    <3>2. CASE i >= k
      <4>1. R[i] = S[i + 1] /\ i + 1 \in 1 .. n /\ i + 1 # k
        BY <1>1, <1>2, <1>3, <3>2
      <4> QED
        BY <1>1, <4>1 DEF Distinct
    <3> QED
      BY <1>1, <3>1, <3>2
  <2> HIDE DEF R, n
  <2> QED
    BY <2>1, <2>2
<1> HIDE DEF R
<1>5. R \in Seq(D \ {S[k]}) /\ Len(R) = n - 1
  <2> HIDE DEF n
  <2> QED
    BY ONLY <1>1, <1>4, FunctionIsSeq
<1>6. Distinct(R)
  <2> SUFFICES ASSUME NEW i \in 1 .. n - 1, NEW j \in 1 .. n - 1, R[i] = R[j]
               PROVE  i = j
    BY <1>5 DEF Distinct
  <2>1. ASSUME NEW a \in 1 .. n, NEW b \in 1 .. n, S[a] = S[b] PROVE a = b
    BY <2>1 DEF Distinct
  <2> HIDE DEF n
  <2>2. (i < k \/ i >= k) /\ (j < k \/ j >= k)
    BY <1>1
  <2>3. CASE i < k /\ j < k
    BY <1>2, <1>3, <2>1, <2>3
  <2>4. CASE i < k /\ j >= k
    <3>1. i = j + 1
      BY <1>2, <1>3, <2>1, <2>4
    <3> QED
      BY <1>1, <2>4, <3>1
  <2>5. CASE i >= k /\ j < k
    <3>1. i + 1 = j
      BY <1>2, <1>3, <2>1, <2>5
    <3> QED
      BY <1>1, <2>5, <3>1
  <2>6. CASE i >= k /\ j >= k
    <3>1. i + 1 = j + 1
      BY <1>2, <1>3, <2>1, <2>6
    <3> QED
      BY <3>1
  <2> QED
    BY <2>2, <2>3, <2>4, <2>5, <2>6
<1>7. ASSUME NEW i \in 0 .. n
      PROVE  At(R, i) = IF i < k THEN At(S, i) ELSE At(S, i + 1)
  <2>1. CASE i \in 1 .. n - 1
    BY <1>1, <1>2, <1>3, <1>5, <2>1 DEF At
  <2>2. CASE i = 0
    <3>1. i < k /\ i \notin 1 .. n /\ i \notin 1 .. n - 1
      BY <1>1, <2>2
    <3> QED
      BY <1>5, <3>1 DEF At
  <2>3. CASE i = n
    <3>1. ~(i < k) /\ i + 1 \notin 1 .. n /\ i \notin 1 .. n - 1
      BY <1>1, <2>3
    <3> QED
      BY <1>5, <3>1 DEF At
  <2> QED
    BY <1>1, <2>1, <2>2, <2>3
<1> QED
  BY <1>2, <1>3, <1>5, <1>6, <1>7 DEF R

(* List_remove takes a node out of its list, wherever it is, and changes   *)
(* no other list.                                                          *)
LEMMA ListRemoveOK ==
    ASSUME NEW s, NEW S, IsHeap(s.heap), IsList(s.list, s.heap, S),
           NEW k \in 1 .. Len(S), NEW t, t = List_remove(s, S[k])
    PROVE  /\ IsHeap(t.heap) /\ IsList(t.list, t.heap, Without(S, k))
           /\ DOMAIN t.heap = DOMAIN s.heap \ {S[k]}
           /\ \A p \in DOMAIN t.heap :
                 /\ t.heap[p].value = s.heap[p].value
                 /\ (\A i \in 1 .. Len(S) : S[i] # p) => t.heap[p] = s.heap[p]
<1> DEFINE h == s.heap
           n == Len(S)
           node == S[k]
           R == Without(S, k)
           before == At(S, k - 1)
           after == At(S, k + 1)
           first == IF node = s.list.first THEN after ELSE s.list.first
           last == IF node = s.list.last THEN before ELSE s.list.last
<1>1. /\ S \in Seq(DOMAIN h) /\ n \in Nat /\ s.list \in ListRecords
      /\ s.list.first = At(S, 1) /\ s.list.last = At(S, n) /\ s.list.count = n
      /\ \A i \in 1 .. n : S[i] \in DOMAIN h
      /\ k \in 1 .. n /\ node \in DOMAIN h
  BY DEF IsList
<1>2. \A i, j \in 1 .. n : S[i] = S[j] => i = j
  BY DEF IsList
<1>3. /\ \A i \in 1 .. n : /\ h[S[i]].next = At(S, i + 1)
                           /\ h[S[i]].prev = At(S, i - 1)
      /\ h[node].next = after /\ h[node].prev = before
  BY DEF IsList
<1>4. NULL \notin DOMAIN h /\ DOMAIN h \in SUBSET ListNodes /\ IsFiniteSet(DOMAIN h)
      /\ \A p \in DOMAIN h : h[p] \in HeapNodes
  BY HooksAssumption DEF IsHeap
<1>5. /\ before \in Addresses /\ after \in Addresses
      /\ \A i \in 1 .. n : /\ S[i] = before <=> i = k - 1
                           /\ S[i] = after <=> i = k + 1
  <2>1. k - 1 \in Int /\ k + 1 \in Int
    BY <1>1
  <2> HIDE DEF h, n
  <2> QED
    BY <1>1, <1>2, <1>4, <2>1 DEF At, Addresses, n
<1>6. /\ t.list = [s.list EXCEPT !.first = first, !.last = last, !.count = n - 1]
      /\ t.heap = [p \in DOMAIN h \ {node} |->
                     CASE p = after -> [h[p] EXCEPT !.prev = before]
                       [] p = before -> [h[p] EXCEPT !.next = after]
                       [] OTHER -> h[p]]
  <2> DEFINE u == Unlink(s, node)
  <2>1. u.list = [s.list EXCEPT !.first = first, !.last = last]
    BY <1>3 DEF Unlink
  <2>2. u.heap = [p \in DOMAIN h |->
                     CASE p = after -> [h[p] EXCEPT !.prev = before]
                       [] p = before -> [h[p] EXCEPT !.next = after]
                       [] OTHER -> h[p]]
    BY <1>3 DEF Unlink
  <2>3. /\ t.list = [u.list EXCEPT !.count = @ - 1]
        /\ t.heap = [p \in DOMAIN u.heap \ {node} |-> u.heap[p]]
    BY DEF List_remove
  <2> HIDE DEF u, first, last, before, after, node, h, n
  <2>4. t.list = [s.list EXCEPT !.first = first, !.last = last, !.count = n - 1]
    BY ONLY <1>1, <2>1, <2>3 DEF ListRecords
  <2>5. t.heap = [p \in DOMAIN h \ {node} |->
                     CASE p = after -> [h[p] EXCEPT !.prev = before]
                       [] p = before -> [h[p] EXCEPT !.next = after]
                       [] OTHER -> h[p]]
    BY ONLY <2>2, <2>3
  <2> QED
    BY <2>4, <2>5
<1>7. /\ t.list \in ListRecords /\ t.list.first = first /\ t.list.last = last
      /\ t.list.count = n - 1
  <2>1. first \in Addresses /\ last \in Addresses /\ n - 1 \in Nat
    BY <1>1, <1>5 DEF ListRecords
  <2> HIDE DEF first, last, n
  <2> QED
    BY ONLY <1>1, <1>6, <2>1 DEF ListRecords
<1>8. /\ R \in Seq(DOMAIN h \ {node}) /\ Distinct(R) /\ Len(R) = n - 1
      /\ \A i \in 1 .. n - 1 :
            /\ i < k => i \in 1 .. n /\ R[i] = S[i]
            /\ i >= k => i + 1 \in 1 .. n /\ R[i] = S[i + 1]
      /\ \A i \in 0 .. n : At(R, i) = IF i < k THEN At(S, i) ELSE At(S, i + 1)
  <2>1. Distinct(S)
    BY <1>2 DEF Distinct
  <2> DEFINE D == DOMAIN h
  <2>2. S \in Seq(D) /\ k \in 1 .. Len(S)
    BY <1>1
  <2> HIDE DEF h, D, n, node, R
  <2>3. /\ Without(S, k) \in Seq(D \ {S[k]}) /\ Distinct(Without(S, k))
        /\ Len(Without(S, k)) = Len(S) - 1
        /\ \A i \in 1 .. Len(S) - 1 :
              /\ i < k => i \in 1 .. Len(S) /\ Without(S, k)[i] = S[i]
              /\ i >= k => i + 1 \in 1 .. Len(S) /\ Without(S, k)[i] = S[i + 1]
        /\ \A i \in 0 .. Len(S) :
              At(Without(S, k), i) = IF i < k THEN At(S, i) ELSE At(S, i + 1)
    BY ONLY <2>1, <2>2, WithoutOK
  <2> QED
    BY ONLY <2>3 DEF n, R, node, D
<1>9. first = At(R, 1) /\ last = At(R, n - 1)
  <2>1. 1 \in 0 .. n /\ n - 1 \in 0 .. n /\ 1 \in 1 .. n /\ n \in 1 .. n
        /\ (k = 1 <=> ~(1 < k)) /\ (k = n <=> n - 1 < k) /\ (n - 1) + 1 = n
    BY <1>1
  <2>2. (node = s.list.first <=> k = 1) /\ (node = s.list.last <=> k = n)
    BY <1>1, <1>2, <2>1 DEF At
  <2>3. At(R, 1) = IF 1 < k THEN At(S, 1) ELSE At(S, 2)
    BY <1>8, <2>1
  <2>4. At(R, n - 1) = IF n - 1 < k THEN At(S, n - 1) ELSE At(S, n)
    BY <1>8, <2>1
  <2> HIDE DEF node, n, R
  <2> QED
    BY <1>1, <2>1, <2>2, <2>3, <2>4
<1> HIDE DEF first, last, R
<1>10. /\ DOMAIN t.heap = DOMAIN h \ {node}
       /\ t.heap = [p \in DOMAIN h \ {node} |-> t.heap[p]]
       /\ \A p \in DOMAIN h \ {node} :
             /\ t.heap[p] \in HeapNodes /\ t.heap[p].value = h[p].value
             /\ p # before => t.heap[p].next = h[p].next
             /\ p = before => t.heap[p].next = after
             /\ p # after => t.heap[p].prev = h[p].prev
             /\ p = after => t.heap[p].prev = before
             /\ p # before /\ p # after => t.heap[p] = h[p]
  <2>1. \A p \in DOMAIN h : ~(p = before /\ p = after)
    <3>1. ASSUME NEW p \in DOMAIN h, p = before, p = after PROVE FALSE
      <4>1. k - 1 \in 1 .. n /\ p = S[k - 1]
        BY <1>4, <3>1 DEF At
      <4>2. k - 1 = k + 1
        BY <1>5, <3>1, <4>1
      <4> QED
        BY <1>1, <4>2
    <3> QED
      BY <3>1
  <2> HIDE DEF h, before, after, node
  <2>2. /\ DOMAIN t.heap = DOMAIN h \ {node}
        /\ t.heap = [p \in DOMAIN h \ {node} |-> t.heap[p]]
    BY <1>6
  <2>3. ASSUME NEW p \in DOMAIN h \ {node}
        PROVE  /\ t.heap[p] \in HeapNodes /\ t.heap[p].value = h[p].value
               /\ p # before => t.heap[p].next = h[p].next
               /\ p = before => t.heap[p].next = after
               /\ p # after => t.heap[p].prev = h[p].prev
               /\ p = after => t.heap[p].prev = before
               /\ p # before /\ p # after => t.heap[p] = h[p]
    <3>1. h[p] \in HeapNodes /\ before \in Addresses /\ after \in Addresses
      BY <1>4, <1>5
    <3>2. CASE p = after
      <4>1. t.heap[p] = [h[p] EXCEPT !.prev = before] /\ p # before
        BY <1>6, <2>1, <3>2
      <4> QED
        BY ONLY <3>1, <3>2, <4>1 DEF HeapNodes
    <3>3. CASE p = before
      <4>1. t.heap[p] = [h[p] EXCEPT !.next = after] /\ p # after
        BY <1>6, <2>1, <3>3
      <4> QED
        BY ONLY <3>1, <3>3, <4>1 DEF HeapNodes
    <3>4. CASE p # after /\ p # before
      <4>1. t.heap[p] = h[p]
        BY <1>6, <3>4
      <4> QED
        BY ONLY <3>1, <3>4, <4>1
    <3> QED
      BY <3>2, <3>3, <3>4
  <2> QED
    BY <2>2, <2>3
<1>11. IsHeap(t.heap)
  <2>1. IsFiniteSet(DOMAIN h \ {node})
    BY <1>4, FS_RemoveElement
  <2> HIDE DEF h, node
  <2>2. t.heap \in [DOMAIN t.heap -> HeapNodes]
    BY <1>10
  <2> QED
    BY <1>4, <1>10, <2>1, <2>2 DEF IsHeap
<1>12. ASSUME NEW i \in 1 .. n - 1
       PROVE  t.heap[R[i]].next = At(R, i + 1) /\ t.heap[R[i]].prev = At(R, i - 1)
  <2>1. /\ i \in 1 .. n /\ i - 1 \in 0 .. n /\ i + 1 \in 0 .. n /\ i + 1 \in 1 .. n
        /\ (i < k \/ i >= k) /\ (i - 1) + 1 = i /\ (i + 1) - 1 = i
        /\ (i + 1) + 1 = i + 2
    BY <1>1
  <2>2. /\ At(R, i + 1) = IF i + 1 < k THEN At(S, i + 1) ELSE At(S, i + 2)
        /\ At(R, i - 1) = IF i - 1 < k THEN At(S, i - 1) ELSE At(S, i)
    BY <1>8, <2>1
  <2>3. R[i] \in DOMAIN h \ {node}
    BY <1>8
  <2>4. CASE i < k
    <3>1. R[i] = S[i] /\ i - 1 < k /\ i # k + 1 /\ (i = k - 1 <=> ~(i + 1 < k))
      BY <1>1, <1>8, <2>4
    <3>2. /\ t.heap[S[i]].prev = At(S, i - 1)
          /\ i # k - 1 => t.heap[S[i]].next = At(S, i + 1)
          /\ i = k - 1 => t.heap[S[i]].next = after
      <4>1. /\ S[i] \in DOMAIN h \ {node}
            /\ S[i] # after /\ (S[i] = before <=> i = k - 1)
            /\ h[S[i]].next = At(S, i + 1) /\ h[S[i]].prev = At(S, i - 1)
        BY <1>3, <1>5, <2>1, <2>3, <3>1
      <4> HIDE DEF h, node, after, before
      <4> QED
        BY <1>10, <4>1
    <3>3. i = k - 1 => k + 1 = i + 2
      BY <1>1
    <3> HIDE DEF h, n, node, before
    <3> QED
      BY ONLY <2>2, <3>1, <3>2, <3>3
  <2>5. CASE i >= k
    <3>1. /\ R[i] = S[i + 1] /\ i + 1 # k - 1 /\ ~(i + 1 < k)
          /\ (i + 1 = k + 1 <=> i - 1 < k) /\ (i - 1 < k => i - 1 = k - 1)
      BY <1>1, <1>8, <2>5
    <3>2. /\ t.heap[S[i + 1]].next = At(S, i + 2)
          /\ i + 1 # k + 1 => t.heap[S[i + 1]].prev = At(S, i)
          /\ i + 1 = k + 1 => t.heap[S[i + 1]].prev = before
      <4>1. /\ S[i + 1] \in DOMAIN h \ {node}
            /\ S[i + 1] # before /\ (S[i + 1] = after <=> i + 1 = k + 1)
            /\ h[S[i + 1]].next = At(S, i + 2) /\ h[S[i + 1]].prev = At(S, i)
        BY <1>3, <1>5, <2>1, <2>3, <3>1
      <4> HIDE DEF h, node, after, before
      <4> QED
        BY <1>10, <4>1
    <3> HIDE DEF h, n, node, after
    <3> QED
      BY ONLY <2>2, <3>1, <3>2
  <2> QED
    BY <2>1, <2>4, <2>5
<1>13. IsList(t.list, t.heap, R)
  <2>1. /\ R \in Seq(DOMAIN t.heap)
        /\ \A i, j \in 1 .. Len(R) : R[i] = R[j] => i = j
    BY <1>8, <1>10 DEF Distinct, R
  <2> HIDE DEF h, node, n
  <2> QED
    BY <1>7, <1>8, <1>9, <1>12, <2>1 DEF IsList
<1>14. ASSUME NEW p \in DOMAIN t.heap, \A i \in 1 .. n : S[i] # p
       PROVE  t.heap[p] = h[p]
  <2>1. p # before /\ p # after /\ p \in DOMAIN h \ {node}
    BY <1>4, <1>10, <1>14 DEF At
  <2> QED
    BY <1>10, <2>1
<1> QED
  BY <1>10, <1>11, <1>13, <1>14 DEF R

-----------------------------------------------------------------------------
(* A turn of List_remove_all's loop. *)
Turn(t, node, value) ==
    IF t.heap[node].value = value THEN List_remove(t, node) ELSE t

(* The recursion of the loop, from s over the nodes S. *)
TurnLoop(f, s, S, value) ==
    [x \in SUBSET (1 .. Len(S)) |->
        IF x = {} THEN s ELSE Turn(f[x \ {Max(x)}], S[Max(x)], value)]

(* There is a function that satisfies it. *)
LEMMA TurnLoopExists ==
    ASSUME NEW s, NEW S, Len(S) \in Nat, NEW value
    PROVE  \E f : f = TurnLoop(f, s, S, value)
<1> DEFINE n == Len(S)
           D(k) == {x \in SUBSET (1 .. n) : Cardinality(x) <= k}
           Body(f, x) == IF x = {} THEN s ELSE Turn(f[x \ {Max(x)}], S[Max(x)], value)
           Solves(f, k) == DOMAIN f = D(k) /\ \A x \in D(k) : f[x] = Body(f, x)
           Inv == {k \in Nat : \E f : Solves(f, k)}
<1>1. \A x \in SUBSET (1 .. n) : IsFiniteSet(x) /\ Cardinality(x) \in 0 .. n
  <2>1. IsFiniteSet(1 .. n) /\ Cardinality(1 .. n) = n
    BY IndexesOK
  <2> TAKE x \in SUBSET (1 .. n)
  <2>2. IsFiniteSet(x) /\ Cardinality(x) <= Cardinality(1 .. n)
    BY <2>1, FS_Subset
  <2> QED
    BY <2>1, <2>2, FS_CardinalityType
<1>2. \A k \in Nat : \A x \in D(k) : x # {} =>
         x \ {Max(x)} \in D(k) /\ Cardinality(x \ {Max(x)}) <= k - 1
  <2> TAKE k \in Nat
  <2> TAKE x \in D(k)
  <2> HAVE x # {}
  <2>1. Max(x) \in x
    BY MaxOfIndexes
  <2>2. Cardinality(x \ {Max(x)}) = Cardinality(x) - 1
    BY <1>1, <2>1, FS_RemoveElement
  <2>3. Cardinality(x) \in Nat /\ Cardinality(x) <= k
    BY <1>1
  <2>4. x \ {Max(x)} \in SUBSET (1 .. n)
    OBVIOUS
  <2>5. /\ Cardinality(x \ {Max(x)}) <= k
        /\ Cardinality(x \ {Max(x)}) <= k - 1
    BY ONLY <2>2, <2>3, k \in Nat
  <2> QED
    BY ONLY <2>4, <2>5
<1>3. 0 \in Inv
  <2> DEFINE f == [x \in D(0) |-> s]
  <2>1. \A x \in D(0) : x = {}
    BY <1>1, FS_EmptySet
  <2>2. Solves(f, 0)
    BY <2>1
  <2> QED
    BY <2>2
<1>4. ASSUME NEW k \in 0 .. n - 1, k \in Inv PROVE k + 1 \in Inv
  <2>1. PICK g : Solves(g, k)
    BY <1>4
  <2> DEFINE f == [x \in D(k + 1) |-> IF x \in D(k) THEN g[x] ELSE Body(g, x)]
  <2>2. k \in Nat /\ k + 1 \in Nat /\ (k + 1) - 1 = k
    OBVIOUS
  <2>3. \A x \in D(k) : x \in D(k + 1) /\ f[x] = g[x]
    BY <1>1, <2>2
  <2>4. \A x \in D(k + 1) : x # {} => x \ {Max(x)} \in D(k)
    BY <1>2, <2>2
  <2>5. \A x \in D(k + 1) : x # {} => f[x \ {Max(x)}] = g[x \ {Max(x)}]
    BY <2>3, <2>4
  <2>6. \A x \in D(k + 1) : f[x] = Body(g, x)
    BY <2>1
  <2>7. DOMAIN f = D(k + 1)
    OBVIOUS
  <2> HIDE DEF f
  <2>8. \A x \in D(k + 1) : f[x] = Body(f, x)
    BY <2>5, <2>6
  <2>9. Solves(f, k + 1)
    BY <2>7, <2>8
  <2> HIDE DEF Solves
  <2> QED
    BY <2>2, <2>9
<1>5. n \in Inv
  <2> HIDE DEF Inv
  <2>1. n \in Nat
    OBVIOUS
  <2> HIDE DEF n
  <2>2. 0 .. n \subseteq Inv
    BY ONLY <1>3, <1>4, <2>1, BoundedInduction
  <2> QED
    BY ONLY <2>1, <2>2
<1>6. PICK f : Solves(f, n)
  BY <1>5
<1>7. D(n) = SUBSET (1 .. n)
  BY <1>1
<1>8. \E g : g = [x \in SUBSET (1 .. n) |-> Body(g, x)]
  <2> DEFINE g == [x \in D(n) |-> f[x]]
  <2>1. \A x \in D(n) : g[x] = f[x]
    OBVIOUS
  <2>2. \A x \in D(n) : x # {} => x \ {Max(x)} \in D(n)
    BY <1>2
  <2>3. \A x \in D(n) : g[x] = Body(g, x)
    BY <1>6, <2>1, <2>2
  <2>4. g = [x \in D(n) |-> Body(g, x)]
    BY <2>3
  <2> HIDE DEF g
  <2> QED
    BY <1>7, <2>4
<1> QED
  BY <1>8 DEF TurnLoop

(* The loop of List_remove_all, as the sequence of its states. *)
LEMMA RemoveAllTrace ==
    ASSUME NEW s, NEW value, NEW D, NEW S \in Seq(D), S = Forward(s.list, s.heap)
    PROVE  \E g : /\ g[0] = s
                  /\ \A k \in 0 .. Len(S) - 1 : g[k + 1] = Turn(g[k], S[k + 1], value)
                  /\ List_remove_all(s, value) = g[Len(S)]
<1> DEFINE n == Len(S)
           f == CHOOSE f : f = TurnLoop(f, s, S, value)
           g == [k \in 0 .. n |-> f[1 .. k]]
<1>1. n \in Nat /\ DOMAIN S = 1 .. n
  OBVIOUS
<1>2. List_remove_all(s, value) = f[1 .. n]
  BY <1>1 DEF List_remove_all, FoldLeft, MapThenFoldSet, TurnLoop, Turn
<1>3. f = TurnLoop(f, s, S, value)
  BY <1>1, TurnLoopExists
<1> HIDE DEF f
<1>4. \A x \in SUBSET (1 .. n) :
         f[x] = IF x = {} THEN s ELSE Turn(f[x \ {Max(x)}], S[Max(x)], value)
  BY <1>3 DEF TurnLoop
<1> HIDE DEF n
<1>5. f[1 .. 0] = s
  <2>1. 1 .. 0 = {} /\ {} \in SUBSET (1 .. n)
    OBVIOUS
  <2> QED
    BY <1>4, <2>1
<1>6. ASSUME NEW k \in 0 .. n - 1
      PROVE  f[1 .. k + 1] = Turn(f[1 .. k], S[k + 1], value)
  <2>1. /\ 1 .. k + 1 \in SUBSET (1 .. n) /\ 1 .. k + 1 # {}
        /\ Max(1 .. k + 1) = k + 1 /\ (1 .. k + 1) \ {k + 1} = 1 .. k
    BY <1>1, FoldOrder
  <2> QED
    BY <1>4, <2>1
<1>7. /\ g[0] = s /\ g[n] = f[1 .. n]
      /\ \A k \in 0 .. n - 1 : g[k + 1] = Turn(g[k], S[k + 1], value)
  <2>1. 0 \in 0 .. n /\ n \in 0 .. n
    BY <1>1
  <2>2. \A k \in 0 .. n - 1 : k \in 0 .. n /\ k + 1 \in 0 .. n
    BY <1>1
  <2> QED
    BY <1>5, <1>6, <2>1, <2>2
<1> HIDE DEF g
<1> QED
  BY <1>2, <1>7 DEF n

(* The nodes of a list. *)
On(S) == {S[i] : i \in 1 .. Len(S)}

(* Taking an element out takes it from the set. *)
LEMMA OnWithout ==
    ASSUME NEW D, NEW S \in Seq(D), Distinct(S), NEW k \in 1 .. Len(S)
    PROVE  On(Without(S, k)) = On(S) \ {S[k]}
<1> DEFINE n == Len(S)
           R == Without(S, k)
<1>1. /\ n \in Nat /\ k \in 1 .. n /\ Len(R) = n - 1
      /\ \A i \in 1 .. n - 1 : /\ i < k => i \in 1 .. n /\ R[i] = S[i]
                               /\ i >= k => i + 1 \in 1 .. n /\ R[i] = S[i + 1]
  <2>1. /\ Len(Without(S, k)) = Len(S) - 1
        /\ \A i \in 1 .. Len(S) - 1 :
              /\ i < k => i \in 1 .. Len(S) /\ Without(S, k)[i] = S[i]
              /\ i >= k => i + 1 \in 1 .. Len(S) /\ Without(S, k)[i] = S[i + 1]
    BY ONLY S \in Seq(D), Distinct(S), k \in 1 .. Len(S), WithoutOK
  <2> QED
    BY ONLY S \in Seq(D), k \in 1 .. Len(S), <2>1
<1>2. \A i, j \in 1 .. n : S[i] = S[j] => i = j
  BY DEF Distinct
<1> HIDE DEF n, R
<1>3. ASSUME NEW i \in 1 .. n - 1
      PROVE  \E j \in 1 .. n : j # k /\ R[i] = S[j]
  <2>1. CASE i < k
    BY <1>1, <2>1
  <2>2. CASE i >= k
    <3>1. i + 1 \in 1 .. n /\ i + 1 # k /\ R[i] = S[i + 1]
      BY <1>1, <2>2
    <3> QED
      BY <3>1
  <2> QED
    BY <1>1, <2>1, <2>2
<1>4. ASSUME NEW j \in 1 .. n, j # k
      PROVE  \E i \in 1 .. n - 1 : R[i] = S[j]
  <2>1. CASE j < k
    <3>1. j \in 1 .. n - 1
      BY <1>1, <2>1
    <3> QED
      BY <1>1, <2>1, <3>1
  <2>2. CASE j > k
    <3>1. j - 1 \in 1 .. n - 1 /\ j - 1 >= k /\ (j - 1) + 1 = j
      BY <1>1, <2>2
    <3>2. R[j - 1] = S[j]
      BY <1>1, <3>1
    <3> QED
      BY <3>1, <3>2
  <2> QED
    BY <1>1, <1>4, <2>1, <2>2
<1>5. On(R) = {R[i] : i \in 1 .. n - 1} /\ On(S) = {S[i] : i \in 1 .. n}
  BY <1>1 DEF On, n
<1>6. ASSUME NEW p \in On(R) PROVE p \in On(S) \ {S[k]}
  <2>1. PICK i \in 1 .. n - 1 : p = R[i]
    BY <1>5
  <2>2. PICK j \in 1 .. n : j # k /\ p = S[j]
    BY <1>3, <2>1
  <2>3. S[j] # S[k]
    BY <1>1, <1>2, <2>2
  <2> QED
    BY <1>5, <2>2, <2>3
<1>7. \A p \in On(S) \ {S[k]} : p \in On(R)
  BY <1>4, <1>5
<1> QED
  BY <1>6, <1>7 DEF R

(* After k turns on the list s, the nodes S, the state is t and the list R *)
(* is left: the nodes of other values among the first k and all others.    *)
(* When at most one node has been taken out R is known.                    *)
Turned(k, t, R, s, S, value) ==
    /\ IsHeap(t.heap) /\ IsList(t.list, t.heap, R)
    /\ On(R) = {p \in On(S) : \A i \in 1 .. k : S[i] = p => s.heap[p].value # value}
    /\ DOMAIN t.heap = (DOMAIN s.heap \ On(S)) \cup On(R)
    /\ \A p \in DOMAIN t.heap : /\ t.heap[p].value = s.heap[p].value
                                /\ p \notin On(S) => t.heap[p] = s.heap[p]
    /\ (\A i \in 1 .. k : s.heap[S[i]].value # value) => R = S
    /\ \A j \in 1 .. k :
          (\A i \in 1 .. k : s.heap[S[i]].value = value <=> i = j)
          => R = Without(S, j)

(* A turn keeps this. *)
LEMMA TurnOK ==
    ASSUME NEW s, NEW S, NEW value, IsHeap(s.heap), IsList(s.list, s.heap, S),
           NEW k \in 0 .. Len(S) - 1, NEW t, NEW R, Turned(k, t, R, s, S, value),
           NEW u, u = Turn(t, S[k + 1], value)
    PROVE  \E Q : Turned(k + 1, u, Q, s, S, value)
<1> DEFINE h == s.heap
           n == Len(S)
           node == S[k + 1]
<1>1. /\ S \in Seq(DOMAIN h) /\ n \in Nat /\ k \in 0 .. n - 1 /\ k + 1 \in 1 .. n
      /\ \A i, j \in 1 .. n : S[i] = S[j] => i = j
      /\ \A i \in 1 .. k + 1 : i \in 1 .. n /\ (i \in 1 .. k \/ i = k + 1)
      /\ \A i \in 1 .. k : i \in 1 .. k + 1 /\ i # k + 1 /\ i \in 1 .. n
      /\ k + 1 \in 1 .. k + 1
  BY DEF IsList
<1>2. node \in On(R) /\ node \in On(S)
  <2>1. node \in On(S)
    BY <1>1 DEF On
  <2>2. \A i \in 1 .. k : S[i] # node
    BY <1>1
  <2> QED
    BY <2>1, <2>2 DEF Turned
<1>3. node \in DOMAIN t.heap /\ t.heap[node].value = h[node].value
  BY <1>2 DEF Turned
<1>4. CASE h[node].value # value
  <2>1. u = t
    BY <1>3, <1>4 DEF Turn
  <2>2. On(R) = {p \in On(S) : \A i \in 1 .. k + 1 : S[i] = p => h[p].value # value}
    BY <1>1, <1>4 DEF Turned
  <2>3. (\A i \in 1 .. k + 1 : h[S[i]].value # value) => R = S
    BY <1>1 DEF Turned
  <2>4. ASSUME NEW j \in 1 .. k + 1,
               \A i \in 1 .. k + 1 : h[S[i]].value = value <=> i = j
        PROVE  R = Without(S, j)
    <3>1. j \in 1 .. k
      BY <1>1, <1>4, <2>4
    <3>2. \A i \in 1 .. k : h[S[i]].value = value <=> i = j
      BY <1>1, <2>4
    <3> QED
      BY <3>1, <3>2 DEF Turned
  <2>5. Turned(k + 1, u, R, s, S, value)
    BY <2>1, <2>2, <2>3, <2>4 DEF Turned
  <2> QED
    BY <2>5
<1>5. CASE h[node].value = value
  <2>1. u = List_remove(t, node)
    BY <1>3, <1>5 DEF Turn
  <2>2. PICK m \in 1 .. Len(R) : R[m] = node
    BY <1>2 DEF On
  <2> DEFINE Q == Without(R, m)
  <2>3. IsHeap(t.heap) /\ IsList(t.list, t.heap, R)
    BY DEF Turned
  <2>4. /\ IsHeap(u.heap) /\ IsList(u.list, u.heap, Q)
        /\ DOMAIN u.heap = DOMAIN t.heap \ {node}
        /\ \A p \in DOMAIN u.heap :
              /\ u.heap[p].value = t.heap[p].value
              /\ (\A i \in 1 .. Len(R) : R[i] # p) => u.heap[p] = t.heap[p]
    <3>1. u = List_remove(t, R[m])
      BY <2>1, <2>2
    <3> HIDE DEF node, Q
    <3>2. /\ IsHeap(u.heap) /\ IsList(u.list, u.heap, Without(R, m))
          /\ DOMAIN u.heap = DOMAIN t.heap \ {R[m]}
          /\ \A p \in DOMAIN u.heap :
                /\ u.heap[p].value = t.heap[p].value
                /\ (\A i \in 1 .. Len(R) : R[i] # p) => u.heap[p] = t.heap[p]
      BY ONLY <2>3, <3>1, m \in 1 .. Len(R), ListRemoveOK
    <3> QED
      BY ONLY <2>2, <3>2 DEF Q
  <2>5. On(Q) = On(R) \ {node}
    <3>1. R \in Seq(DOMAIN t.heap) /\ Distinct(R)
      BY <2>3 DEF IsList, Distinct
    <3> DEFINE D == DOMAIN t.heap
    <3> HIDE DEF node, D
    <3>2. On(Without(R, m)) = On(R) \ {R[m]}
      BY ONLY <3>1, m \in 1 .. Len(R), OnWithout DEF D
    <3> QED
      BY <2>2, <3>2
  <2>6. On(Q) = {p \in On(S) : \A i \in 1 .. k + 1 : S[i] = p => h[p].value # value}
    <3>1. On(R) = {p \in On(S) : \A i \in 1 .. k : S[i] = p => h[p].value # value}
      BY DEF Turned
    <3> HIDE DEF Q
    <3>2. \A p : p \in On(R) \ {node} <=>
             /\ p \in On(S)
             /\ \A i \in 1 .. k + 1 : S[i] = p => h[p].value # value
      BY <1>1, <1>5, <3>1
    <3> QED
      BY <2>5, <3>2
  <2>7. DOMAIN u.heap = (DOMAIN h \ On(S)) \cup On(Q)
    <3>1. DOMAIN t.heap = (DOMAIN h \ On(S)) \cup On(R)
      BY DEF Turned
    <3> HIDE DEF Q
    <3> QED
      BY <1>2, <2>4, <2>5, <3>1
  <2>8. ASSUME NEW p \in DOMAIN u.heap
        PROVE  /\ u.heap[p].value = h[p].value
               /\ p \notin On(S) => u.heap[p] = h[p]
    <3>1. p \in DOMAIN t.heap /\ u.heap[p].value = t.heap[p].value
      BY <2>4
    <3>2. /\ t.heap[p].value = h[p].value
          /\ p \notin On(S) => t.heap[p] = h[p]
      BY <3>1 DEF Turned
    <3>3. p \notin On(S) => \A i \in 1 .. Len(R) : R[i] # p
      <4>1. On(R) \subseteq On(S) /\ \A i \in 1 .. Len(R) : R[i] \in On(R)
        BY DEF Turned, On
      <4> QED
        BY <4>1
    <3> QED
      BY <2>4, <3>1, <3>2, <3>3
  <2>9. ~(\A i \in 1 .. k + 1 : h[S[i]].value # value)
    BY <1>1, <1>5
  <2>10. ASSUME NEW j \in 1 .. k + 1,
                \A i \in 1 .. k + 1 : h[S[i]].value = value <=> i = j
         PROVE  Q = Without(S, j)
    <3>1. j = k + 1
      BY <1>1, <1>5, <2>10
    <3>2. \A i \in 1 .. k : h[S[i]].value # value
      BY <1>1, <2>10, <3>1
    <3>3. R = S
      BY <3>2 DEF Turned
    <3>4. m = k + 1
      BY <1>1, <2>2, <3>3
    <3> QED
      BY <3>1, <3>3, <3>4
  <2> HIDE DEF Q
  <2>11. Turned(k + 1, u, Q, s, S, value)
    BY <2>4, <2>6, <2>7, <2>8, <2>9, <2>10 DEF Turned
  <2> QED
    BY <2>11
<1> QED
  BY <1>4, <1>5

(* List_remove_all leaves the nodes of other values linked. *)
LEMMA RemoveAllOK ==
    ASSUME NEW s, NEW S, NEW value, IsHeap(s.heap), IsList(s.list, s.heap, S)
    PROVE  \E R : Turned(Len(S), List_remove_all(s, value), R, s, S, value)
<1> DEFINE n == Len(S)
<1>1. n \in Nat /\ S \in Seq(DOMAIN s.heap)
  BY DEF IsList
<1>2. S = Forward(s.list, s.heap)
  BY ForwardIs
<1>3. PICK g : /\ g[0] = s
               /\ \A k \in 0 .. n - 1 : g[k + 1] = Turn(g[k], S[k + 1], value)
               /\ List_remove_all(s, value) = g[n]
  BY <1>1, <1>2, RemoveAllTrace
<1> DEFINE Inv == {k \in 0 .. n : \E R : Turned(k, g[k], R, s, S, value)}
<1>4. 0 \in Inv
  <2>1. 1 .. 0 = {}
    OBVIOUS
  <2>2. On(S) \subseteq DOMAIN s.heap
    BY <1>1 DEF On
  <2>3. /\ On(S) = {p \in On(S) : \A i \in 1 .. 0 : S[i] = p => s.heap[p].value # value}
        /\ DOMAIN s.heap = (DOMAIN s.heap \ On(S)) \cup On(S)
    BY <2>1, <2>2
  <2>4. Turned(0, s, S, s, S, value)
    BY <2>1, <2>3 DEF Turned
  <2> QED
    BY <1>1, <1>3, <2>4
<1>5. ASSUME NEW k \in 0 .. n - 1, k \in Inv PROVE k + 1 \in Inv
  <2>1. PICK R : Turned(k, g[k], R, s, S, value)
    BY <1>5
  <2>2. g[k + 1] = Turn(g[k], S[k + 1], value)
    BY <1>3
  <2>3. \E Q : Turned(k + 1, g[k + 1], Q, s, S, value)
    BY <2>1, <2>2, TurnOK
  <2>4. k + 1 \in 0 .. n
    BY <1>1
  <2> QED
    BY <2>3, <2>4
<1>6. n \in Inv
  <2> HIDE DEF Inv, n
  <2>1. 0 .. n \subseteq Inv
    BY ONLY <1>1, <1>4, <1>5, BoundedInduction
  <2> QED
    BY <1>1, <2>1
<1> QED
  BY <1>3, <1>6

-----------------------------------------------------------------------------
(* The lists are in the slots of their types. *)
LEMMA SlotOK ==
    ASSUME NEW hk, IsArray(hk, ListRecords), hk.end = HookTypeMax,
           NEW type \in HookTypes, NEW l \in ListRecords,
           NEW k, k = DArray_set(hk, type, l)
    PROVE  /\ IsArray(k, ListRecords) /\ k.end = HookTypeMax
           /\ ListAt(k, type) = l
           /\ \A other \in HookTypes \ {type} : ListAt(k, other) = ListAt(hk, other)
<1> DEFINE C == Cells(ListRecords)
           c == [hk.contents EXCEPT ![type] = l]
<1>1. /\ hk \in [contents : [0 .. hk.max - 1 -> C], end : Nat, max : Nat]
      /\ hk.end <= hk.max /\ hk.max \in Nat /\ hk.contents \in [0 .. hk.max - 1 -> C]
  BY DEF IsArray
<1>2. \A t \in HookTypes : t < hk.max /\ t \in 0 .. hk.max - 1
  BY <1>1, HookTypeMaxAssumption DEF HookTypes
<1>3. k = [hk EXCEPT !.contents[type] = l]
  BY <1>2 DEF DArray_set
<1>4. l \in C
  BY DEF Cells
<1> HIDE DEF C
<1>5. c \in [0 .. hk.max - 1 -> C] /\ c[type] = l
      /\ \A i \in 0 .. hk.max - 1 : i # type => c[i] = hk.contents[i]
  BY <1>1, <1>2, <1>4
<1>6. k = [hk EXCEPT !.contents = c]
  BY <1>1, <1>3
<1> HIDE DEF c
<1>7. /\ k \in [contents : [0 .. hk.max - 1 -> C], end : Nat, max : Nat]
      /\ k.contents = c /\ k.end = hk.end /\ k.max = hk.max
  BY ONLY <1>1, <1>5, <1>6
<1>8. IsArray(k, ListRecords)
  BY <1>1, <1>7 DEF IsArray, C
<1> QED
  BY <1>2, <1>5, <1>7, <1>8 DEF ListAt, DArray_get

(* Changing one list, and no node of another, keeps all of them linked. *)
LEMMA ListsChanged ==
    ASSUME NEW hk, NEW h, ListsOK(hk, h), NEW type \in HookTypes,
           NEW l, NEW g, NEW R, IsHeap(g), IsList(l, g, R),
           \A p \in DOMAIN h : p \notin On(NodesOf(hk, h, type))
                               => p \in DOMAIN g /\ g[p] = h[p],
           \A p \in DOMAIN g : \/ p \in On(R)
                               \/ p \in DOMAIN h /\ p \notin On(NodesOf(hk, h, type)),
           \A p \in On(R) : TypeOf(g[p].value) = type,
           NEW k, k = DArray_set(hk, type, l)
    PROVE  /\ ListsOK(k, g) /\ NodesOf(k, g, type) = R
           /\ \A other \in HookTypes \ {type} :
                 NodesOf(k, g, other) = NodesOf(hk, h, other)
<1>1. /\ IsArray(k, ListRecords) /\ k.end = HookTypeMax /\ ListAt(k, type) = l
      /\ \A other \in HookTypes \ {type} : ListAt(k, other) = ListAt(hk, other)
  <2>1. l \in ListRecords /\ IsArray(hk, ListRecords) /\ hk.end = HookTypeMax
    BY DEF IsList, ListsOK
  <2> QED
    BY <2>1, SlotOK
<1>2. NodesOf(k, g, type) = R
  BY <1>1, ForwardIs DEF NodesOf
<1>3. ASSUME NEW other \in HookTypes \ {type}
      PROVE  /\ IsList(ListAt(k, other), g, NodesOf(hk, h, other))
             /\ NodesOf(k, g, other) = NodesOf(hk, h, other)
             /\ \A i \in 1 .. Len(NodesOf(hk, h, other)) :
                   TypeOf(g[NodesOf(hk, h, other)[i]].value) = other
  <2> DEFINE Q == NodesOf(hk, h, other)
  <2>1. /\ IsList(ListAt(hk, other), h, Q) /\ Q \in Seq(DOMAIN h)
        /\ \A i \in 1 .. Len(Q) : TypeOf(h[Q[i]].value) = other
    BY DEF ListsOK, IsList
  <2>2. \A p \in On(NodesOf(hk, h, type)) : TypeOf(h[p].value) = type
    BY DEF ListsOK, On
  <2> HIDE DEF Q
  <2>3. \A i \in 1 .. Len(Q) : Q[i] \in DOMAIN h /\ Q[i] \in DOMAIN g
                               /\ g[Q[i]] = h[Q[i]]
    BY <2>1, <2>2
  <2>4. IsList(ListAt(k, other), g, Q)
    BY <1>1, <2>1, <2>3, ListFrame
  <2>5. NodesOf(k, g, other) = Q
    BY <2>4, ForwardIs DEF NodesOf
  <2> QED
    BY <2>1, <2>3, <2>4, <2>5 DEF Q
<1>4. ASSUME NEW p \in DOMAIN g
      PROVE  \E i \in 1 .. Len(NodesOf(k, g, TypeOf(g[p].value))) :
                NodesOf(k, g, TypeOf(g[p].value))[i] = p
  <2>1. CASE p \in On(R)
    <3>1. TypeOf(g[p].value) = type
      BY <2>1
    <3> QED
      BY <1>2, <2>1, <3>1 DEF On
  <2>2. CASE p \notin On(R)
    <3>1. p \in DOMAIN h /\ p \notin On(NodesOf(hk, h, type)) /\ g[p] = h[p]
      BY <2>2
    <3> DEFINE other == TypeOf(h[p].value)
    <3>2. \E i \in 1 .. Len(NodesOf(hk, h, other)) : NodesOf(hk, h, other)[i] = p
      BY <3>1 DEF ListsOK
    <3>3. other # type
      BY <3>1, <3>2 DEF On
    <3>4. other \in HookTypes
      <4>1. h[p].value \in HookSet
        BY <3>1 DEF ListsOK, IsHeap, HeapNodes
      <4> QED
        BY <4>1, HooksAssumption DEF HookTypes
    <3>5. NodesOf(k, g, other) = NodesOf(hk, h, other) /\ TypeOf(g[p].value) = other
      BY <1>3, <3>1, <3>3, <3>4
    <3> HIDE DEF other
    <3> QED
      BY <3>2, <3>5
  <2> QED
    BY <2>1, <2>2
<1>5. \A t \in HookTypes :
         /\ IsList(ListAt(k, t), g, NodesOf(k, g, t))
         /\ \A i \in 1 .. Len(NodesOf(k, g, t)) :
               TypeOf(g[NodesOf(k, g, t)[i]].value) = t
  <2> TAKE t \in HookTypes
  <2>1. CASE t = type
    BY <1>1, <1>2, <2>1 DEF On
  <2>2. CASE t # type
    BY <1>3, <2>2
  <2> QED
    BY <2>1, <2>2
<1> QED
  BY <1>1, <1>2, <1>3, <1>4, <1>5 DEF ListsOK

(* Hooks_Create makes an array of empty lists. *)
LEMMA CreateTrace ==
    \E g \in [0 .. HookTypeMax -> Arrays(ListRecords)] :
       /\ g[0] = DArray_create(HookTypeMax)
       /\ \A k \in 0 .. HookTypeMax - 1 : g[k + 1] = DArray_push(g[k], EmptyList)
       /\ Hooks_Create = g[HookTypeMax]
<1> DEFINE n == HookTypeMax
           base == DArray_create(n)
           Acc == Arrays(ListRecords)
           Step == [kc \in (1 .. n) \X Acc |-> DArray_push(kc[2], EmptyList)]
           Loop(f) == [x \in SUBSET (1 .. n) |->
                          IF x = {} THEN base ELSE DArray_push(f[x \ {Max(x)}], EmptyList)]
           f == CHOOSE f : f = Loop(f)
           e == [i \in 1 .. n |-> EmptyList]
<1>1. n \in Nat /\ base \in Acc
  BY HookTypeMaxAssumption, CreateOK, ArraysOK
<1>2. \A a \in Acc : DArray_push(a, EmptyList) \in Acc
  <2>1. EmptyList \in ListRecords
    BY DEF EmptyList, ListRecords, Addresses
  <2> QED
    BY <2>1, PushOK, ArraysOK
<1>3. Step \in [(1 .. n) \X Acc -> Acc]
  <2> HIDE DEF Acc, n
  <2> QED
    BY <1>2
<1>4. Hooks_Create = f[1 .. n]
  <2>1. DOMAIN e = 1 .. n
    OBVIOUS
  <2>2. Hooks_Create = (CHOOSE f2 : f2 = [x \in SUBSET (1 .. n) |->
                           IF x = {} THEN base
                           ELSE DArray_push(f2[x \ {Max(x)}], e[Max(x)])])[1 .. n]
    BY DEF Hooks_Create, FoldLeft, MapThenFoldSet
  <2>3. \A x \in SUBSET (1 .. n) : x # {} => e[Max(x)] = EmptyList
    BY <1>1, MaxOfIndexes
  <2> HIDE DEF e, base, n
  <2>4. \A f2 : [x \in SUBSET (1 .. n) |->
                   IF x = {} THEN base
                   ELSE DArray_push(f2[x \ {Max(x)}], e[Max(x)])] = Loop(f2)
    BY <2>3
  <2> QED
    BY <2>2, <2>4
<1>5. f = Loop(f)
  <2>1. PICK f2 \in [SUBSET (1 .. n) -> Acc] : IsFold(f2, n, base, Step)
    <3> HIDE DEF n, base, Acc, Step
    <3> QED
      BY <1>1, <1>3, FoldExists
  <2>2. ASSUME NEW x \in SUBSET (1 .. n), x # {}
        PROVE  Step[<<Max(x), f2[x \ {Max(x)}]>>]
                 = DArray_push(f2[x \ {Max(x)}], EmptyList)
    <3> HIDE DEF n, Acc
    <3>1. Max(x) \in 1 .. n
      BY <1>1, <2>2, MaxOfIndexes
    <3>2. x \ {Max(x)} \in SUBSET (1 .. n)
      OBVIOUS
    <3> QED
      BY <2>1, <3>1, <3>2
  <2>3. f2 = Loop(f2)
    <3> HIDE DEF n, base, Acc, Step
    <3> QED
      BY <2>1, <2>2 DEF IsFold
  <2> HIDE DEF Loop
  <2> QED
    BY <2>3
<1> HIDE DEF f, e
<1>6. \A x \in SUBSET (1 .. n) :
         f[x] = IF x = {} THEN base ELSE DArray_push(f[x \ {Max(x)}], EmptyList)
  <2> HIDE DEF n, base
  <2> QED
    BY <1>5
<1> HIDE DEF base, Acc, Loop, Step, n
<1>7. f[1 .. 0] = base /\ \A k \in 0 .. n - 1 :
         f[1 .. k + 1] = DArray_push(f[1 .. k], EmptyList)
  <2>1. f[1 .. 0] = base
    BY <1>6
  <2>2. ASSUME NEW k \in 0 .. n - 1
        PROVE  f[1 .. k + 1] = DArray_push(f[1 .. k], EmptyList)
    <3>1. /\ 1 .. k + 1 \in SUBSET (1 .. n) /\ 1 .. k + 1 # {}
          /\ Max(1 .. k + 1) = k + 1 /\ (1 .. k + 1) \ {k + 1} = 1 .. k
      BY <1>1, FoldOrder
    <3> QED
      BY <1>6, <3>1
  <2> QED
    BY <2>1, <2>2
<1> DEFINE Inv == {k \in 0 .. n : f[1 .. k] \in Acc}
<1>8. 0 .. n \subseteq Inv
  <2>1. 0 \in Inv
    BY <1>1, <1>7
  <2>2. \A k \in 0 .. n - 1 : k \in Inv => k + 1 \in Inv
    BY <1>1, <1>2, <1>7
  <2> HIDE DEF Inv
  <2> QED
    BY ONLY <1>1, <2>1, <2>2, BoundedInduction
<1> DEFINE g == [k \in 0 .. n |-> f[1 .. k]]
<1>9. g \in [0 .. n -> Acc]
  BY <1>8
<1>10. g[0] = base /\ g[n] = f[1 .. n]
  BY <1>1, <1>7
<1>11. \A k \in 0 .. n - 1 : g[k + 1] = DArray_push(g[k], EmptyList)
  BY <1>1, <1>7
<1> HIDE DEF g
<1> QED
  BY <1>4, <1>9, <1>10, <1>11 DEF base, Acc, n

(* No list has a node then. *)
LEMMA CreateListsOK ==
    ASSUME NEW h, h = <<>>
    PROVE  ListsOK(Hooks_Create, h)
<1> DEFINE n == HookTypeMax
           hk == Hooks_Create
<1>1. n \in Nat \ {0}
  BY HookTypeMaxAssumption
<1>2. PICK g \in [0 .. n -> Arrays(ListRecords)] :
         /\ g[0] = DArray_create(n)
         /\ \A k \in 0 .. n - 1 : g[k + 1] = DArray_push(g[k], EmptyList)
         /\ hk = g[n]
  BY CreateTrace
<1>3. EmptyList \in ListRecords /\ EmptyList.first = NULL
      /\ EmptyList.last = NULL /\ EmptyList.count = 0
  BY DEF EmptyList, ListRecords, Addresses
<1> HIDE DEF hk, n
<1>4. \A k \in 0 .. n : IsRoomy(g[k], ListRecords)
  BY <1>2, ArraysOK
<1> DEFINE Filled(a, k) ==
              a.end = k /\ \A i \in 1 .. k : Elements(a)[i] = EmptyList
           Inv == {k \in 0 .. n : Filled(g[k], k)}
<1>5. 0 \in Inv
  <2>1. DArray_create(n).end = 0
    BY DEF DArray_create
  <2> QED
    BY <1>1, <1>2, <2>1
<1>6. ASSUME NEW k \in 0 .. n - 1, k \in Inv PROVE k + 1 \in Inv
  <2>1. k \in 0 .. n /\ k + 1 \in 0 .. n /\ k \in Nat
        /\ \A i \in 1 .. k + 1 : i \in 1 .. k \/ i = k + 1
    BY <1>1
  <2>2. /\ g[k + 1].end = k + 1
        /\ Elements(g[k + 1]) = Append(Elements(g[k]), EmptyList)
    BY <1>2, <1>3, <1>4, <1>6, <2>1, PushOK
  <2>3. Elements(g[k]) \in Seq(Cells(ListRecords)) /\ Len(Elements(g[k])) = k
    <3>1. IsArray(g[k], ListRecords) /\ g[k].end = k
      BY <1>4, <1>6, <2>1 DEF IsRoomy
    <3> QED
      BY ONLY <3>1, ElementsOK
  <2>4. \A i \in 1 .. k + 1 : Elements(g[k + 1])[i] = EmptyList
    <3>1. \A i \in 1 .. k : Elements(g[k])[i] = EmptyList
      BY <1>6
    <3>2. EmptyList \in Cells(ListRecords)
      BY <1>3 DEF Cells
    <3> QED
      BY <2>1, <2>2, <2>3, <3>1, <3>2
  <2> QED
    BY <2>1, <2>2, <2>4
<1>7. Filled(g[n], n)
  <2>1. 0 .. n \subseteq Inv
    <3> HIDE DEF Inv
    <3>1. n \in Nat
      BY <1>1
    <3> QED
      BY ONLY <1>5, <1>6, <3>1, BoundedInduction
  <2> QED
    BY <1>1, <2>1
<1>8. IsArray(hk, ListRecords) /\ hk.end = n /\ n < hk.max /\ hk.max \in Nat
  BY <1>1, <1>2, <1>4, <1>7 DEF IsRoomy, IsArray
<1>9. ASSUME NEW type \in HookTypes PROVE ListAt(hk, type) = EmptyList
  <2>1. /\ type \in 0 .. n - 1 /\ type + 1 \in 1 .. n /\ type < hk.max
    BY <1>1, <1>8 DEF HookTypes, n
  <2>2. Elements(hk)[type + 1] = hk.contents[type]
    BY <1>8, <2>1, ElementsOK
  <2>3. Elements(hk)[type + 1] = EmptyList
    BY <1>2, <1>7, <2>1
  <2> QED
    BY <2>1, <2>2, <2>3 DEF ListAt, DArray_get
<1>10. DOMAIN h = {} /\ IsHeap(h)
  <2>1. DOMAIN h = {}
    OBVIOUS
  <2> QED
    BY <2>1, FS_EmptySet DEF IsHeap
<1>11. IsList(EmptyList, h, <<>>)
  <2>1. <<>> \in Seq(DOMAIN h) /\ Len(<<>>) = 0 /\ At(<<>>, 0) = NULL /\ At(<<>>, 1) = NULL
    BY DEF At
  <2> QED
    BY <1>3, <2>1 DEF IsList
<1>12. \A type \in HookTypes : /\ IsList(ListAt(hk, type), h, NodesOf(hk, h, type))
                               /\ NodesOf(hk, h, type) = <<>>
  BY <1>9, <1>10, <1>11, ForwardIs DEF NodesOf
<1> QED
  BY <1>8, <1>10, <1>12 DEF ListsOK, hk, n

-----------------------------------------------------------------------------
(* A node is added at the end of the list of its type. *)
LEMMA AddHookOK ==
    ASSUME NEW hk, NEW h, ListsOK(hk, h), NEW hook \in HookSet,
           NEW node \in ListNodes \ DOMAIN h, NEW s, NEW t, NEW k,
           s.list = ListAt(hk, TypeOf(hook)), s.heap = h,
           t = List_push(s, node, hook), k = DArray_set(hk, TypeOf(hook), t.list)
    PROVE  /\ ListsOK(k, t.heap) /\ DOMAIN h \subseteq DOMAIN t.heap
           /\ \A p \in DOMAIN h : t.heap[p].value = h[p].value
           /\ \A type \in HookTypes :
                 \/ NodesOf(k, t.heap, type) = NodesOf(hk, h, type)
                 \/ NodesOf(k, t.heap, type) = Append(NodesOf(hk, h, type), node)
<1> DEFINE type == TypeOf(hook)
           S == NodesOf(hk, h, type)
           R == Append(S, node)
<1>1. type \in HookTypes
  BY HooksAssumption DEF HookTypes
<1>2. /\ IsHeap(h) /\ IsList(s.list, h, S) /\ S \in Seq(DOMAIN h)
      /\ \A i \in 1 .. Len(S) : TypeOf(h[S[i]].value) = type
  BY <1>1 DEF ListsOK, IsList
<1> HIDE DEF S
<1>3. /\ IsHeap(t.heap) /\ IsList(t.list, t.heap, R)
      /\ DOMAIN t.heap = DOMAIN h \cup {node}
      /\ t.heap[node].value = hook
      /\ \A p \in DOMAIN h :
            /\ t.heap[p].value = h[p].value
            /\ (\A i \in 1 .. Len(S) : S[i] # p) => t.heap[p] = h[p]
  BY <1>2, ListPushOK
<1>4. On(R) = On(S) \cup {node} /\ On(S) \subseteq DOMAIN h
  <2>1. /\ Len(S) \in Nat /\ Len(R) = Len(S) + 1 /\ R[Len(S) + 1] = node
        /\ \A i \in 1 .. Len(S) : R[i] = S[i] /\ S[i] \in DOMAIN h
    BY <1>2
  <2>2. 1 .. Len(S) + 1 = (1 .. Len(S)) \cup {Len(S) + 1}
    BY <2>1
  <2> HIDE DEF R
  <2> QED
    BY <2>1, <2>2 DEF On
<1> HIDE DEF R
<1>5. \A p \in DOMAIN h : p \notin On(S) => p \in DOMAIN t.heap /\ t.heap[p] = h[p]
  BY <1>3 DEF On
<1>6. \A p \in DOMAIN t.heap : p \in On(R) \/ (p \in DOMAIN h /\ p \notin On(S))
  BY <1>3, <1>4
<1>7. \A p \in On(R) : TypeOf(t.heap[p].value) = type
  <2>1. \A p \in On(S) : TypeOf(h[p].value) = type
    BY <1>2 DEF On
  <2> QED
    BY <1>3, <1>4, <2>1
<1>8. /\ ListsOK(k, t.heap) /\ NodesOf(k, t.heap, type) = R
      /\ \A other \in HookTypes \ {type} :
            NodesOf(k, t.heap, other) = NodesOf(hk, h, other)
  <2> HIDE DEF type
  <2> QED
    BY <1>1, <1>3, <1>5, <1>6, <1>7, ListsChanged DEF S, type
<1> QED
  BY <1>3, <1>8 DEF S, R

(* All nodes of a hook are taken out of its list.  When there was one, the *)
(* others keep their order.                                                *)
LEMMA RemoveHookOK ==
    ASSUME NEW hk, NEW h, ListsOK(hk, h), NEW hook \in HookSet, NEW s, NEW t, NEW k,
           s.list = ListAt(hk, TypeOf(hook)), s.heap = h,
           t = List_remove_all(s, hook), k = DArray_set(hk, TypeOf(hook), t.list)
    PROVE  /\ ListsOK(k, t.heap)
           /\ DOMAIN t.heap = {p \in DOMAIN h : h[p].value # hook}
           /\ \A p \in DOMAIN t.heap : t.heap[p].value = h[p].value
           /\ \A type \in HookTypes \ {TypeOf(hook)} :
                 NodesOf(k, t.heap, type) = NodesOf(hk, h, type)
           /\ (\A p, q \in DOMAIN h : h[p].value = hook /\ h[q].value = hook => p = q)
              => \/ NodesOf(k, t.heap, TypeOf(hook)) = NodesOf(hk, h, TypeOf(hook))
                 \/ \E j \in 1 .. Len(NodesOf(hk, h, TypeOf(hook))) :
                       /\ h[NodesOf(hk, h, TypeOf(hook))[j]].value = hook
                       /\ NodesOf(k, t.heap, TypeOf(hook)) =
                             Without(NodesOf(hk, h, TypeOf(hook)), j)
<1> DEFINE type == TypeOf(hook)
           S == NodesOf(hk, h, type)
<1>1. type \in HookTypes
  BY HooksAssumption DEF HookTypes
<1>2. /\ IsHeap(h) /\ IsList(s.list, h, S) /\ S \in Seq(DOMAIN h)
      /\ \A i, j \in 1 .. Len(S) : S[i] = S[j] => i = j
      /\ \A i \in 1 .. Len(S) : TypeOf(h[S[i]].value) = type
  BY <1>1 DEF ListsOK, IsList
<1>3. \A p \in DOMAIN h : h[p].value = hook => p \in On(S)
  BY DEF ListsOK, On
<1> HIDE DEF S
<1>4. PICK R : Turned(Len(S), t, R, s, S, hook)
  BY <1>2, RemoveAllOK
<1>5. /\ IsHeap(t.heap) /\ IsList(t.list, t.heap, R)
      /\ On(R) = {p \in On(S) : \A i \in 1 .. Len(S) : S[i] = p => h[p].value # hook}
      /\ DOMAIN t.heap = (DOMAIN h \ On(S)) \cup On(R)
      /\ \A p \in DOMAIN t.heap : /\ t.heap[p].value = h[p].value
                                  /\ p \notin On(S) => t.heap[p] = h[p]
  BY <1>4 DEF Turned
<1>6. On(R) = {p \in On(S) : h[p].value # hook} /\ On(S) \subseteq DOMAIN h
  <2>1. \A p \in On(S) : \E i \in 1 .. Len(S) : S[i] = p
    BY DEF On
  <2>2. On(S) \subseteq DOMAIN h
    BY <1>2 DEF On
  <2> QED
    BY <1>5, <2>1, <2>2
<1>7. DOMAIN t.heap = {p \in DOMAIN h : h[p].value # hook}
  BY <1>3, <1>5, <1>6
<1>8. /\ ListsOK(k, t.heap) /\ NodesOf(k, t.heap, type) = R
      /\ \A other \in HookTypes \ {type} :
            NodesOf(k, t.heap, other) = NodesOf(hk, h, other)
  <2>1. \A p \in DOMAIN h : p \notin On(S) => p \in DOMAIN t.heap /\ t.heap[p] = h[p]
    BY <1>5
  <2>2. \A p \in DOMAIN t.heap : p \in On(R) \/ (p \in DOMAIN h /\ p \notin On(S))
    BY <1>5
  <2>3. \A p \in On(R) : TypeOf(t.heap[p].value) = type
    <3>1. \A p \in On(S) : TypeOf(h[p].value) = type
      BY <1>2 DEF On
    <3> QED
      BY <1>5, <1>6, <3>1
  <2> HIDE DEF type
  <2> QED
    BY <1>1, <1>5, <2>1, <2>2, <2>3, ListsChanged DEF S, type
<1>9. ASSUME \A p, q \in DOMAIN h : h[p].value = hook /\ h[q].value = hook => p = q
      PROVE  \/ R = S
             \/ \E j \in 1 .. Len(S) : h[S[j]].value = hook /\ R = Without(S, j)
  <2>1. CASE \A i \in 1 .. Len(S) : h[S[i]].value # hook
    BY <1>4, <2>1 DEF Turned
  <2>2. CASE ~\A i \in 1 .. Len(S) : h[S[i]].value # hook
    <3>1. PICK j \in 1 .. Len(S) : h[S[j]].value = hook
      BY <2>2
    <3>2. \A i \in 1 .. Len(S) : h[S[i]].value = hook <=> i = j
      BY <1>2, <1>9, <3>1
    <3>3. R = Without(S, j)
      BY <1>4, <3>2 DEF Turned
    <3> QED
      BY <3>1, <3>3
  <2> QED
    BY <2>1, <2>2
<1> QED
  BY <1>5, <1>7, <1>8, <1>9 DEF S

(* Two different members make a set larger than one. *)
LEMMA TwoMembers ==
    ASSUME NEW T, IsFiniteSet(T), Cardinality(T) <= 1, NEW a \in T, NEW b \in T
    PROVE  a = b
<1> SUFFICES ASSUME a # b PROVE FALSE
  OBVIOUS
<1>1. /\ Cardinality(T) \in Nat /\ IsFiniteSet(T \ {a})
      /\ Cardinality(T \ {a}) = Cardinality(T) - 1
  BY FS_RemoveElement, FS_CardinalityType
<1>2. Cardinality(T \ {a}) \in Nat /\ T \ {a} # {}
  BY <1>1, FS_CardinalityType
<1>3. Cardinality(T \ {a}) # 0
  BY <1>1, <1>2, FS_EmptySet
<1> QED
  BY <1>1, <1>2, <1>3

(* A part of a list stays one when a node is added at its end. *)
LEMMA SegmentAppend ==
    ASSUME NEW D, NEW S \in Seq(D), NEW x, NEW A, Len(A) \in Nat, Segment(A, S)
    PROVE  Segment(A, Append(S, x))
<1>1. PICK m \in 1 .. Len(S) : /\ m + Len(A) - 1 <= Len(S)
                               /\ \A i \in 1 .. Len(A) : A[i] = S[m + i - 1]
  BY DEF Segment
<1> DEFINE T == Append(S, x)
<1>2. /\ Len(S) \in Nat /\ Len(T) = Len(S) + 1
      /\ \A i \in 1 .. Len(S) : T[i] = S[i]
  OBVIOUS
<1> HIDE DEF T
<1>3. \A i \in 1 .. Len(A) : m + i - 1 \in 1 .. Len(S)
  BY <1>1, <1>2
<1>4. m \in 1 .. Len(T) /\ m + Len(A) - 1 <= Len(T)
  BY ONLY <1>1, <1>2, Len(A) \in Nat
<1>5. ASSUME NEW i \in 1 .. Len(A) PROVE A[i] = T[m + i - 1]
  BY <1>1, <1>2, <1>3
<1> QED
  BY <1>4, <1>5 DEF Segment, T

(* It also stays one when a node outside of it is taken out. *)
LEMMA SegmentWithout ==
    ASSUME NEW D, NEW S \in Seq(D), Distinct(S), NEW j \in 1 .. Len(S),
           NEW A, Len(A) \in Nat \ {0}, Segment(A, S),
           \A i \in 1 .. Len(A) : A[i] # S[j]
    PROVE  Segment(A, Without(S, j))
<1> DEFINE n == Len(S)
           a == Len(A)
           T == Without(S, j)
<1>1. PICK m \in 1 .. n : /\ m + a - 1 <= n
                          /\ \A i \in 1 .. a : A[i] = S[m + i - 1]
  BY DEF Segment
<1>2. /\ n \in Nat /\ Len(T) = n - 1 /\ a \in Nat \ {0} /\ j \in 1 .. n
      /\ \A i \in 1 .. n - 1 : /\ i < j => T[i] = S[i]
                               /\ i >= j => T[i] = S[i + 1]
  <2>1. /\ Len(Without(S, j)) = Len(S) - 1
        /\ \A i \in 1 .. Len(S) - 1 :
              /\ i < j => i \in 1 .. Len(S) /\ Without(S, j)[i] = S[i]
              /\ i >= j => i + 1 \in 1 .. Len(S) /\ Without(S, j)[i] = S[i + 1]
    BY ONLY S \in Seq(D), Distinct(S), j \in 1 .. Len(S), WithoutOK
  <2>2. n \in Nat /\ Len(T) = n - 1 /\ a \in Nat \ {0} /\ j \in 1 .. n
    BY <2>1
  <2>3. \A i \in 1 .. n - 1 : (i < j => T[i] = S[i]) /\ (i >= j => T[i] = S[i + 1])
    BY <2>1
  <2> HIDE DEF n, a, T
  <2> QED
    BY <2>2, <2>3
<1>3. \A i \in 1 .. a : A[i] # S[j]
  OBVIOUS
<1> HIDE DEF n, a, T
<1>4. j < m \/ j > m + a - 1
  <2> SUFFICES ASSUME j >= m, j <= m + a - 1 PROVE FALSE
    BY <1>1, <1>2
  <2>1. (j - m) + 1 \in 1 .. a /\ m + ((j - m) + 1) - 1 = j
    BY <1>1, <1>2
  <2>2. A[(j - m) + 1] = S[j]
    BY <1>1, <2>1
  <2> QED
    BY <1>3, <2>1, <2>2
<1>5. CASE j < m
  <2>1. m - 1 \in 1 .. n - 1 /\ (m - 1) + a - 1 <= n - 1
    BY <1>1, <1>2, <1>5
  <2>2. ASSUME NEW i \in 1 .. a PROVE A[i] = T[(m - 1) + i - 1]
    <3>1. /\ (m - 1) + i - 1 \in 1 .. n - 1 /\ (m - 1) + i - 1 >= j
          /\ ((m - 1) + i - 1) + 1 = m + i - 1
      BY <1>1, <1>2, <1>5
    <3>2. T[(m - 1) + i - 1] = S[((m - 1) + i - 1) + 1]
      BY <1>2, <3>1
    <3> QED
      BY <1>1, <3>1, <3>2
  <2> QED
    BY <1>2, <2>1, <2>2 DEF Segment, T, a
<1>6. CASE j > m + a - 1
  <2>1. m \in 1 .. n - 1 /\ m + a - 1 <= n - 1
    BY <1>1, <1>2, <1>6
  <2>2. ASSUME NEW i \in 1 .. a PROVE A[i] = T[m + i - 1]
    <3>1. m + i - 1 \in 1 .. n - 1 /\ m + i - 1 < j
      BY <1>1, <1>2, <1>6
    <3> QED
      BY <1>1, <1>2, <3>1
  <2> QED
    BY <1>2, <2>1, <2>2 DEF Segment, T, a
<1> QED
  BY <1>4, <1>5, <1>6

-----------------------------------------------------------------------------
(* What is ahead of a run stays so when its nodes keep their values and,   *)
(* where it matters, the node whose hook is being called does.             *)
LEMMA AheadFrame ==
    ASSUME NEW run, NEW h, NEW g, NEW A, Ahead(run, h, A),
           \A i \in 1 .. Len(A) : A[i] \in DOMAIN g /\ g[A[i]].value = h[A[i]].value,
           \A i \in 1 .. Len(A) : h[A[i]].value = run.called /\ run.cur \in DOMAIN h
              => run.cur \in DOMAIN g /\ g[run.cur].value = h[run.cur].value
    PROVE  Ahead(run, g, A) /\ A \in Seq(DOMAIN g)
<1>1. A \in Seq(DOMAIN h)
  BY DEF Ahead
<1>2. Len(A) \in Nat /\ A \in [1 .. Len(A) -> DOMAIN g]
  BY <1>1
<1>3. A \in Seq(DOMAIN g)
  BY ONLY <1>2, FunctionIsSeq
<1>4. Len(A) >= 1 /\ Len(run.due) <= Len(A) /\ run.next = A[1]
  BY DEF Ahead
<1>5. \A i \in 1 .. Len(run.due) : run.due[i] = g[A[i]].value
  <2> TAKE i \in 1 .. Len(run.due)
  <2>1. i \in 1 .. Len(A) \/ Len(run.due) \notin Nat
    BY <1>2, <1>4
  <2> QED
    BY <1>2, <1>4, <2>1 DEF Ahead
<1>6. \A i \in 1 .. Len(A) : g[A[i]].value = run.called
                             => /\ run.cur \in DOMAIN g /\ run.cur # A[i]
                                /\ g[run.cur].value = run.called
  BY DEF Ahead
<1> QED
  BY <1>3, <1>4, <1>5, <1>6 DEF Ahead

(* A run that calls the hook of the m-th node of a list is ready to call   *)
(* those of the nodes after it.                                            *)
LEMMA CallOK ==
    ASSUME NEW hk, NEW h, ListsOK(hk, h), NEW type \in HookTypes,
           NEW S, S = NodesOf(hk, h, type), NEW m \in 1 .. Len(S),
           NEW run \in Runs, run.cur = S[m], run.next = h[S[m]].next,
           run.called = h[S[m]].value, Len(run.due) <= Len(S) - m,
           \A i \in 1 .. Len(run.due) : run.due[i] = h[S[m + i]].value
    PROVE  RunOK(run, hk, h)
<1>1. /\ S \in Seq(DOMAIN h) /\ Len(S) \in Nat
      /\ \A i, j \in 1 .. Len(S) : S[i] = S[j] => i = j
      /\ run.next = At(S, m + 1)
      /\ \A i \in 1 .. Len(S) : S[i] \in DOMAIN h
  <2>1. IsList(ListAt(hk, type), h, S)
    BY DEF ListsOK
  <2> QED
    BY <2>1 DEF IsList
<1>2. run.due \in Seq(HookSet) /\ Len(run.due) \in Nat
  BY DEF Runs
<1>3. CASE m = Len(S)
  <2>1. run.next = NULL
    BY <1>1, <1>3 DEF At
  <2>2. Len(run.due) = 0
    BY <1>1, <1>2, <1>3
  <2> QED
    BY <1>2, <2>1, <2>2 DEF RunOK
<1>4. CASE m # Len(S)
  <2> DEFINE a == Len(S) - m
             A == [i \in 1 .. a |-> S[m + i]]
  <2>1. /\ a \in Nat /\ a >= 1 /\ m + 1 \in 1 .. Len(S)
        /\ \A i \in 1 .. a : m + i \in 1 .. Len(S) /\ m + i # m
    BY <1>1, <1>4
  <2>2. A \in [1 .. a -> DOMAIN h] /\ \A i \in 1 .. a : A[i] = S[m + i]
    BY <1>1, <2>1
  <2>3. Len(run.due) <= a
    OBVIOUS
  <2> HIDE DEF a, A
  <2>4. A \in Seq(DOMAIN h) /\ Len(A) = a
    BY ONLY <2>1, <2>2, FunctionIsSeq
  <2>5. Segment(A, S)
    <3>1. (m + 1) + a - 1 <= Len(S)
      BY <1>1 DEF a
    <3>2. \A i \in 1 .. a : (m + 1) + i - 1 = m + i
      BY <2>1
    <3>3. \A i \in 1 .. a : A[i] = S[(m + 1) + i - 1]
      BY <2>2, <3>2
    <3> QED
      BY <2>1, <2>4, <3>1, <3>3 DEF Segment
  <2>6. run.next = A[1]
    BY <1>1, <2>1, <2>2 DEF At
  <2>7. ASSUME NEW i \in 1 .. Len(run.due) PROVE run.due[i] = h[A[i]].value
    <3>1. i \in 1 .. a
      BY <1>2, <2>1, <2>3
    <3> QED
      BY <2>2, <3>1
  <2>8. ASSUME NEW i \in 1 .. a
        PROVE  /\ run.cur \in DOMAIN h /\ run.cur # A[i]
               /\ h[run.cur].value = run.called
    <3>1. m + i \in 1 .. Len(S) /\ m + i # m /\ A[i] = S[m + i]
      BY <2>1, <2>2
    <3>2. S[m + i] # S[m]
      BY <1>1, <3>1
    <3> QED
      BY <1>1, <3>1, <3>2
  <2>9. Ahead(run, h, A)
    BY <2>1, <2>3, <2>4, <2>6, <2>7, <2>8 DEF Ahead
  <2> QED
    BY <2>4, <2>5, <2>9 DEF RunOK
<1> QED
  BY <1>3, <1>4

(* An element put before a sequence. *)
LEMMA ConsOK ==
    ASSUME NEW T, NEW x \in T, NEW s \in Seq(T), NEW r, r = <<x>> \o s
    PROVE  /\ r \in Seq(T) /\ Len(r) = Len(s) + 1 /\ r[1] = x /\ Head(r) = x
           /\ \A i \in 2 .. Len(r) : i - 1 \in 1 .. Len(s) /\ r[i] = s[i - 1]
<1>1. /\ <<x>> \in Seq(T) /\ Len(<<x>>) = 1 /\ <<x>>[1] = x
      /\ Len(s) \in Nat
  OBVIOUS
<1>2. /\ <<x>> \o s \in Seq(T)
      /\ Len(<<x>> \o s) = Len(<<x>>) + Len(s)
      /\ \A i \in 1 .. Len(<<x>>) + Len(s) :
            (<<x>> \o s)[i] = IF i <= Len(<<x>>) THEN <<x>>[i] ELSE s[i - Len(<<x>>)]
  BY ONLY <1>1, s \in Seq(T), ConcatProperties
<1>3. /\ r \in Seq(T) /\ Len(r) = Len(s) + 1
      /\ \A i \in 1 .. Len(s) + 1 : r[i] = IF i <= 1 THEN <<x>>[i] ELSE s[i - 1]
  BY <1>1, <1>2
<1>4. r[1] = x
  BY <1>1, <1>3
<1>5. \A i \in 2 .. Len(r) : i - 1 \in 1 .. Len(s) /\ r[i] = s[i - 1]
  BY <1>1, <1>3
<1>6. Head(r) = r[1]
  BY <1>1, <1>3
<1> QED
  BY <1>3, <1>4, <1>5, <1>6

(* The first run and the others. *)
LEMMA HeadTailOK ==
    ASSUME NEW T, NEW s \in Seq(T), s # <<>>
    PROVE  /\ Head(s) \in T /\ Head(s) = s[1] /\ Len(s) \in Nat /\ Len(s) >= 1
           /\ Tail(s) \in Seq(T) /\ Len(Tail(s)) = Len(s) - 1
           /\ \A i \in 1 .. Len(s) - 1 : Tail(s)[i] = s[i + 1]
OBVIOUS

(* No hook is being called at first. *)
LEMMA HookInitOK == HooksInit => HookInv
<1> SUFFICES ASSUME HooksInit PROVE HookInv
  OBVIOUS
<1>1. ListsOK(hooks, heap)
  BY CreateListsOK DEF HooksInit
<1>2. runs \in Seq(Runs) /\ Len(runs) = 0
  BY DEF HooksInit
<1>3. undefined = FALSE /\ careful = TRUE /\ 1 .. Len(runs) = {}
  BY <1>2 DEF HooksInit
<1> QED
  BY <1>1, <1>2, <1>3 DEF HookInv

(* Adding a hook moves nothing that a run will come to. *)
LEMMA AddKeeps ==
    ASSUME HookInv, NEW hook \in HookSet, Client_AddHook(hook)
    PROVE  HookInv'
<1>1. PICK node \in ListNodes \ DOMAIN heap :
         /\ heap' = List_push(ListOf(hook), node, hook).heap
         /\ hooks' = DArray_set(hooks, TypeOf(hook),
                                List_push(ListOf(hook), node, hook).list)
  BY DEF Client_AddHook
<1> DEFINE s == ListOf(hook)
           t == List_push(s, node, hook)
<1>2. s.list = ListAt(hooks, TypeOf(hook)) /\ s.heap = heap
  BY DEF ListOf, ListAt
<1>3. ListsOK(hooks, heap)
  BY DEF HookInv
<1> HIDE DEF s
<1>4. hooks' = DArray_set(hooks, TypeOf(hook), t.list) /\ heap' = t.heap
  BY <1>1 DEF s
<1> HIDE DEF t
<1>5. /\ ListsOK(hooks', heap') /\ DOMAIN heap \subseteq DOMAIN heap'
      /\ \A p \in DOMAIN heap : heap'[p].value = heap[p].value
      /\ \A type \in HookTypes :
            \/ NodesOf(hooks', heap', type) = NodesOf(hooks, heap, type)
            \/ NodesOf(hooks', heap', type) = Append(NodesOf(hooks, heap, type), node)
  BY <1>2, <1>3, <1>4, AddHookOK DEF t
<1>6. runs' = runs /\ undefined' = undefined /\ careful' = careful
  BY DEF Client_AddHook
<1>7. ASSUME NEW i \in 1 .. Len(runs), RunOK(runs[i], hooks, heap)
      PROVE  RunOK(runs[i], hooks', heap')
  <2>1. CASE runs[i].next = NULL /\ runs[i].due = <<>>
    BY <2>1 DEF RunOK
  <2>2. CASE ~(runs[i].next = NULL /\ runs[i].due = <<>>)
    <3>1. PICK type \in HookTypes, A \in Seq(DOMAIN heap) :
             Segment(A, NodesOf(hooks, heap, type)) /\ Ahead(runs[i], heap, A)
      BY <1>7, <2>2 DEF RunOK
    <3>2. A \in Seq(DOMAIN heap') /\ Ahead(runs[i], heap', A)
      <4>1. \A j \in 1 .. Len(A) : A[j] \in DOMAIN heap'
                                   /\ heap'[A[j]].value = heap[A[j]].value
        BY <1>5
      <4> QED
        BY <1>5, <3>1, <4>1, AheadFrame
    <3>3. Segment(A, NodesOf(hooks', heap', type))
      <4>1. NodesOf(hooks, heap, type) \in Seq(DOMAIN heap)
        BY <1>3 DEF ListsOK, IsList
      <4>2. Segment(A, Append(NodesOf(hooks, heap, type), node))
        BY <3>1, <4>1, SegmentAppend
      <4> QED
        BY <1>5, <3>1, <4>2
    <3> QED
      BY <3>2, <3>3 DEF RunOK
  <2> QED
    BY <2>1, <2>2
<1>8. /\ runs' \in Seq(Runs) /\ undefined' \in BOOLEAN /\ careful' \in BOOLEAN
      /\ careful' => /\ ~undefined'
                     /\ \A i \in 1 .. Len(runs') : RunOK(runs'[i], hooks', heap')
  BY <1>6, <1>7 DEF HookInv
<1> QED
  BY <1>5, <1>8 DEF HookInv

(* Removing a hook leaves what the runs will come to when no run is under  *)
(* way, and when the only one is calling this hook and it has no other     *)
(* node.                                                                   *)
LEMMA RemoveKeeps ==
    ASSUME HookInv, NEW hook \in HookSet, Client_RemoveHook(hook)
    PROVE  HookInv'
<1> DEFINE s == ListOf(hook)
           t == List_remove_all(s, hook)
           type == TypeOf(hook)
           S == NodesOf(hooks, heap, type)
<1>1. hooks' = DArray_set(hooks, type, t.list) /\ heap' = t.heap
  BY DEF Client_RemoveHook
<1>2. s.list = ListAt(hooks, type) /\ s.heap = heap
  BY DEF ListOf, ListAt
<1>3. ListsOK(hooks, heap)
  BY DEF HookInv
<1> HIDE DEF s, t, type
<1>4. /\ ListsOK(hooks', heap')
      /\ DOMAIN heap' = {p \in DOMAIN heap : heap[p].value # hook}
      /\ \A p \in DOMAIN heap' : heap'[p].value = heap[p].value
      /\ \A other \in HookTypes \ {type} :
            NodesOf(hooks', heap', other) = NodesOf(hooks, heap, other)
      /\ (\A p, q \in DOMAIN heap : heap[p].value = hook /\ heap[q].value = hook => p = q)
         => \/ NodesOf(hooks', heap', type) = S
            \/ \E j \in 1 .. Len(S) : /\ heap[S[j]].value = hook
                                      /\ NodesOf(hooks', heap', type) = Without(S, j)
  BY <1>1, <1>2, <1>3, RemoveHookOK DEF t, type
<1>5. /\ runs' = runs /\ undefined' = undefined
      /\ careful' = (careful /\ (runs = <<>> \/ OnlySelf(hook)))
  BY DEF Client_RemoveHook
<1>6. ASSUME OnlySelf(hook), careful, NEW i \in 1 .. Len(runs)
      PROVE  RunOK(runs[i], hooks', heap')
  <2> DEFINE run == runs[i]
  <2>1. Len(runs) = 1 /\ runs \in Seq(Runs) /\ runs # <<>>
    BY <1>6 DEF OnlySelf, HookInv
  <2>2. i = 1 /\ run.called = hook
    BY <1>6, <2>1 DEF OnlySelf
  <2>3. RunOK(run, hooks, heap)
    BY <1>6 DEF HookInv
  <2>4. ASSUME NEW p \in DOMAIN heap, NEW q \in DOMAIN heap,
               heap[p].value = hook, heap[q].value = hook
        PROVE  p = q
    <3> DEFINE T == {r \in DOMAIN heap : heap[r].value = hook}
    <3>1. IsFiniteSet(T) /\ p \in T /\ q \in T
      BY <1>3, <2>4, FS_Subset DEF ListsOK, IsHeap
    <3>2. Cardinality(T) <= 1
      BY <1>6 DEF OnlySelf
    <3> HIDE DEF T
    <3> QED
      BY <3>1, <3>2, TwoMembers
  <2> HIDE DEF run
  <2>5. CASE run.next = NULL /\ run.due = <<>>
    BY <2>5 DEF RunOK, run
  <2>6. CASE ~(run.next = NULL /\ run.due = <<>>)
    <3>1. PICK other \in HookTypes, A \in Seq(DOMAIN heap) :
             Segment(A, NodesOf(hooks, heap, other)) /\ Ahead(run, heap, A)
      BY <2>3, <2>6 DEF RunOK
    <3>2. /\ Len(A) \in Nat \ {0}
          /\ \A j \in 1 .. Len(A) :
                /\ A[j] \in DOMAIN heap
                /\ heap[A[j]].value = run.called =>
                      /\ run.cur \in DOMAIN heap /\ run.cur # A[j]
                      /\ heap[run.cur].value = run.called
      BY <3>1 DEF Ahead
    <3>3. \A j \in 1 .. Len(A) : heap[A[j]].value # hook
      BY <2>2, <2>4, <3>2
    <3>4. Ahead(run, heap', A) /\ A \in Seq(DOMAIN heap')
      <4>1. \A j \in 1 .. Len(A) : A[j] \in DOMAIN heap'
                                   /\ heap'[A[j]].value = heap[A[j]].value
        BY <1>4, <3>2, <3>3
      <4>2. \A j \in 1 .. Len(A) : heap[A[j]].value # run.called
        BY <2>2, <3>3
      <4> QED
        BY <3>1, <4>1, <4>2, AheadFrame
    <3>5. Segment(A, NodesOf(hooks', heap', other))
      <4>1. CASE other # type
        BY <1>4, <3>1, <4>1
      <4>2. CASE other = type
        <5>1. \/ NodesOf(hooks', heap', type) = S
              \/ \E j \in 1 .. Len(S) : /\ heap[S[j]].value = hook
                                        /\ NodesOf(hooks', heap', type) = Without(S, j)
          BY <1>4, <2>4
        <5>2. S \in Seq(DOMAIN heap) /\ Distinct(S) /\ Segment(A, S)
          <6>1. IsList(ListAt(hooks, type), heap, S)
            BY <1>3, <4>2 DEF ListsOK
          <6> QED
            BY <3>1, <4>2, <6>1 DEF IsList, Distinct
        <5> HIDE DEF S
        <5>3. ASSUME NEW j \in 1 .. Len(S), heap[S[j]].value = hook
              PROVE  Segment(A, Without(S, j))
          <6>1. \A n \in 1 .. Len(A) : A[n] # S[j]
            BY <3>3, <5>3
          <6> QED
            BY ONLY j \in 1 .. Len(S), <3>2, <5>2, <6>1, SegmentWithout
        <5> QED
          BY <4>2, <5>1, <5>2, <5>3
      <4> QED
        BY <4>1, <4>2
    <3> QED
      BY <3>4, <3>5 DEF RunOK, run
  <2> QED
    BY <2>5, <2>6
<1>7. careful' \in BOOLEAN /\ undefined' \in BOOLEAN /\ runs' \in Seq(Runs)
  BY <1>5 DEF HookInv
<1>8. ASSUME careful'
      PROVE  /\ ~undefined'
             /\ \A i \in 1 .. Len(runs') : RunOK(runs'[i], hooks', heap')
  <2>1. careful /\ (runs = <<>> \/ OnlySelf(hook))
    BY <1>5, <1>8
  <2>2. ~undefined'
    BY <1>5, <2>1 DEF HookInv
  <2>3. CASE runs = <<>>
    <3>1. 1 .. Len(runs') = {}
      BY <1>5, <2>3
    <3> QED
      BY <2>2, <3>1
  <2>4. CASE OnlySelf(hook)
    BY <1>5, <1>6, <2>1, <2>2, <2>4
  <2> QED
    BY <2>1, <2>3, <2>4
<1> QED
  BY <1>4, <1>7, <1>8 DEF HookInv

(* Client_RunHook starts at the first node, with all others ahead. *)
LEMMA RunKeeps ==
    ASSUME HookInv, NEW type \in HookTypes, Client_RunHook(type)
    PROVE  HookInv'
<1> DEFINE list == ListAt(hooks, type)
           S == NodesOf(hooks, heap, type)
           n == Len(S)
           values == [i \in 1 .. list.count |-> heap[S[i]].value]
           run == [cur |-> list.first, next |-> NextOf(list.first),
                   called |-> Head(values), due |-> Tail(values)]
<1>1. /\ list.first # NULL /\ runs' = <<run>> \o runs
      /\ hooks' = hooks /\ heap' = heap /\ undefined' = undefined
      /\ careful' = careful
  BY DEF Client_RunHook, ListAt, NodesOf
<1>2. ListsOK(hooks, heap) /\ runs \in Seq(Runs)
  BY DEF HookInv
<1>3. /\ S \in Seq(DOMAIN heap) /\ n \in Nat /\ list.count = n
      /\ list.first = At(S, 1)
      /\ \A i \in 1 .. n : S[i] \in DOMAIN heap
  <2>1. IsList(list, heap, S)
    BY <1>2 DEF ListsOK
  <2> QED
    BY <2>1 DEF IsList
<1>4. n >= 1 /\ list.first = S[1] /\ 1 \in 1 .. n
  BY <1>1, <1>3 DEF At
<1>5. \A p \in DOMAIN heap : heap[p] \in HeapNodes /\ p \in ListNodes /\ p # NULL
  BY <1>2, HooksAssumption DEF ListsOK, IsHeap
<1>6. values \in [1 .. n -> HookSet] /\ \A i \in 1 .. n : values[i] = heap[S[i]].value
  BY <1>3, <1>5 DEF HeapNodes
<1> HIDE DEF values, n
<1>7. values \in Seq(HookSet) /\ Len(values) = n /\ values # <<>>
  <2>1. values \in Seq(HookSet) /\ Len(values) = n
    BY ONLY <1>3, <1>6, FunctionIsSeq
  <2> QED
    BY <1>3, <1>4, <2>1
<1>8. /\ Head(values) \in HookSet /\ Head(values) = values[1]
      /\ Tail(values) \in Seq(HookSet) /\ Len(Tail(values)) = n - 1
      /\ \A i \in 1 .. n - 1 : Tail(values)[i] = values[i + 1]
  BY ONLY <1>7, HeadTailOK
<1>9. NextOf(list.first) = heap[S[1]].next /\ heap[S[1]].next \in Addresses
  BY <1>3, <1>4, <1>5 DEF NextOf, HeapNodes
<1>10. /\ run \in Runs /\ run.cur = S[1] /\ run.next = heap[S[1]].next
       /\ run.called = heap[S[1]].value /\ run.due = Tail(values)
  BY <1>3, <1>4, <1>5, <1>6, <1>8, <1>9 DEF Runs
<1> HIDE DEF run
<1>11. RunOK(run, hooks, heap)
  <2>1. Len(run.due) <= n - 1
    BY <1>3, <1>8, <1>10
  <2>2. ASSUME NEW i \in 1 .. Len(run.due) PROVE run.due[i] = heap[S[1 + i]].value
    <3>1. i \in 1 .. n - 1 /\ i + 1 \in 1 .. n /\ i + 1 = 1 + i
      BY <1>3, <1>8, <1>10
    <3> QED
      BY <1>6, <1>8, <1>10, <3>1
  <2>3. \A i \in 1 .. Len(run.due) : run.due[i] = heap[S[1 + i]].value
    BY <2>2
  <2> HIDE DEF list, S
  <2>4. S = NodesOf(hooks, heap, type) /\ 1 \in 1 .. Len(S) /\ Len(run.due) <= Len(S) - 1
    BY <1>4, <2>1 DEF n, S
  <2>5. run \in Runs
    BY <1>10
  <2>6. run.cur = S[1] /\ run.next = heap[S[1]].next /\ run.called = heap[S[1]].value
    BY <1>10
  <2>7. ListsOK(hooks, heap) /\ type \in HookTypes
    BY <1>2
  <2> QED
    BY ONLY <2>3, <2>4, <2>5, <2>6, <2>7, CallOK
<1>12. /\ runs' \in Seq(Runs) /\ Len(runs') = Len(runs) + 1 /\ runs'[1] = run
       /\ \A i \in 2 .. Len(runs') : i - 1 \in 1 .. Len(runs) /\ runs'[i] = runs[i - 1]
  BY ONLY <1>1, <1>2, <1>10, ConsOK
<1>13. ASSUME careful, NEW i \in 1 .. Len(runs') PROVE RunOK(runs'[i], hooks, heap)
  <2>1. CASE i = 1
    BY <1>11, <1>12, <2>1
  <2>2. CASE i \in 2 .. Len(runs')
    BY <1>12, <1>13, <2>2 DEF HookInv
  <2>3. i = 1 \/ i \in 2 .. Len(runs')
    BY <1>2, <1>12
  <2> QED
    BY <2>1, <2>2, <2>3
<1> QED
  BY <1>1, <1>2, <1>12, <1>13 DEF HookInv

(* What a return of a hook does when its run is ready: the next one is     *)
(* called, which is the first of those due, or the run ends with none due. *)
LEMMA ReturnOK ==
    ASSUME HookInv, HookReturns, careful
    PROVE  /\ undefined' = undefined
           /\ \/ runs' = Tail(runs) /\ Head(runs).due = <<>>
              \/ \E run \in Runs :
                    /\ runs' = <<run>> \o Tail(runs) /\ RunOK(run, hooks, heap)
                    /\ Head(runs).due # <<>> => run.called = Head(Head(runs).due)
<1> DEFINE old == Head(runs)
           cur == old.next
           new == [old EXCEPT !.cur = cur, !.next = NextOf(cur),
                              !.called = heap[cur].value,
                              !.due = IF @ = <<>> THEN @ ELSE Tail(@)]
<1>1. /\ runs \in Seq(Runs) /\ runs # <<>> /\ ListsOK(hooks, heap)
      /\ \A i \in 1 .. Len(runs) : RunOK(runs[i], hooks, heap)
  BY DEF HookInv, HookReturns
<1>2. old \in Runs /\ old = runs[1] /\ 1 \in 1 .. Len(runs)
  BY <1>1
<1>3. RunOK(old, hooks, heap)
  BY <1>1, <1>2
<1>4. \A p \in DOMAIN heap : heap[p] \in HeapNodes /\ p \in ListNodes /\ p # NULL
  BY <1>1, HooksAssumption DEF ListsOK, IsHeap
<1>5. CASE cur = NULL
  <2>1. runs' = Tail(runs) /\ undefined' = undefined
    BY <1>5 DEF HookReturns, Following
  <2>2. old.due = <<>>
    <3>1. ASSUME NEW A, Ahead(old, heap, A) PROVE FALSE
      <4>1. A[1] \in DOMAIN heap /\ old.next = A[1]
        BY <3>1 DEF Ahead
      <4> QED
        BY <1>4, <1>5, <4>1
    <3> HIDE DEF old
    <3> QED
      BY <1>3, <3>1 DEF RunOK
  <2> QED
    BY <2>1, <2>2
<1>6. CASE cur # NULL
  <2> HIDE DEF old
  <2>1. PICK type \in HookTypes, A \in Seq(DOMAIN heap) :
           Segment(A, NodesOf(hooks, heap, type)) /\ Ahead(old, heap, A)
    BY <1>3, <1>6 DEF RunOK
  <2> DEFINE S == NodesOf(hooks, heap, type)
  <2>2. /\ Len(A) \in Nat /\ Len(A) >= 1 /\ Len(old.due) <= Len(A) /\ cur = A[1]
        /\ A[1] \in DOMAIN heap
        /\ \A i \in 1 .. Len(old.due) : old.due[i] = heap[A[i]].value
    BY <2>1 DEF Ahead
  <2>3. PICK m \in 1 .. Len(S) : /\ m + Len(A) - 1 <= Len(S)
                                 /\ \A i \in 1 .. Len(A) : A[i] = S[m + i - 1]
    BY <2>1 DEF Segment
  <2>4. S \in Seq(DOMAIN heap) /\ Len(S) \in Nat
    BY <1>1 DEF ListsOK, IsList
  <2> HIDE DEF S
  <2>5. cur = S[m] /\ cur \in DOMAIN heap
    <3>1. 1 \in 1 .. Len(A) /\ m + 1 - 1 = m
      BY <2>2, <2>4
    <3> QED
      BY <2>2, <2>3, <3>1
  <2>6. runs' = <<new>> \o Tail(runs) /\ undefined' = undefined
    BY <1>6, <2>5 DEF HookReturns, Following, old
  <2>7. old.due \in Seq(HookSet) /\ Len(old.due) \in Nat
    BY <1>2 DEF Runs
  <2> DEFINE due == IF old.due = <<>> THEN old.due ELSE Tail(old.due)
  <2>8. /\ due \in Seq(HookSet)
        /\ old.due = <<>> => Len(due) = 0
        /\ old.due # <<>> =>
              /\ Len(due) = Len(old.due) - 1 /\ Len(old.due) >= 1
              /\ Head(old.due) = old.due[1]
              /\ \A i \in 1 .. Len(due) : due[i] = old.due[i + 1]
    BY <2>7
  <2>9. NextOf(cur) = heap[cur].next /\ heap[cur].next \in Addresses
        /\ heap[cur].value \in HookSet /\ cur \in ListNodes
    BY <1>4, <2>5 DEF NextOf, HeapNodes
  <2>10. /\ new \in Runs /\ new.cur = cur /\ new.next = heap[cur].next
         /\ new.called = heap[cur].value /\ new.due = due
    <3>1. new = [old EXCEPT !.cur = cur, !.next = heap[cur].next,
                            !.called = heap[cur].value, !.due = due]
      BY <2>9
    <3> HIDE DEF new, due, cur
    <3> QED
      BY ONLY <1>2, <2>8, <2>9, <3>1 DEF Runs
  <2> HIDE DEF new, due, cur
  <2>11. Len(new.due) <= Len(S) - m
    <3>1. Len(due) = 0 \/ Len(due) = Len(old.due) - 1
      BY <2>8
    <3> QED
      BY <2>2, <2>3, <2>4, <2>7, <2>10, <3>1
  <2>12. ASSUME NEW i \in 1 .. Len(new.due) PROVE new.due[i] = heap[S[m + i]].value
    <3>1. old.due # <<>> /\ i + 1 \in 1 .. Len(old.due) /\ i + 1 \in 1 .. Len(A)
          /\ m + (i + 1) - 1 = m + i
      BY <2>2, <2>7, <2>8, <2>10
    <3>2. due[i] = old.due[i + 1] /\ old.due[i + 1] = heap[A[i + 1]].value
      BY <2>2, <2>8, <2>10, <3>1
    <3>3. A[i + 1] = S[m + i]
      BY <2>3, <3>1
    <3> QED
      BY <2>10, <3>2, <3>3
  <2>13. RunOK(new, hooks, heap)
    BY <1>1, <2>5, <2>10, <2>11, <2>12, CallOK DEF S
  <2>14. old.due # <<>> => new.called = Head(old.due)
    <3>1. old.due # <<>> => 1 \in 1 .. Len(old.due)
      BY <2>7, <2>8
    <3> QED
      BY <2>2, <2>8, <2>10, <3>1
  <2> QED
    BY <2>6, <2>10, <2>13, <2>14 DEF old
<1> QED
  BY <1>5, <1>6

(* Returning keeps the invariant; without care only its types are left. *)
LEMMA ReturnKeeps ==
    ASSUME HookInv, HookReturns
    PROVE  HookInv'
<1>1. /\ hooks' = hooks /\ heap' = heap /\ careful' = careful
      /\ runs \in Seq(Runs) /\ runs # <<>> /\ ListsOK(hooks, heap)
      /\ careful \in BOOLEAN /\ undefined \in BOOLEAN
  BY DEF HookInv, HookReturns
<1>2. /\ Tail(runs) \in Seq(Runs) /\ Len(Tail(runs)) = Len(runs) - 1
      /\ Head(runs) \in Runs /\ Len(runs) \in Nat
      /\ \A i \in 1 .. Len(runs) - 1 : Tail(runs)[i] = runs[i + 1]
  BY ONLY <1>1, HeadTailOK
<1>3. CASE careful
  <2>1. /\ undefined' = undefined
        /\ \/ runs' = Tail(runs)
           \/ \E run \in Runs : runs' = <<run>> \o Tail(runs) /\ RunOK(run, hooks, heap)
    BY <1>3, ReturnOK
  <2>2. ~undefined /\ \A i \in 1 .. Len(runs) : RunOK(runs[i], hooks, heap)
    BY <1>3 DEF HookInv
  <2>3. \A i \in 1 .. Len(Tail(runs)) : RunOK(Tail(runs)[i], hooks, heap)
    BY <1>2, <2>2
  <2>4. /\ runs' \in Seq(Runs)
        /\ \A i \in 1 .. Len(runs') : RunOK(runs'[i], hooks, heap)
    <3>1. CASE runs' = Tail(runs)
      BY <1>2, <2>3, <3>1
    <3>2. ASSUME NEW run \in Runs, runs' = <<run>> \o Tail(runs),
                 RunOK(run, hooks, heap)
          PROVE  /\ runs' \in Seq(Runs)
                 /\ \A i \in 1 .. Len(runs') : RunOK(runs'[i], hooks, heap)
      <4>1. /\ runs' \in Seq(Runs) /\ Len(runs') = Len(Tail(runs)) + 1
            /\ runs'[1] = run
            /\ \A i \in 2 .. Len(runs') :
                  i - 1 \in 1 .. Len(Tail(runs)) /\ runs'[i] = Tail(runs)[i - 1]
        BY ONLY <1>2, <3>2, run \in Runs, ConsOK
      <4>2. \A i \in 1 .. Len(runs') : i = 1 \/ i \in 2 .. Len(runs')
        BY <4>1
      <4> QED
        BY <2>3, <3>2, <4>1, <4>2
    <3> QED
      BY <2>1, <3>1, <3>2
  <2> QED
    BY <1>1, <2>1, <2>2, <2>4 DEF HookInv
<1>4. CASE ~careful
  <2> DEFINE old == Head(runs)
             cur == old.next
             new == [old EXCEPT !.cur = cur, !.next = NextOf(cur),
                                !.called = heap[cur].value,
                                !.due = IF @ = <<>> THEN @ ELSE Tail(@)]
  <2>1. \/ runs' = Tail(runs) /\ undefined' = undefined
        \/ cur \in DOMAIN heap /\ runs' = <<new>> \o Tail(runs) /\ undefined' = undefined
        \/ undefined' = TRUE /\ runs' = runs
    BY DEF HookReturns, Following
  <2>2. ASSUME cur \in DOMAIN heap PROVE new \in Runs
    <3>1. heap[cur] \in HeapNodes /\ cur \in ListNodes /\ cur # NULL
      BY <1>1, <2>2, HooksAssumption DEF ListsOK, IsHeap
    <3> DEFINE due == IF old.due = <<>> THEN old.due ELSE Tail(old.due)
    <3>2. due \in Seq(HookSet)
      BY <1>2 DEF Runs
    <3>3. /\ NextOf(cur) = heap[cur].next /\ heap[cur].next \in Addresses
          /\ heap[cur].value \in HookSet
      BY <3>1 DEF NextOf, HeapNodes
    <3>4. new = [old EXCEPT !.cur = cur, !.next = heap[cur].next,
                            !.called = heap[cur].value, !.due = due]
      BY <3>3
    <3> HIDE DEF new, due, cur, old
    <3>5. old \in Runs
      BY <1>2 DEF old
    <3> QED
      BY ONLY <3>1, <3>2, <3>3, <3>4, <3>5 DEF Runs
  <2> HIDE DEF new, cur
  <2>3. runs' \in Seq(Runs)
    <3>1. CASE runs' = Tail(runs) \/ runs' = runs
      BY <1>1, <1>2, <3>1
    <3>2. CASE cur \in DOMAIN heap /\ runs' = <<new>> \o Tail(runs)
      BY <1>2, <2>2, <3>2, ConsOK
    <3> QED
      BY <2>1, <3>1, <3>2
  <2>4. undefined' \in BOOLEAN
    BY <1>1, <2>1
  <2> QED
    BY <1>1, <1>4, <2>3, <2>4 DEF HookInv
<1> QED
  BY <1>1, <1>3, <1>4

(* Destroying the lists leaves empty ones and frees every node. *)
LEMMA DestroyKeeps ==
    ASSUME HookInv, Hooks_Destroy
    PROVE  HookInv'
<1>1. /\ runs = <<>> /\ runs' = runs /\ heap' = <<>> /\ hooks' = Hooks_Create
      /\ undefined' = undefined /\ careful' = careful
  BY DEF Hooks_Destroy
<1>2. ListsOK(hooks', heap')
  <2>1. ListsOK(Hooks_Create, heap')
    BY ONLY <1>1, CreateListsOK
  <2> QED
    BY <1>1, <2>1
<1>3. runs' \in Seq(Runs) /\ 1 .. Len(runs') = {}
  BY <1>1
<1> QED
  BY <1>1, <1>2, <1>3 DEF HookInv

(* A stutter keeps it. *)
LEMMA HookStutterKeeps ==
    ASSUME HookInv, UNCHANGED hookVars
    PROVE  HookInv'
BY DEF HookInv, hookVars, ListsOK, RunOK

(* Whatever the application adds and removes, between the runs of hooks    *)
(* (hooks.c) and within them, the lists are linked, and a run has live     *)
(* nodes ahead of it that hold the hooks still due, as long as hooks       *)
(* removed only themselves.                                                *)
THEOREM HookInvHolds == HooksSpec => []HookInv
<1>1. HooksInit => HookInv
  BY HookInitOK
<1>2. HookInv /\ [HooksNext]_hookVars => HookInv'
  <2> SUFFICES ASSUME HookInv, [HooksNext]_hookVars PROVE HookInv'
    OBVIOUS
  <2>1. ASSUME NEW hook \in HookSet, Client_AddHook(hook) PROVE HookInv'
    BY ONLY HookInv, <2>1, AddKeeps
  <2>2. ASSUME NEW hook \in HookSet, Client_RemoveHook(hook) PROVE HookInv'
    BY ONLY HookInv, <2>2, RemoveKeeps
  <2>3. ASSUME NEW type \in HookTypes, Client_RunHook(type) PROVE HookInv'
    BY ONLY HookInv, <2>3, RunKeeps
  <2>4. CASE HookReturns
    BY ONLY HookInv, <2>4, ReturnKeeps
  <2>5. CASE Hooks_Destroy
    BY ONLY HookInv, <2>5, DestroyKeeps
  <2>6. CASE UNCHANGED hookVars
    BY ONLY HookInv, <2>6, HookStutterKeeps
  <2> QED
    BY <2>1, <2>2, <2>3, <2>4, <2>5, <2>6 DEF HooksNext
<1> QED
  BY <1>1, <1>2, PTL DEF HooksSpec

-----------------------------------------------------------------------------
(* Well linked lists, in terms of the addresses that walks over them show. *)
LEMMA LinkedOK ==
    ASSUME ListsOK(hooks, heap)
    PROVE  ListsAreLinked
<1>1. /\ IsHeap(heap)
      /\ \A type \in HookTypes :
            IsList(DArray_get(hooks, type), heap, Forward(DArray_get(hooks, type), heap))
      /\ \A type \in HookTypes :
            \A i \in 1 .. Len(Forward(DArray_get(hooks, type), heap)) :
               TypeOf(heap[Forward(DArray_get(hooks, type), heap)[i]].value) = type
      /\ \A p \in DOMAIN heap :
            \E i \in 1 .. Len(Forward(DArray_get(hooks, TypeOf(heap[p].value)), heap)) :
               Forward(DArray_get(hooks, TypeOf(heap[p].value)), heap)[i] = p
  BY DEF ListsOK, NodesOf, ListAt
<1>2. ASSUME NEW l \in Lists
      PROVE  /\ IsList(l, heap, Forward(l, heap))
             /\ Backward(l, heap) = Reverse(Forward(l, heap))
             /\ Len(Forward(l, heap)) = l.count
             /\ Forward(l, heap) \in Seq(DOMAIN heap)
  <2>1. PICK type \in HookTypes : l = DArray_get(hooks, type)
    BY <1>2 DEF Lists
  <2>2. IsList(l, heap, Forward(l, heap))
    BY <1>1, <2>1
  <2>3. Backward(l, heap) = Reverse(Forward(l, heap))
    BY ONLY <1>1, <2>2, BackwardIs
  <2>4. Len(Forward(l, heap)) = l.count /\ Forward(l, heap) \in Seq(DOMAIN heap)
    BY ONLY <2>2 DEF IsList
  <2> QED
    BY <2>2, <2>3, <2>4
<1>3. ASSUME NEW l \in Lists
      PROVE  ToSet(Forward(l, heap))
                = {Forward(l, heap)[i] : i \in 1 .. Len(Forward(l, heap))}
  <2>1. DOMAIN Forward(l, heap) = 1 .. Len(Forward(l, heap))
    BY <1>2, <1>3
  <2> QED
    BY <2>1 DEF ToSet
<1>4. ASSUME NEW type \in HookTypes PROVE DArray_get(hooks, type) \in Lists
  BY <1>4 DEF Lists
<1>5. UNION {ToSet(Forward(l, heap)) : l \in Lists} = DOMAIN heap
  <2>1. ASSUME NEW l \in Lists, NEW p \in ToSet(Forward(l, heap)) PROVE p \in DOMAIN heap
    <3>1. PICK i \in 1 .. Len(Forward(l, heap)) : p = Forward(l, heap)[i]
      BY <1>3, <2>1
    <3> QED
      BY <1>2, <3>1
  <2>2. ASSUME NEW p \in DOMAIN heap
        PROVE  \E l \in Lists : p \in ToSet(Forward(l, heap))
    <3> DEFINE type == TypeOf(heap[p].value)
               l == DArray_get(hooks, type)
    <3>1. heap[p].value \in HookSet
      BY <1>1 DEF IsHeap, HeapNodes
    <3>2. type \in HookTypes
      BY <3>1, HooksAssumption DEF HookTypes
    <3>3. l \in Lists
      BY <1>4, <3>2
    <3>4. \E i \in 1 .. Len(Forward(l, heap)) : p = Forward(l, heap)[i]
      BY <1>1
    <3> HIDE DEF l
    <3>5. p \in ToSet(Forward(l, heap))
      BY <1>3, <3>3, <3>4
    <3> QED
      BY <3>3, <3>5
  <2> QED
    BY <2>1, <2>2
<1>6. ASSUME NEW type \in HookTypes,
             NEW p \in ToSet(Forward(DArray_get(hooks, type), heap))
      PROVE  TypeOf(heap[p].value) = type
  <2> DEFINE l == DArray_get(hooks, type)
  <2>1. PICK i \in 1 .. Len(Forward(l, heap)) : p = Forward(l, heap)[i]
    BY <1>3, <1>4, <1>6
  <2> QED
    BY <1>1, <2>1
<1> QED
  BY <1>2, <1>5, <1>6 DEF ListsAreLinked

(* List_push, List_remove and List_remove_all (list.c) keep both           *)
(* directions of every list and its count in step, and no node is lost or  *)
(* on the list of another type, for every number of hooks and types.       *)
THEOREM ListsStayLinked == HooksSpec => []ListsAreLinked
<1>1. HookInv => ListsAreLinked
  BY LinkedOK DEF HookInv
<1> QED
  BY <1>1, HookInvHolds, PTL

(* LIST_FOREACH in Client_RunHook (hooks.c) uses no freed node and has     *)
(* none to come to while hooks removed no hook but themselves, however     *)
(* deep the runs are nested and whatever hooks are added meanwhile.        *)
THEOREM WalksStaySafe == HooksSpec => []WalksAreSafe
<1>1. ASSUME HookInv, careful
      PROVE  /\ ~undefined
             /\ \A i \in DOMAIN runs : runs[i].next \in DOMAIN heap \cup {NULL}
  <2>1. /\ ~undefined /\ runs \in Seq(Runs)
        /\ \A i \in 1 .. Len(runs) : RunOK(runs[i], hooks, heap)
    BY <1>1 DEF HookInv
  <2>2. DOMAIN runs = 1 .. Len(runs)
    BY <2>1
  <2>3. ASSUME NEW run, RunOK(run, hooks, heap)
        PROVE  run.next \in DOMAIN heap \cup {NULL}
    <3>1. CASE run.next = NULL
      BY <3>1
    <3>2. ASSUME NEW A \in Seq(DOMAIN heap), Ahead(run, heap, A)
          PROVE  run.next \in DOMAIN heap
      <4>1. Len(A) >= 1 /\ run.next = A[1]
        BY <3>2 DEF Ahead
      <4> QED
        BY <4>1
    <3> QED
      BY <2>3, <3>1, <3>2 DEF RunOK
  <2> QED
    BY <2>1, <2>2, <2>3
<1>2. HookInv => WalksAreSafe
  BY <1>1 DEF WalksAreSafe
<1> QED
  BY <1>2, HookInvHolds, PTL

(* Client_RunHook (hooks.c) skips none of the hooks that were on the list  *)
(* when it began: while one is due, a return of the hook being called is   *)
(* followed by the call of the first one due and not by the end of the     *)
(* run.                                                                    *)
THEOREM EveryHookIsRun == HooksSpec => RunsEveryHook
<1> DEFINE Due == runs # <<>> /\ runs' # runs /\ Len(runs') <= Len(runs) /\ careful
                     /\ Head(runs).due # <<>>
                  => /\ Len(runs') = Len(runs)
                     /\ Head(runs').called = Head(Head(runs).due)
<1>1. HookInv /\ [HooksNext]_hookVars => [Due]_hookVars
  <2> SUFFICES ASSUME HookInv, HooksNext,
                      runs # <<>>, runs' # runs, Len(runs') <= Len(runs), careful,
                      Head(runs).due # <<>>
               PROVE  /\ Len(runs') = Len(runs)
                      /\ Head(runs').called = Head(Head(runs).due)
    OBVIOUS
  <2>1. runs \in Seq(Runs) /\ Len(runs) \in Nat
    BY DEF HookInv
  <2>2. \A hook \in HookSet : ~Client_AddHook(hook) /\ ~Client_RemoveHook(hook)
    BY DEF Client_AddHook, Client_RemoveHook
  <2>3. ~Hooks_Destroy
    BY DEF Hooks_Destroy
  <2>4. ASSUME NEW type \in HookTypes PROVE ~Client_RunHook(type)
    <3> SUFFICES ASSUME Client_RunHook(type) PROVE FALSE
      OBVIOUS
    <3>1. PICK run : runs' = <<run>> \o runs
      BY DEF Client_RunHook
    <3>2. runs \in Seq(Runs \cup {run})
      BY <2>1
    <3>3. Len(runs') = Len(runs) + 1
      BY ONLY <3>1, <3>2, run \in Runs \cup {run}, ConsOK
    <3> QED
      BY <2>1, <3>3
  <2>5. HookReturns
    BY <2>2, <2>3, <2>4 DEF HooksNext
  <2>6. PICK run \in Runs : /\ runs' = <<run>> \o Tail(runs)
                            /\ run.called = Head(Head(runs).due)
    <3>1. ~(runs' = Tail(runs) /\ Head(runs).due = <<>>)
      OBVIOUS
    <3> QED
      BY <2>5, <3>1, ReturnOK
  <2>7. Tail(runs) \in Seq(Runs) /\ Len(Tail(runs)) = Len(runs) - 1
    BY ONLY <2>1, runs # <<>>, HeadTailOK
  <2>8. Len(runs') = Len(Tail(runs)) + 1 /\ Head(runs') = run
    BY ONLY <2>6, <2>7, run \in Runs, ConsOK
  <2> QED
    BY <2>1, <2>6, <2>7, <2>8
<1> QED
  BY <1>1, HookInvHolds, PTL DEF HooksSpec, RunsEveryHook

=============================================================================
