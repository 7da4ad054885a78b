-------------------------- MODULE ContainerProofs --------------------------
(***************************************************************************)
(* The growing array is a sequence and the hash table a partial function,  *)
(* for all rates of growth, numbers of buckets and hash functions.         *)
(***************************************************************************)
EXTENDS Array, Hashmap, FoldLemmas

(* What a slot of an array for the values V may hold. *)
Cells(V) == V \cup {NULL, Garbage}

(* An array whose slots in use are allocated. *)
IsArray(a, V) ==
    /\ a \in [contents : [0 .. a.max - 1 -> Cells(V)], end : Nat, max : Nat]
    /\ a.end <= a.max

(* An array that DArray_push can write to. *)
IsRoomy(a, V) == IsArray(a, V) /\ a.end < a.max

-----------------------------------------------------------------------------
(* The elements of an array are a sequence. *)
LEMMA ElementsOK ==
    ASSUME NEW V, NEW a, IsArray(a, V)
    PROVE  /\ Elements(a) \in Seq(Cells(V))
           /\ Len(Elements(a)) = a.end
           /\ \A i \in 1 .. a.end : /\ Elements(a)[i] = a.contents[i - 1]
                                    /\ i - 1 \in 0 .. a.max - 1
           /\ \A i \in 0 .. a.end - 1 : Elements(a)[i + 1] = a.contents[i]
<1>1. a.end \in Nat /\ \A i \in 1 .. a.end : i - 1 \in 0 .. a.max - 1
  BY DEF IsArray
<1>2. Elements(a) \in [1 .. a.end -> Cells(V)]
  BY <1>1 DEF IsArray, Elements
<1>3. \A i \in 0 .. a.end - 1 : i + 1 \in 1 .. a.end /\ i + 1 - 1 = i
  BY <1>1
<1>4. \A i \in 0 .. a.end - 1 : Elements(a)[i + 1] = a.contents[i]
  BY <1>3 DEF Elements
<1>5. \A i \in 1 .. a.end : Elements(a)[i] = a.contents[i - 1]
  BY <1>1 DEF Elements
<1>6. Elements(a) \in Seq(Cells(V)) /\ Len(Elements(a)) = a.end
  BY ONLY <1>1, <1>2, FunctionIsSeq
<1> QED
  BY ONLY <1>1, <1>4, <1>5, <1>6

(* Arrays with the same elements in use. *)
LEMMA SameElements ==
    ASSUME NEW a, NEW b, a.end = b.end, a.end \in Nat,
           \A i \in 0 .. a.end - 1 : a.contents[i] = b.contents[i]
    PROVE  Elements(a) = Elements(b)
BY DEF Elements

(* Resizing keeps the elements in use that there is room for. *)
LEMMA ResizeOK ==
    ASSUME NEW V, NEW a, IsArray(a, V), NEW newsize \in Nat, a.end < newsize
    PROVE  /\ IsRoomy(DArray_resize(a, newsize), V)
           /\ DArray_resize(a, newsize).end = a.end
           /\ Elements(DArray_resize(a, newsize)) = Elements(a)
<1> DEFINE b == DArray_resize(a, newsize)
           c == [i \in 0 .. newsize - 1 |->
                    IF i < a.max THEN a.contents[i] ELSE Garbage]
<1>1. c \in [0 .. newsize - 1 -> Cells(V)]
  BY DEF IsArray, Cells
<1>2. a \in [contents : [0 .. a.max - 1 -> Cells(V)], end : Nat, max : Nat]
  BY DEF IsArray
<1>3. \A i \in 0 .. a.end - 1 : c[i] = a.contents[i]
  BY DEF IsArray
<1> HIDE DEF c
<1>4. /\ b.end = a.end /\ b.max = newsize /\ b.contents = c
      /\ b \in [contents : [0 .. newsize - 1 -> Cells(V)], end : Nat, max : Nat]
  <2>1. b = [a EXCEPT !.max = newsize, !.contents = c]
    BY DEF DArray_resize, c
  <2> HIDE DEF b
  <2> QED
    BY <1>1, <1>2, <2>1
<1> HIDE DEF b
<1>5. IsRoomy(b, V)
  BY <1>1, <1>2, <1>4 DEF IsRoomy, IsArray
<1>6. Elements(b) = Elements(a)
  BY <1>3, <1>4, SameElements DEF IsArray
<1> QED
  BY <1>4, <1>5, <1>6 DEF b

(* So does clearing slots that are not in use. *)
LEMMA ExpandOK ==
    ASSUME NEW V, NEW a, IsArray(a, V)
    PROVE  /\ IsRoomy(DArray_expand(a), V)
           /\ DArray_expand(a).end = a.end
           /\ Elements(DArray_expand(a)) = Elements(a)
<1> DEFINE b == DArray_resize(a, a.max + ExpandRate)
           cleared == a.max .. a.max + (ExpandRate + 1) \div PointerSize - 1
           c == [i \in DOMAIN b.contents |->
                    IF i \in cleared THEN NULL ELSE b.contents[i]]
           e == DArray_expand(a)
<1>1. a.max + ExpandRate \in Nat /\ a.end < a.max + ExpandRate
  BY ExpandRateAssumption DEF IsArray
<1>2. IsRoomy(b, V) /\ b.end = a.end /\ Elements(b) = Elements(a)
  BY <1>1, ResizeOK
<1>3. e = [b EXCEPT !.contents = c]
  BY DEF DArray_expand
<1>4. \A i \in cleared : i >= a.max
  BY DEF IsArray
<1> HIDE DEF b, cleared, e
<1>5. /\ b.end \in Nat /\ b.max \in Nat /\ b.end < b.max
      /\ b.contents \in [0 .. b.max - 1 -> Cells(V)]
      /\ b \in [contents : [0 .. b.max - 1 -> Cells(V)], end : Nat, max : Nat]
  BY <1>2 DEF IsRoomy, IsArray
<1>6. c \in [0 .. b.max - 1 -> Cells(V)]
  BY <1>5 DEF Cells
<1>7. \A i \in 0 .. b.end - 1 : c[i] = b.contents[i]
  BY <1>2, <1>4, <1>5 DEF IsArray
<1> HIDE DEF c
<1>8. e.end = b.end /\ e.max = b.max /\ e.contents = c
      /\ e \in [contents : [0 .. b.max - 1 -> Cells(V)], end : Nat, max : Nat]
  BY <1>3, <1>5, <1>6
<1>9. IsRoomy(e, V)
  BY <1>5, <1>6, <1>8 DEF IsRoomy, IsArray
<1>10. Elements(e) = Elements(b)
  BY <1>5, <1>7, <1>8, SameElements
<1> QED
  BY <1>2, <1>8, <1>9, <1>10 DEF e

(* A new array has room, and no elements. *)
LEMMA CreateOK ==
    ASSUME NEW V, NEW n \in Nat \ {0}
    PROVE  /\ IsRoomy(DArray_create(n), V)
           /\ Elements(DArray_create(n)) = <<>>
BY DEF DArray_create, IsRoomy, IsArray, Cells, Elements

(* DArray_push appends. *)
LEMMA PushOK ==
    ASSUME NEW V, NEW a, IsRoomy(a, V), NEW v \in V
    PROVE  /\ IsRoomy(DArray_push(a, v), V)
           /\ DArray_push(a, v).end = a.end + 1
           /\ Elements(DArray_push(a, v)) = Append(Elements(a), v)
<1> DEFINE b == [a EXCEPT !.contents[a.end] = v, !.end = @ + 1]
           c == [a.contents EXCEPT ![a.end] = v]
<1>1. /\ a.end \in Nat /\ a.max \in Nat /\ a.end < a.max
      /\ a.contents \in [0 .. a.max - 1 -> Cells(V)] /\ v \in Cells(V)
      /\ a \in [contents : [0 .. a.max - 1 -> Cells(V)], end : Nat, max : Nat]
  BY DEF IsRoomy, IsArray, Cells
<1>2. /\ b.end = a.end + 1 /\ b.max = a.max
      /\ b.contents = [a.contents EXCEPT ![a.end] = v]
      /\ b \in [contents : [0 .. a.max - 1 -> Cells(V)], end : Nat, max : Nat]
  <2>1. c \in [0 .. a.max - 1 -> Cells(V)]
    BY <1>1
  <2>2. b = [a EXCEPT !.contents = c, !.end = a.end + 1]
    BY <1>1
  <2>3. a.end + 1 \in Nat
    BY <1>1
  <2> HIDE DEF b, c
  <2>4. /\ b.end = a.end + 1 /\ b.max = a.max /\ b.contents = c
        /\ b \in [contents : [0 .. a.max - 1 -> Cells(V)], end : Nat, max : Nat]
    BY <1>1, <2>1, <2>2, <2>3
  <2> QED
    BY <2>4 DEF c
<1>3. DArray_push(a, v) = IF b.end >= b.max THEN DArray_expand(b) ELSE b
  BY DEF DArray_push
<1> HIDE DEF b
<1>4. IsArray(b, V)
  BY <1>1, <1>2 DEF IsArray
<1>5. Elements(b) = Append(Elements(a), v)
  <2>1. /\ Elements(a) \in Seq(Cells(V)) /\ Len(Elements(a)) = a.end
        /\ \A i \in 1 .. a.end : Elements(a)[i] = a.contents[i - 1]
    BY ElementsOK DEF IsRoomy
  <2>2. /\ Elements(b) \in Seq(Cells(V)) /\ Len(Elements(b)) = a.end + 1
        /\ \A i \in 1 .. a.end + 1 : Elements(b)[i] = b.contents[i - 1]
        /\ \A i \in 0 .. b.end - 1 : Elements(b)[i + 1] = b.contents[i]
    <3>1. /\ Elements(b) \in Seq(Cells(V)) /\ Len(Elements(b)) = b.end
          /\ \A i \in 1 .. b.end : Elements(b)[i] = b.contents[i - 1]
          /\ \A i \in 0 .. b.end - 1 : Elements(b)[i + 1] = b.contents[i]
      BY ONLY <1>4, ElementsOK
    <3>2. b.end = a.end + 1
      BY <1>2
    <3> QED
      BY ONLY <3>1, <3>2
  <2>3. \A i \in 1 .. a.end : b.contents[i - 1] = a.contents[i - 1]
    BY <1>1, <1>2
  <2>4. Elements(b)[a.end + 1] = v
    <3>1. a.end \in 0 .. b.end - 1
      BY <1>1, <1>2
    <3>2. b.contents[a.end] = v
      BY <1>1, <1>2
    <3> QED
      BY <2>2, <3>1, <3>2
  <2>5. /\ Append(Elements(a), v) \in Seq(Cells(V))
        /\ Len(Append(Elements(a), v)) = a.end + 1
        /\ \A i \in 1 .. a.end : Append(Elements(a), v)[i] = Elements(a)[i]
        /\ Append(Elements(a), v)[a.end + 1] = v
    BY <1>1, <2>1
  <2>6. \A i \in 1 .. a.end + 1 : i \in 1 .. a.end \/ i = a.end + 1
    BY <1>1
  <2>7. ASSUME NEW i \in 1 .. a.end + 1
        PROVE  Elements(b)[i] = Append(Elements(a), v)[i]
    <3>1. CASE i \in 1 .. a.end
      BY <2>1, <2>2, <2>3, <2>5, <3>1
    <3>2. CASE i = a.end + 1
      BY <2>4, <2>5, <3>2
    <3> QED
      BY <2>6, <3>1, <3>2
  <2> QED
    BY <2>2, <2>5, <2>7, SeqEqual
<1>6. CASE b.end >= b.max
  BY <1>2, <1>3, <1>4, <1>5, <1>6, ExpandOK
<1>7. CASE ~(b.end >= b.max)
  BY <1>1, <1>2, <1>3, <1>4, <1>5, <1>7 DEF IsRoomy
<1> QED
  BY <1>6, <1>7

(* DArray_remove crosses an element out. *)
LEMMA RemoveOK ==
    ASSUME NEW V, NEW a, IsRoomy(a, V), NEW i \in 0 .. a.end - 1
    PROVE  /\ IsRoomy(DArray_remove(a, i), V)
           /\ DArray_remove(a, i).end = a.end
           /\ Elements(DArray_remove(a, i))
                = [Elements(a) EXCEPT ![i + 1] = NULL]
<1> DEFINE b == DArray_remove(a, i)
<1>1. /\ a.end \in Nat /\ a.max \in Nat /\ a.end < a.max
      /\ a.contents \in [0 .. a.max - 1 -> Cells(V)] /\ NULL \in Cells(V)
      /\ a \in [contents : [0 .. a.max - 1 -> Cells(V)], end : Nat, max : Nat]
  BY DEF IsRoomy, IsArray, Cells
<1>2. /\ b.end = a.end /\ b.max = a.max
      /\ b.contents = [a.contents EXCEPT ![i] = NULL]
      /\ b \in [contents : [0 .. a.max - 1 -> Cells(V)], end : Nat, max : Nat]
  BY <1>1 DEF DArray_remove
<1> HIDE DEF b
<1>3. IsRoomy(b, V)
  BY <1>1, <1>2 DEF IsRoomy, IsArray
<1>4. \A k \in 1 .. a.end : b.contents[k - 1]
         = IF k = i + 1 THEN NULL ELSE a.contents[k - 1]
  BY <1>1, <1>2
<1>5. Elements(b) = [Elements(a) EXCEPT ![i + 1] = NULL]
  BY <1>1, <1>2, <1>4 DEF Elements
<1> QED
  BY <1>2, <1>3, <1>5 DEF b

(* DArray_pop takes the last element off. *)
LEMMA PopOK ==
    ASSUME NEW V, NEW a, IsRoomy(a, V)
    PROVE  /\ IsRoomy(DArray_pop(a).array, V)
           /\ a.end = 0 => DArray_pop(a) = [array |-> a, el |-> NULL]
           /\ a.end # 0 =>
                /\ DArray_pop(a).array.end = a.end - 1
                /\ DArray_pop(a).el = Elements(a)[a.end]
                /\ Elements(DArray_pop(a).array)
                     = [i \in 1 .. a.end - 1 |-> Elements(a)[i]]
<1>1. /\ a.end \in Nat /\ a.max \in Nat /\ a.end < a.max
      /\ a.contents \in [0 .. a.max - 1 -> Cells(V)]
  BY DEF IsRoomy, IsArray
<1>2. CASE a.end = 0
  BY <1>2 DEF DArray_pop
<1>3. CASE a.end # 0
  <2> DEFINE r == DArray_remove(a, a.end - 1)
             b == [r EXCEPT !.end = @ - 1]
             p == DArray_pop(a)
  <2>1. a.end - 1 \in 0 .. a.end - 1 /\ ~(a.end - 1 < 0) /\ a.end - 1 \in Nat
    BY <1>1, <1>3
  <2>2. /\ IsRoomy(r, V) /\ r.end = a.end
        /\ Elements(r) = [Elements(a) EXCEPT ![a.end - 1 + 1] = NULL]
    BY <2>1, RemoveOK
  <2>3. /\ p.array = IF b.end > ExpandRate /\ b.end % ExpandRate # 0
                     THEN DArray_contract(b) ELSE b
        /\ p.el = a.contents[a.end - 1]
    BY <2>1 DEF DArray_pop
  <2> HIDE DEF r, p
  <2>4. /\ r.max \in Nat /\ r.contents \in [0 .. r.max - 1 -> Cells(V)]
        /\ r \in [contents : [0 .. r.max - 1 -> Cells(V)], end : Nat, max : Nat]
        /\ r.end < r.max
    BY <2>2 DEF IsRoomy, IsArray
  <2>5. /\ b.end = a.end - 1 /\ b.max = r.max /\ b.contents = r.contents
        /\ b \in [contents : [0 .. r.max - 1 -> Cells(V)], end : Nat, max : Nat]
    BY <2>1, <2>2, <2>4
  <2> HIDE DEF b
  <2>6. IsRoomy(b, V)
    BY <2>1, <2>2, <2>4, <2>5, <1>1 DEF IsRoomy, IsArray
  <2>7. Elements(b) = [i \in 1 .. a.end - 1 |-> Elements(a)[i]]
    <3>1. \A i \in 1 .. a.end : Elements(r)[i] = r.contents[i - 1]
      BY <1>1, <2>2 DEF Elements
    <3>2. Elements(a) = [i \in 1 .. a.end |-> a.contents[i - 1]]
      BY DEF Elements
    <3>3. \A i \in 1 .. a.end - 1 : Elements(r)[i] = Elements(a)[i]
      BY <1>1, <2>2, <3>2
    <3>4. Elements(b) = [i \in 1 .. a.end - 1 |-> b.contents[i - 1]]
      BY <2>5 DEF Elements
    <3>5. \A i \in 1 .. a.end - 1 : b.contents[i - 1] = Elements(a)[i]
      BY <1>1, <2>5, <3>1, <3>3
    <3> QED
      BY <3>4, <3>5
  <2>8. p.el = Elements(a)[a.end]
    BY <1>1, <1>3, <2>3 DEF Elements
  <2> DEFINE size == (IF b.end < ExpandRate THEN ExpandRate ELSE b.end) + 1
  <2>9. size \in Nat /\ b.end < size
    BY <2>1, <2>5, ExpandRateAssumption
  <2>10. /\ IsRoomy(DArray_contract(b), V) /\ DArray_contract(b).end = b.end
         /\ Elements(DArray_contract(b)) = Elements(b)
    <3>1. DArray_contract(b) = DArray_resize(b, size)
      BY DEF DArray_contract
    <3> HIDE DEF size
    <3> QED
      BY <2>6, <2>9, <3>1, ResizeOK DEF IsRoomy
  <2>11. /\ IsRoomy(p.array, V) /\ p.array.end = b.end
         /\ Elements(p.array) = Elements(b)
    BY <2>3, <2>6, <2>10
  <2> QED
    BY <1>3, <2>5, <2>7, <2>8, <2>11 DEF p
<1> QED
  <2>1. CASE a.end = 0
    BY <1>2, <2>1
  <2> QED
    BY <1>3, <2>1

-----------------------------------------------------------------------------
(* DArray_compact.  Closing the gap at i and popping drops one element. *)
Dropped(a, i) == DArray_pop(ShiftLeft(a, i)).array

(* The elements after the gap move down by one. *)
LEMMA DroppedOK ==
    ASSUME NEW V, NEW a, IsRoomy(a, V), NEW i \in 0 .. a.end - 1
    PROVE  /\ IsRoomy(Dropped(a, i), V)
           /\ Dropped(a, i).end = a.end - 1
           /\ \A j \in 1 .. a.end - 1 :
                 Elements(Dropped(a, i))[j]
                   = IF j <= i THEN Elements(a)[j] ELSE Elements(a)[j + 1]
<1> DEFINE b == ShiftLeft(a, i)
           c == [j \in DOMAIN a.contents |->
                    IF j \in i .. a.end - 2 THEN a.contents[j + 1]
                    ELSE a.contents[j]]
<1>1. /\ a.end \in Nat /\ a.max \in Nat /\ a.end < a.max
      /\ a.contents \in [0 .. a.max - 1 -> Cells(V)]
      /\ a \in [contents : [0 .. a.max - 1 -> Cells(V)], end : Nat, max : Nat]
  BY DEF IsRoomy, IsArray
<1>2. c \in [0 .. a.max - 1 -> Cells(V)]
  BY <1>1
<1>3. \A j \in 0 .. a.end - 2 :
         c[j] = IF j < i THEN a.contents[j] ELSE a.contents[j + 1]
  BY <1>1
<1>4. b = [a EXCEPT !.contents = c]
  BY DEF ShiftLeft
<1> HIDE DEF b, c
<1>5. /\ b.end = a.end /\ b.max = a.max /\ b.contents = c
      /\ b \in [contents : [0 .. a.max - 1 -> Cells(V)], end : Nat, max : Nat]
  BY <1>1, <1>2, <1>4
<1>6. IsRoomy(b, V)
  BY <1>1, <1>5 DEF IsRoomy, IsArray
<1>7. \A j \in 1 .. a.end - 1 : Elements(b)[j]
         = IF j <= i THEN Elements(a)[j] ELSE Elements(a)[j + 1]
  <2> SUFFICES ASSUME NEW j \in 1 .. a.end - 1
               PROVE  Elements(b)[j]
                        = IF j <= i THEN Elements(a)[j] ELSE Elements(a)[j + 1]
    OBVIOUS
  <2>1. j - 1 \in 0 .. a.end - 2 /\ j \in 1 .. a.end /\ j + 1 \in 1 .. a.end
        /\ (j + 1) - 1 = j /\ (j - 1) + 1 = j /\ (j - 1 < i <=> j <= i)
    BY <1>1
  <2>2. Elements(b)[j] = c[j - 1]
    BY <1>5, <2>1 DEF Elements
  <2>3. Elements(a)[j] = a.contents[j - 1] /\ Elements(a)[j + 1] = a.contents[j]
    BY <2>1 DEF Elements
  <2>4. c[j - 1] = IF j - 1 < i THEN a.contents[j - 1] ELSE a.contents[j - 1 + 1]
    BY <1>3, <2>1
  <2> QED
    BY <2>1, <2>2, <2>3, <2>4
<1>8. a.end # 0
  BY <1>1
<1>9. /\ IsRoomy(Dropped(a, i), V) /\ Dropped(a, i).end = a.end - 1
      /\ Elements(Dropped(a, i)) = [j \in 1 .. a.end - 1 |-> Elements(b)[j]]
  BY <1>5, <1>6, <1>8, PopOK DEF Dropped, b
<1> QED
  BY <1>7, <1>9

(* The loop of DArray_compact, as the sequence of its states. *)
Arrays(V) == {a \in UNION {[contents : [0 .. m - 1 -> Cells(V)], end : Nat,
                            max : Nat] : m \in Nat} : IsRoomy(a, V)}

(* The set of roomy arrays. *)
LEMMA ArraysOK ==
    ASSUME NEW V, NEW a
    PROVE  a \in Arrays(V) <=> IsRoomy(a, V)
<1>1. IsRoomy(a, V) =>
        /\ a.max \in Nat
        /\ a \in [contents : [0 .. a.max - 1 -> Cells(V)], end : Nat, max : Nat]
  BY DEF IsRoomy, IsArray
<1> QED
  BY <1>1 DEF Arrays

LoopStates(V) == [array : Arrays(V), i : Nat]

(* A turn of the loop skips an element or drops a NULL. *)
LEMMA CompactAtOK ==
    ASSUME NEW V, NEW s \in LoopStates(V)
    PROVE  /\ CompactAt(s) \in LoopStates(V)
           /\ s.i < s.array.end =>
                /\ s.i \in 0 .. s.array.end - 1
                /\ Elements(s.array)[s.i + 1] # NULL =>
                     CompactAt(s) = [array |-> s.array, i |-> s.i + 1]
                /\ Elements(s.array)[s.i + 1] = NULL =>
                     CompactAt(s) = [array |-> Dropped(s.array, s.i), i |-> s.i]
<1>1. s.i \in Nat /\ IsRoomy(s.array, V) /\ s.array \in Arrays(V)
  BY ArraysOK DEF LoopStates
<1>2. /\ s.array.end \in Nat /\ s.array.max \in Nat /\ s.array.end < s.array.max
  BY <1>1 DEF IsRoomy, IsArray
<1>3. CASE s.i >= s.array.end
  BY <1>1, <1>2, <1>3 DEF CompactAt
<1>4. CASE s.i < s.array.end
  <2>1. s.i \in 0 .. s.array.end - 1 /\ ~(s.i >= s.array.end)
    BY <1>1, <1>2, <1>4
  <2>2. DArray_get(s.array, s.i) = Elements(s.array)[s.i + 1]
    BY <1>1, <1>2, <1>4, <2>1, ElementsOK DEF DArray_get, IsRoomy
  <2>3. Dropped(s.array, s.i) \in Arrays(V)
    BY <1>1, <2>1, DroppedOK, ArraysOK
  <2>4. CASE Elements(s.array)[s.i + 1] # NULL
    <3>1. CompactAt(s) = [s EXCEPT !.i = @ + 1]
      BY <2>1, <2>2, <2>4 DEF CompactAt
    <3> QED
      BY <1>1, <2>1, <2>4, <3>1 DEF LoopStates
  <2>5. CASE Elements(s.array)[s.i + 1] = NULL
    <3>1. CompactAt(s) = [s EXCEPT !.array = Dropped(s.array, s.i)]
      BY <2>1, <2>2, <2>5 DEF CompactAt, Dropped
    <3> QED
      BY <1>1, <2>1, <2>3, <2>5, <3>1 DEF LoopStates
  <2> QED
    BY <2>4, <2>5
<1> QED
  BY <1>1, <1>2, <1>3, <1>4

(* DArray_compact is the last state of the loop. *)
LEMMA CompactTrace ==
    ASSUME NEW V, NEW a, IsRoomy(a, V)
    PROVE  \E g \in [0 .. a.end -> LoopStates(V)] :
              /\ g[0] = [array |-> a, i |-> 0]
              /\ \A k \in 0 .. a.end - 1 : g[k + 1] = CompactAt(g[k])
              /\ DArray_compact(a) = g[a.end].array
<1> DEFINE n == a.end
           base == [array |-> a, i |-> 0]
           Acc == LoopStates(V)
           Step == [kc \in (1 .. n) \X Acc |-> CompactAt(kc[2])]
           Loop(h) == [s \in SUBSET (1 .. n) |->
                          IF s = {} THEN base ELSE CompactAt(h[s \ {Max(s)}])]
           h == CHOOSE f : f = Loop(f)
<1>1. n \in Nat /\ base \in Acc
  BY ArraysOK DEF IsRoomy, IsArray, LoopStates
<1>2. Step \in [(1 .. n) \X Acc -> Acc]
  <2>1. \A s \in Acc : CompactAt(s) \in Acc
    BY CompactAtOK
  <2> HIDE DEF Acc, n
  <2> QED
    BY <2>1
<1>3. DArray_compact(a) = h[1 .. n].array
  BY <1>1 DEF DArray_compact, FoldLeft, MapThenFoldSet
<1>4. h = Loop(h)
  <2>1. PICK f \in [SUBSET (1 .. n) -> Acc] : IsFold(f, n, base, Step)
    <3> HIDE DEF n, base, Acc, Step
    <3> QED
      BY <1>1, <1>2, FoldExists
  <2>2. ASSUME NEW s \in SUBSET (1 .. n), s # {}
        PROVE  Step[<<Max(s), f[s \ {Max(s)}]>>] = CompactAt(f[s \ {Max(s)}])
    <3> HIDE DEF n, Acc
    <3>1. Max(s) \in 1 .. n
      BY <1>1, <2>2, MaxOfIndexes
    <3>2. s \ {Max(s)} \in SUBSET (1 .. n)
      OBVIOUS
    <3> QED
      BY <2>1, <3>1, <3>2
  <2>3. f = Loop(f)
    <3> HIDE DEF n, base, Acc, Step
    <3> QED
      BY <2>1, <2>2 DEF IsFold
  <2> HIDE DEF Loop
  <2> QED
    BY <2>3
<1>5. \A s \in SUBSET (1 .. n) :
         h[s] = IF s = {} THEN base ELSE CompactAt(h[s \ {Max(s)}])
  <2> HIDE DEF h, n, base
  <2> QED
    BY <1>4
<1> HIDE DEF h, base, Acc
<1>6. h[1 .. 0] = base /\ \A k \in 0 .. n - 1 :
         h[1 .. k + 1] = CompactAt(h[1 .. k])
  <2>1. h[1 .. 0] = base
    BY <1>5
  <2>2. ASSUME NEW k \in 0 .. n - 1 PROVE h[1 .. k + 1] = CompactAt(h[1 .. k])
    <3> HIDE DEF n, Loop
    <3>1. /\ 1 .. k + 1 \in SUBSET (1 .. n) /\ 1 .. k + 1 # {}
          /\ Max(1 .. k + 1) = k + 1 /\ (1 .. k + 1) \ {k + 1} = 1 .. k
      BY <1>1, FoldOrder
    <3> QED
      BY <1>5, <3>1
  <2> QED
    BY <2>1, <2>2
<1> DEFINE Inv == {k \in 0 .. n : h[1 .. k] \in Acc}
<1>7. 0 .. n \subseteq Inv
  <2>1. 0 \in Inv
    BY <1>1, <1>6
  <2>2. \A k \in 0 .. n - 1 : k \in Inv => k + 1 \in Inv
    <3>1. \A s \in Acc : CompactAt(s) \in Acc
      BY CompactAtOK DEF Acc
    <3> HIDE DEF n
    <3> QED
      BY <1>1, <1>6, <3>1
  <2> HIDE DEF Inv, n
  <2> QED
    BY <1>1, <2>1, <2>2, BoundedInduction
<1> DEFINE g == [k \in 0 .. n |-> h[1 .. k]]
<1>8. g \in [0 .. n -> Acc]
  BY <1>7
<1>9. g[0] = base /\ g[n] = h[1 .. n]
  BY <1>1, <1>6
<1>10. \A k \in 0 .. n - 1 : g[k + 1] = CompactAt(g[k])
  <2> HIDE DEF n
  <2> QED
    BY <1>1, <1>6
<1> HIDE DEF g
<1> QED
  BY <1>3, <1>8, <1>9, <1>10 DEF base, Acc

(* What is left of a sequence when its crossed out elements are swept      *)
(* away, element by element.                                               *)
LEMMA KeptTrace ==
    ASSUME NEW S, NEW e \in Seq(S)
    PROVE  \E f \in [0 .. Len(e) -> Seq(S)] :
              /\ f[0] = <<>>
              /\ \A k \in 0 .. Len(e) - 1 :
                    f[k + 1] = IF e[k + 1] = NULL THEN f[k]
                               ELSE Append(f[k], e[k + 1])
              /\ Abstract!Kept(e) = f[Len(e)]
<1> DEFINE n == Len(e)
           Acc == Seq(S)
           Op(c, v) == IF v = NULL THEN c ELSE Append(c, v)
           Step == [kc \in (1 .. n) \X Acc |-> Op(kc[2], e[kc[1]])]
           Loop(h) == [s \in SUBSET (1 .. n) |->
                          IF s = {} THEN <<>> ELSE Op(h[s \ {Max(s)}], e[Max(s)])]
           h == CHOOSE f : f = Loop(f)
<1>1. n \in Nat /\ <<>> \in Acc /\ DOMAIN e = 1 .. n /\ \A i \in 1 .. n : e[i] \in S
  OBVIOUS
<1>2. \A i \in 1 .. n, c \in Acc : Op(c, e[i]) \in Acc
  BY <1>1
<1>3. Step \in [(1 .. n) \X Acc -> Acc]
  <2> HIDE DEF Acc, n, Op
  <2> QED
    BY <1>2
<1>4. Abstract!Kept(e) = h[1 .. n]
  BY <1>1 DEF Abstract!Kept, Abstract!FoldLeft, Abstract!MapThenFoldSet, Abstract!Max, Max
<1> HIDE DEF Op
<1>5. h = Loop(h)
  <2>1. PICK f \in [SUBSET (1 .. n) -> Acc] : IsFold(f, n, <<>>, Step)
    <3> HIDE DEF n, Acc, Step
    <3> QED
      BY <1>1, <1>3, FoldExists
  <2>2. ASSUME NEW s \in SUBSET (1 .. n), s # {}
        PROVE  Step[<<Max(s), f[s \ {Max(s)}]>>] = Op(f[s \ {Max(s)}], e[Max(s)])
    <3> HIDE DEF n, Acc
    <3>1. Max(s) \in 1 .. n
      BY <1>1, <2>2, MaxOfIndexes
    <3>2. s \ {Max(s)} \in SUBSET (1 .. n)
      OBVIOUS
    <3> QED
      BY <2>1, <3>1, <3>2
  <2>3. f = Loop(f)
    <3> HIDE DEF n, Acc, Step
    <3> QED
      BY <2>1, <2>2 DEF IsFold
  <2> HIDE DEF Loop
  <2> QED
    BY <2>3
<1>6. \A s \in SUBSET (1 .. n) :
         h[s] = IF s = {} THEN <<>> ELSE Op(h[s \ {Max(s)}], e[Max(s)])
  <2> HIDE DEF h, n
  <2> QED
    BY <1>5
<1> HIDE DEF h
<1> HIDE DEF n, Loop, Step
<1>7. h[1 .. 0] = <<>>
  <2>1. 1 .. 0 = {} /\ {} \in SUBSET (1 .. n)
    OBVIOUS
  <2> QED
    BY <1>6, <2>1
<1>8. ASSUME NEW k \in 0 .. n - 1
      PROVE  h[1 .. k + 1] = Op(h[1 .. k], e[k + 1])
  <2>1. /\ 1 .. k + 1 \in SUBSET (1 .. n) /\ 1 .. k + 1 # {}
        /\ Max(1 .. k + 1) = k + 1 /\ (1 .. k + 1) \ {k + 1} = 1 .. k
    BY <1>1, FoldOrder
  <2> QED
    BY <1>6, <2>1
<1> DEFINE Inv == {k \in 0 .. n : h[1 .. k] \in Acc}
<1>9. 0 .. n \subseteq Inv
  <2>1. 0 \in Inv
    <3>1. 0 \in 0 .. n /\ h[1 .. 0] \in Acc
      BY <1>1, <1>7
    <3> HIDE DEF Acc
    <3> QED
      BY <3>1
  <2>2. \A k \in 0 .. n - 1 : k \in Inv => k + 1 \in Inv
    <3> HIDE DEF n, Acc
    <3>1. \A k \in 0 .. n - 1 : k + 1 \in 1 .. n /\ k + 1 \in 0 .. n
      BY <1>1
    <3> QED
      BY <1>2, <1>8, <3>1
  <2> HIDE DEF Inv, n
  <2> QED
    BY <1>1, <2>1, <2>2, BoundedInduction
<1> DEFINE f == [k \in 0 .. n |-> h[1 .. k]]
<1>10. f \in [0 .. n -> Acc]
  BY <1>9
<1>11. f[0] = <<>> /\ f[n] = h[1 .. n]
  BY <1>1, <1>7
<1>12. \A k \in 0 .. n - 1 : f[k + 1] = Op(f[k], e[k + 1])
  <2> HIDE DEF n
  <2> QED
    BY <1>1, <1>8
<1> HIDE DEF f
<1> QED
  BY <1>4, <1>10, <1>11, <1>12 DEF Op, n

(* DArray_compact sweeps the elements away that have been crossed out.     *)
(* After k turns, the first k elements have been dealt with: those kept    *)
(* are at the front of the array, and the others follow.                   *)
LEMMA CompactOK ==
    ASSUME NEW V, NEW a, IsRoomy(a, V)
    PROVE  /\ IsRoomy(DArray_compact(a), V)
           /\ Elements(DArray_compact(a)) = Abstract!Kept(Elements(a))
<1> DEFINE e == Elements(a)
           n == a.end
<1>1. n \in Nat /\ e \in Seq(Cells(V)) /\ Len(e) = n
  BY ElementsOK DEF IsRoomy, IsArray
<1>2. PICK g \in [0 .. n -> LoopStates(V)] :
         /\ g[0] = [array |-> a, i |-> 0]
         /\ \A k \in 0 .. n - 1 : g[k + 1] = CompactAt(g[k])
         /\ DArray_compact(a) = g[n].array
  BY CompactTrace
<1> HIDE DEF e
<1>3. PICK f \in [0 .. n -> Seq(Cells(V))] :
         /\ f[0] = <<>>
         /\ \A k \in 0 .. n - 1 : f[k + 1] = IF e[k + 1] = NULL THEN f[k]
                                             ELSE Append(f[k], e[k + 1])
         /\ Abstract!Kept(e) = f[n]
  BY <1>1, KeptTrace
<1> DEFINE Good(k, b, i) ==
              /\ i = Len(f[k]) /\ b.end = i + (n - k)
              /\ \A j \in 1 .. i : Elements(b)[j] = f[k][j]
              /\ \A j \in 1 .. n - k : Elements(b)[i + j] = e[k + j]
           Inv == {k \in 0 .. n : Good(k, g[k].array, g[k].i)}
<1>4. 0 \in Inv
  <2>1. g[0].array = a /\ g[0].i = 0 /\ Len(f[0]) = 0
    BY <1>2, <1>3
  <2>2. \A j \in 1 .. n : 0 + j = j
    BY <1>1
  <2>3. Good(0, a, 0)
    BY <1>1, <2>1, <2>2 DEF e
  <2> HIDE DEF Good
  <2> QED
    BY <1>1, <2>1, <2>3
<1> HIDE DEF n
<1>5. ASSUME NEW k \in 0 .. n - 1, k \in Inv PROVE k + 1 \in Inv
  <2> DEFINE b == g[k].array
             i == g[k].i
  <2>1. /\ k \in 0 .. n /\ k + 1 \in 0 .. n /\ n - k \in Nat /\ n - k >= 1
        /\ n - (k + 1) = (n - k) - 1 /\ n - (k + 1) \in Nat /\ k + 1 \in 1 .. n
    BY <1>1
  <2>2. g[k] \in LoopStates(V) /\ g[k + 1] = CompactAt(g[k]) /\ f[k] \in Seq(Cells(V))
    BY <1>2, <1>3, <2>1
  <2>3. Good(k, b, i)
    BY <1>5
  <2>4. i \in Nat /\ IsRoomy(b, V)
    BY <2>2, ArraysOK DEF LoopStates
  <2>5. b.end \in Nat /\ i < b.end
    BY <2>1, <2>3, <2>4
  <2>6. Elements(b)[i + 1] = e[k + 1]
    BY <2>1, <2>3
  <2>7. e[k + 1] \in Cells(V)
    BY <1>1, <2>1
  <2>8. CASE e[k + 1] # NULL
    <3>1. g[k + 1].array = b /\ g[k + 1].i = i + 1
      BY <2>2, <2>5, <2>6, <2>8, CompactAtOK
    <3>2. f[k + 1] = Append(f[k], e[k + 1])
      BY <1>3, <2>8
    <3>3. /\ Len(f[k + 1]) = i + 1 /\ f[k + 1][i + 1] = e[k + 1]
          /\ \A j \in 1 .. i : f[k + 1][j] = f[k][j]
      BY <2>2, <2>3, <2>7, <3>2
    <3>4. b.end = (i + 1) + (n - (k + 1))
      BY <2>1, <2>3, <2>4
    <3>5. \A j \in 1 .. i + 1 : Elements(b)[j] = f[k + 1][j]
      <4>1. \A j \in 1 .. i + 1 : j \in 1 .. i \/ j = i + 1
        BY <2>4
      <4> QED
        BY <2>3, <2>6, <3>3, <4>1
    <3>6. ASSUME NEW j \in 1 .. n - (k + 1)
          PROVE  Elements(b)[(i + 1) + j] = e[(k + 1) + j]
      <4>1. /\ j + 1 \in 1 .. n - k /\ i + (j + 1) = (i + 1) + j
            /\ k + (j + 1) = (k + 1) + j
        <5> HIDE DEF i
        <5> QED
          BY <1>1, <2>1, <2>4
      <4>2. Elements(b)[i + (j + 1)] = e[k + (j + 1)]
        BY <2>3, <4>1
      <4> QED
        BY <4>1, <4>2
    <3>7. Good(k + 1, b, i + 1)
      BY <3>3, <3>4, <3>5, <3>6
    <3> HIDE DEF Good, b, i
    <3> QED
      BY <2>1, <3>1, <3>7
  <2>9. CASE e[k + 1] = NULL
    <3> DEFINE d == Dropped(b, i)
    <3>1. g[k + 1].array = d /\ g[k + 1].i = i /\ i \in 0 .. b.end - 1
      BY <2>2, <2>5, <2>6, <2>9, CompactAtOK
    <3>2. f[k + 1] = f[k]
      BY <1>3, <2>9
    <3>3. /\ d.end = b.end - 1
          /\ \A j \in 1 .. b.end - 1 :
                Elements(d)[j] = IF j <= i THEN Elements(b)[j] ELSE Elements(b)[j + 1]
      BY <2>4, <3>1, DroppedOK
    <3> HIDE DEF d
    <3>4. d.end = i + (n - (k + 1))
      BY <2>1, <2>3, <2>4, <2>5, <3>3
    <3>5. \A j \in 1 .. i : Elements(d)[j] = f[k + 1][j]
      <4>1. \A j \in 1 .. i : j \in 1 .. b.end - 1 /\ j <= i
        BY <2>4, <2>5
      <4> QED
        BY <2>3, <3>2, <3>3, <4>1
    <3>6. ASSUME NEW j \in 1 .. n - (k + 1)
          PROVE  Elements(d)[i + j] = e[(k + 1) + j]
      <4>1. /\ j + 1 \in 1 .. n - k /\ i + (j + 1) = (i + j) + 1
            /\ k + (j + 1) = (k + 1) + j /\ ~(i + j <= i)
            /\ i + j \in 1 .. b.end - 1
        BY <2>1, <2>3, <2>4
      <4>2. Elements(b)[i + (j + 1)] = e[k + (j + 1)]
        BY <2>3, <4>1
      <4> QED
        BY <3>3, <4>1, <4>2
    <3>7. Good(k + 1, d, i)
      BY <2>3, <3>2, <3>4, <3>5, <3>6
    <3> HIDE DEF Good, i
    <3> QED
      BY <2>1, <3>1, <3>7
  <2> QED
    BY <2>8, <2>9
<1>6. n \in Inv
  <2> HIDE DEF Inv
  <2>1. 0 .. n \subseteq Inv
    BY <1>1, <1>4, <1>5, BoundedInduction
  <2> QED
    BY <1>1, <2>1
<1> DEFINE b == g[n].array
<1>7. IsRoomy(b, V) /\ f[n] \in Seq(Cells(V))
  BY <1>1, <1>2, <1>3, ArraysOK DEF LoopStates
<1>8. /\ g[n].i = Len(f[n]) /\ b.end = g[n].i + (n - n)
      /\ \A j \in 1 .. g[n].i : Elements(b)[j] = f[n][j]
  BY <1>6
<1>9. Len(f[n]) \in Nat /\ b.end = Len(f[n])
  BY <1>1, <1>7, <1>8
<1> HIDE DEF b
<1>10. Elements(b) \in Seq(Cells(V)) /\ Len(Elements(b)) = b.end
  BY <1>7, ElementsOK DEF IsRoomy
<1>11. Elements(b) = f[n]
  BY <1>7, <1>8, <1>9, <1>10, SeqEqual
<1> QED
  BY <1>2, <1>3, <1>7, <1>11 DEF b, e

-----------------------------------------------------------------------------
(* The array in use. *)
LEMMA ArrayInductive ==
    ArrayBehaviour => []IsRoomy(array, Values)
<1>1. ArrayInit => IsRoomy(array, Values)
  BY InitialMaxAssumption, CreateOK DEF ArrayInit
<1>2. IsRoomy(array, Values) /\ [ArrayNext]_arrayVars => IsRoomy(array, Values)'
  <2> SUFFICES ASSUME IsRoomy(array, Values), [ArrayNext]_arrayVars
               PROVE  IsRoomy(array', Values)
    OBVIOUS
  <2>1. CASE \E v \in Values : ArrayPush(v)
    BY <2>1, PushOK DEF ArrayPush
  <2>2. CASE ArrayPop
    BY <2>2, PopOK DEF ArrayPop
  <2>3. CASE \E i \in 0 .. array.end - 1 : ArrayRemove(i)
    BY <2>3, RemoveOK DEF ArrayRemove
  <2>4. CASE ArrayCompact
    BY <2>4, CompactOK DEF ArrayCompact
  <2>5. CASE UNCHANGED arrayVars
    BY <2>5 DEF arrayVars
  <2> QED
    BY <2>1, <2>2, <2>3, <2>4, <2>5 DEF ArrayNext
<1> QED
  BY <1>1, <1>2, PTL DEF ArrayBehaviour

(* There is always a slot for the element that DArray_push writes before   *)
(* it looks whether the array must grow.                                   *)
THEOREM PushIsInside == ArrayBehaviour => []PushStaysInside
<1>1. IsRoomy(array, Values) => PushStaysInside
  BY DEF IsRoomy, IsArray, PushStaysInside, HasRoom
<1> QED
  BY <1>1, ArrayInductive, PTL

(* Resizing, the slots that are not cleared, and compacting by shifts and  *)
(* pops implement a sequence, whatever the rate of growth is.              *)
THEOREM ArrayIsASequence == ArrayBehaviour => IsASequence
<1>1. ArrayInit => Abstract!Init
  BY InitialMaxAssumption, CreateOK DEF ArrayInit, Abstract!Init
<1>2. IsRoomy(array, Values) /\ [ArrayNext]_arrayVars
        => [Abstract!Next]_(Abstract!arrayVars)
  <2> SUFFICES ASSUME IsRoomy(array, Values), [ArrayNext]_arrayVars
               PROVE  Abstract!Next \/ UNCHANGED Abstract!arrayVars
    OBVIOUS
  <2> DEFINE e == Elements(array)
  <2>1. /\ e \in Seq(Cells(Values)) /\ Len(e) = array.end /\ array.end \in Nat
    BY ElementsOK DEF IsRoomy, IsArray
  <2>2. ASSUME NEW v \in Values, ArrayPush(v) PROVE Abstract!Push(v)
    BY <2>2, PushOK DEF ArrayPush, Abstract!Push
  <2>3. CASE ArrayPop
    <3>1. /\ call' = <<"pop">> /\ popped' = DArray_pop(array).el
          /\ array' = DArray_pop(array).array
      BY <2>3 DEF ArrayPop
    <3>2. CASE array.end = 0
      <4>1. e = <<>>
        BY <2>1, <3>2
      <4>2. DArray_pop(array) = [array |-> array, el |-> NULL]
        BY <3>2, PopOK
      <4> QED
        BY <3>1, <4>1, <4>2 DEF Abstract!Next, Abstract!Pop
    <3>3. CASE array.end # 0
      <4>1. e # <<>>
        BY <2>1, <3>3
      <4>2. /\ popped' = e[Len(e)]
            /\ Elements(array') = [i \in 1 .. Len(e) - 1 |-> e[i]]
        BY <2>1, <3>1, <3>3, PopOK
      <4>3. SubSeq(e, 1, Len(e) - 1) = [i \in 1 .. Len(e) - 1 |-> e[i]]
        <5> DEFINE m == Len(e) - 1
        <5>1. m \in Nat
          BY <2>1, <3>3
        <5>2. \A i \in 1 .. m : e[i] \in Cells(Values)
          BY <2>1
        <5> HIDE DEF e, m
        <5>3. SubSeq(e, 1, m) = [i \in 1 .. m |-> e[i]]
          BY <2>1, <5>1, <5>2
        <5> QED
          BY <5>3 DEF m
      <4> HIDE DEF e
      <4>4. Elements(array') = SubSeq(e, 1, Len(e) - 1)
        BY <4>2, <4>3
      <4> QED
        BY <3>1, <4>1, <4>2, <4>4 DEF Abstract!Next, Abstract!Pop, e
    <3> QED
      BY <3>2, <3>3
  <2>4. ASSUME NEW i \in 0 .. array.end - 1, ArrayRemove(i)
        PROVE  i + 1 \in 1 .. Len(e) /\ Abstract!CrossOut(i + 1)
    <3>1. i + 1 \in 1 .. Len(e) /\ (i + 1) - 1 = i
      BY <2>1
    <3>2. Elements(array') = [e EXCEPT ![i + 1] = NULL]
      BY <2>4, RemoveOK DEF ArrayRemove
    <3> QED
      BY <2>4, <3>1, <3>2 DEF ArrayRemove, Abstract!CrossOut
  <2>5. CASE ArrayCompact
    BY <2>5, CompactOK DEF ArrayCompact, Abstract!Next, Abstract!Sweep
  <2>6. CASE UNCHANGED arrayVars
    BY <2>6 DEF arrayVars, Abstract!arrayVars
  <2>7. CASE \E v \in Values : ArrayPush(v)
    BY <2>2, <2>7 DEF Abstract!Next
  <2>8. CASE \E i \in 0 .. array.end - 1 : ArrayRemove(i)
    BY <2>4, <2>8 DEF Abstract!Next
  <2> QED
    BY <2>3, <2>5, <2>6, <2>7, <2>8 DEF ArrayNext
<1> QED
  BY <1>1, <1>2, ArrayInductive, PTL
  DEF ArrayBehaviour, IsASequence, Abstract!Spec

-----------------------------------------------------------------------------
(* The hash table. *)
HNodes == {HashmapNode(k, d) : k \in Keys, d \in Data}

(* A bucket whose nodes belong there and have different keys. *)
IsBucket(b, x) ==
    /\ IsRoomy(x, HNodes)
    /\ \A i \in 1 .. x.end : /\ Elements(x)[i] \in HNodes
                             /\ BucketOf(Elements(x)[i].key) = b
    /\ \A i, j \in 1 .. x.end : Elements(x)[i].key = Elements(x)[j].key => i = j

AreBuckets(bs) ==
    /\ DOMAIN bs \subseteq 0 .. NumberOfBuckets - 1
    /\ \A b \in DOMAIN bs : IsBucket(b, bs[b])

(* A node of the map carries the hash of its key. *)
LEMMA HNodesOK ==
    ASSUME NEW n \in HNodes
    PROVE  n.key \in Keys /\ n.data \in Data /\ n.hash = HashOf(n.key)
BY DEF HNodes, HashmapNode

(* Hashmap_node_create. *)
LEMMA NewNodeOK ==
    ASSUME NEW k \in Keys, NEW d \in Data
    PROVE  /\ HashmapNode(k, d) \in HNodes
           /\ HashmapNode(k, d).key = k /\ HashmapNode(k, d).data = d
BY DEF HNodes, HashmapNode

(* A key belongs to one of the buckets. *)
LEMMA BucketOfType ==
    ASSUME NEW k \in Keys PROVE BucketOf(k) \in 0 .. NumberOfBuckets - 1
BY HashAssumption, NumberOfBucketsAssumption DEF BucketOf

(* The first of some indexes. *)
LEMMA MinOfIndexes ==
    ASSUME NEW n \in Nat, NEW I \in SUBSET (1 .. n), I # {}
    PROVE  Min(I) \in I /\ \A i \in I : Min(I) <= i
<1>1. I \in SUBSET Nat
  OBVIOUS
<1>2. PICK x \in I : \A y \in I : x <= y
  BY <1>1, LeastNatural
<1>3. Min(I) \in I /\ \A y \in I : Min(I) =< y
  BY <1>2 DEF Min
<1> QED
  BY <1>3

(* Hashmap_get_node finds the node of a key. *)
LEMMA GetNodeOK ==
    ASSUME NEW b, NEW x, IsBucket(b, x), NEW k
    PROVE  /\ Hashmap_get_node(x, k) \in -1 .. x.end - 1
           /\ x.end \in Nat
           /\ Hashmap_get_node(x, k) >= 0 <=> Hashmap_get_node(x, k) # -1
           /\ Hashmap_get_node(x, k) = -1 =>
                \A i \in 1 .. x.end : Elements(x)[i].key # k
           /\ Hashmap_get_node(x, k) # -1 =>
                Elements(x)[Hashmap_get_node(x, k) + 1].key = k
<1> DEFINE e == Elements(x)
           I == {i \in 1 .. Len(e) : e[i].hash = HashOf(k) /\ e[i].key = k}
           r == Hashmap_get_node(x, k)
<1>1. Len(e) = x.end /\ x.end \in Nat
  BY ElementsOK DEF IsBucket, IsRoomy, IsArray
<1>2. r = (IF I # {} THEN Min(I) ELSE 0) - 1
  BY DEF Hashmap_get_node, SelectInSeq
<1>3. \A i \in 1 .. x.end : e[i].key = k => i \in I
  BY <1>1, HNodesOK DEF IsBucket
<1>4. I \in SUBSET (1 .. x.end) /\ \A i \in I : e[i].key = k
  BY <1>1
<1> HIDE DEF I, r
<1>5. CASE I = {}
  BY <1>1, <1>2, <1>3, <1>5 DEF r
<1>6. CASE I # {}
  <2>1. Min(I) \in 1 .. x.end /\ e[Min(I)].key = k
    BY <1>1, <1>4, <1>6, MinOfIndexes
  <2>2. r = Min(I) - 1
    BY <1>2, <1>6
  <2> DEFINE m == Min(I)
  <2> HIDE DEF m
  <2>3. r \in 0 .. x.end - 1 /\ r + 1 = m
    BY <1>1, <2>1, <2>2 DEF m
  <2> QED
    BY <1>1, <2>1, <2>3 DEF r, m
<1> QED
  BY <1>5, <1>6

(* A new bucket. *)
LEMMA NewBucketOK ==
    ASSUME NEW b
    PROVE  /\ IsBucket(b, DArray_create(NumberOfBuckets))
           /\ ToSet(Elements(DArray_create(NumberOfBuckets))) = {}
<1> DEFINE x == DArray_create(NumberOfBuckets)
<1>1. IsRoomy(x, HNodes) /\ Elements(x) = <<>>
  BY NumberOfBucketsAssumption, CreateOK
<1>2. x.end = 0
  BY DEF DArray_create
<1> HIDE DEF x
<1>3. IsBucket(b, x) /\ ToSet(Elements(x)) = {}
  BY <1>1, <1>2 DEF IsBucket, ToSet
<1> QED
  BY <1>3 DEF x

(* A node with a new key is added to its bucket. *)
LEMMA PushNodeOK ==
    ASSUME NEW b, NEW x, IsBucket(b, x), NEW n \in HNodes,
           BucketOf(n.key) = b, \A i \in 1 .. x.end : Elements(x)[i].key # n.key
    PROVE  /\ IsBucket(b, DArray_push(x, n))
           /\ ToSet(Elements(DArray_push(x, n))) = ToSet(Elements(x)) \cup {n}
<1> DEFINE y == DArray_push(x, n)
           e == Elements(x)
           m == x.end
<1>1. /\ IsRoomy(y, HNodes) /\ y.end = m + 1
      /\ Elements(y) = Append(e, n)
  BY PushOK DEF IsBucket
<1>2. e \in Seq(Cells(HNodes)) /\ Len(e) = m /\ n \in Cells(HNodes) /\ m \in Nat
  BY ElementsOK DEF IsBucket, IsRoomy, Cells, IsArray
<1> HIDE DEF y, e, m
<1>3. /\ \A i \in 1 .. m + 1 : i \in 1 .. m \/ i = m + 1
      /\ \A i \in 1 .. m : Elements(y)[i] = e[i]
      /\ Elements(y)[m + 1] = n /\ DOMAIN Elements(y) = 1 .. m + 1
  BY <1>1, <1>2
<1>4. \A i \in 1 .. m : e[i] \in HNodes /\ BucketOf(e[i].key) = b /\ e[i].key # n.key
  BY DEF IsBucket, e, m
<1>5. \A i, j \in 1 .. m : e[i].key = e[j].key => i = j
  BY DEF IsBucket, e, m
<1>6. IsBucket(b, y)
  BY <1>1, <1>3, <1>4, <1>5 DEF IsBucket
<1>7. ToSet(Elements(y)) = ToSet(e) \cup {n}
  <2>1. DOMAIN e = 1 .. m
    BY <1>2
  <2>2. 1 .. m \subseteq 1 .. m + 1 /\ m + 1 \in 1 .. m + 1
    BY <1>2
  <2> QED
    BY <1>3, <2>1, <2>2 DEF ToSet
<1> QED
  BY <1>6, <1>7 DEF y, e

(* DArray_set replaces an element. *)
LEMMA SetOK ==
    ASSUME NEW V, NEW a, IsRoomy(a, V), NEW i \in 0 .. a.end - 1, NEW v \in V
    PROVE  /\ IsRoomy(DArray_set(a, i, v), V)
           /\ DArray_set(a, i, v).end = a.end
           /\ Elements(DArray_set(a, i, v)) = [Elements(a) EXCEPT ![i + 1] = v]
<1> DEFINE b == DArray_set(a, i, v)
<1>1. /\ a.end \in Nat /\ a.max \in Nat /\ a.end < a.max
      /\ a.contents \in [0 .. a.max - 1 -> Cells(V)] /\ v \in Cells(V)
      /\ a \in [contents : [0 .. a.max - 1 -> Cells(V)], end : Nat, max : Nat]
  BY DEF IsRoomy, IsArray, Cells
<1>2. b = [a EXCEPT !.contents[i] = v]
  BY <1>1 DEF DArray_set
<1> HIDE DEF b
<1>3. /\ b.end = a.end /\ b.max = a.max
      /\ b.contents = [a.contents EXCEPT ![i] = v]
      /\ b \in [contents : [0 .. a.max - 1 -> Cells(V)], end : Nat, max : Nat]
  BY <1>1, <1>2
<1>4. IsRoomy(b, V)
  BY <1>1, <1>3 DEF IsRoomy, IsArray
<1>5. \A k \in 1 .. a.end : b.contents[k - 1]
         = IF k = i + 1 THEN v ELSE a.contents[k - 1]
  BY <1>1, <1>3
<1>6. Elements(b) = [Elements(a) EXCEPT ![i + 1] = v]
  BY <1>1, <1>3, <1>5 DEF Elements
<1> QED
  BY <1>3, <1>4, <1>6 DEF b

(* The freed node is gone from its bucket, and no other: the last one has  *)
(* taken its place.                                                        *)
LEMMA RefillOK ==
    ASSUME NEW b, NEW x, IsBucket(b, x), NEW i \in 0 .. x.end - 1
    PROVE  /\ IsBucket(b, Refill(x, i))
           /\ ToSet(Elements(Refill(x, i)))
                = ToSet(Elements(x)) \ {Elements(x)[i + 1]}
<1> DEFINE e == Elements(x)
           m == x.end
           p == DArray_pop(x).array
           y == Refill(x, i)
<1>1. m \in Nat /\ m # 0 /\ IsRoomy(x, HNodes) /\ DOMAIN e = 1 .. m
  BY DEF IsBucket, IsRoomy, IsArray, Elements
<1>2. /\ \A j \in 1 .. m : e[j] \in HNodes /\ BucketOf(e[j].key) = b
      /\ \A j, k \in 1 .. m : e[j].key = e[k].key => j = k
  BY DEF IsBucket
<1>3. /\ IsRoomy(p, HNodes) /\ p.end = m - 1 /\ DArray_pop(x).el = e[m]
      /\ Elements(p) = [j \in 1 .. m - 1 |-> e[j]]
  BY <1>1, PopOK
<1>4. /\ i + 1 \in 1 .. m /\ m \in 1 .. m /\ m - 1 \in Nat
      /\ \A j \in 1 .. m : j \in 1 .. m - 1 \/ j = m
      /\ \A j \in 1 .. m - 1 : j \in 1 .. m /\ j # m
  BY <1>1
<1>5. y = IF i # m - 1 THEN DArray_set(p, i, e[m]) ELSE p
  BY <1>3 DEF Refill
<1> HIDE DEF e, p, y
<1>6. CASE i = m - 1
  <2>1. y = p /\ i + 1 = m
    BY <1>1, <1>5, <1>6
  <2>2. DOMAIN Elements(y) = 1 .. m - 1 /\ \A j \in 1 .. m - 1 : Elements(y)[j] = e[j]
    BY <1>3, <2>1
  <2> HIDE DEF m
  <2>3. IsBucket(b, y)
    BY <1>2, <1>3, <1>4, <2>1, <2>2 DEF IsBucket
  <2>4. ToSet(Elements(y)) = ToSet(e) \ {e[m]}
    BY <1>1, <1>2, <1>4, <2>2 DEF ToSet
  <2> QED
    BY <2>1, <2>3, <2>4 DEF e, y
<1>7. CASE i # m - 1
  <2>1. i \in 0 .. p.end - 1 /\ i + 1 \in 1 .. m - 1
    BY <1>1, <1>3, <1>7
  <2>2. y = DArray_set(p, i, e[m]) /\ e[m] \in HNodes
    BY <1>2, <1>4, <1>5, <1>7
  <2>3. /\ IsRoomy(y, HNodes) /\ y.end = m - 1
        /\ Elements(y) = [Elements(p) EXCEPT ![i + 1] = e[m]]
    <3> DEFINE v == e[m]
    <3>1. /\ v \in HNodes /\ y = DArray_set(p, i, v)
          /\ IsRoomy(p, HNodes) /\ i \in 0 .. p.end - 1
      BY <1>3, <2>1, <2>2
    <3> HIDE DEF v
    <3>2. /\ IsRoomy(y, HNodes) /\ y.end = p.end
          /\ Elements(y) = [Elements(p) EXCEPT ![i + 1] = v]
      BY ONLY <3>1, SetOK
    <3> QED
      BY <1>3, <3>2 DEF v
  <2>4. /\ DOMAIN Elements(y) = 1 .. m - 1
        /\ \A j \in 1 .. m - 1 : Elements(y)[j] = IF j = i + 1 THEN e[m] ELSE e[j]
    BY <1>3, <2>1, <2>3
  <2> HIDE DEF m
  <2>5. IsBucket(b, y)
    <3>1. \A j \in 1 .. m - 1 : /\ Elements(y)[j] \in HNodes
                                /\ BucketOf(Elements(y)[j].key) = b
      BY <1>2, <1>4, <2>4
    <3>2. \A j, k \in 1 .. m - 1 : Elements(y)[j].key = Elements(y)[k].key => j = k
      BY <1>2, <1>4, <2>4
    <3> QED
      BY <2>3, <3>1, <3>2 DEF IsBucket
  <2>6. ToSet(Elements(y)) = ToSet(e) \ {e[i + 1]}
    <3>1. \A j \in 1 .. m - 1 : Elements(y)[j] \in ToSet(e) \ {e[i + 1]}
      BY <1>1, <1>2, <1>4, <2>1, <2>4 DEF ToSet
    <3>2. \A j \in 1 .. m : j # i + 1 => \E k \in 1 .. m - 1 : e[j] = Elements(y)[k]
      <4> SUFFICES ASSUME NEW j \in 1 .. m, j # i + 1
                   PROVE  \E k \in 1 .. m - 1 : e[j] = Elements(y)[k]
        OBVIOUS
      <4>1. CASE j = m
        BY <2>1, <2>4, <4>1
      <4>2. CASE j # m
        BY <1>4, <2>4, <4>2
      <4> QED
        BY <4>1, <4>2
    <3>3. ToSet(Elements(y)) \subseteq ToSet(e) \ {e[i + 1]}
      BY <2>4, <3>1 DEF ToSet
    <3>4. ASSUME NEW n \in ToSet(e), n # e[i + 1] PROVE n \in ToSet(Elements(y))
      <4>1. PICK j \in 1 .. m : n = e[j]
        BY <1>1 DEF ToSet
      <4>2. PICK k \in 1 .. m - 1 : e[j] = Elements(y)[k]
        BY <3>2, <3>4, <4>1
      <4> QED
        BY <2>4, <4>1, <4>2 DEF ToSet
    <3> QED
      BY <3>3, <3>4
  <2> QED
    BY <2>5, <2>6 DEF e, y
<1> QED
  BY <1>6, <1>7

(* The nodes in some buckets. *)
AllNodes(bs) == UNION {ToSet(Elements(bs[b])) : b \in DOMAIN bs}

(* Every node is in the bucket of its key, and no key is there twice. *)
LEMMA AllNodesOK ==
    ASSUME NEW bs, AreBuckets(bs)
    PROVE  /\ \A n : n \in AllNodes(bs) <=>
                 \E b \in DOMAIN bs : \E i \in 1 .. bs[b].end : n = Elements(bs[b])[i]
           /\ AllNodes(bs) \subseteq HNodes
           /\ \A n \in AllNodes(bs) : /\ BucketOf(n.key) \in DOMAIN bs
                                      /\ n \in ToSet(Elements(bs[BucketOf(n.key)]))
           /\ \A n, m \in AllNodes(bs) : n.key = m.key => n = m
<1>1. \A b \in DOMAIN bs : /\ IsBucket(b, bs[b])
                           /\ DOMAIN Elements(bs[b]) = 1 .. bs[b].end
  BY DEF AreBuckets, Elements
<1>2. \A b \in DOMAIN bs : \A i \in 1 .. bs[b].end :
         /\ Elements(bs[b])[i] \in HNodes /\ BucketOf(Elements(bs[b])[i].key) = b
         /\ Elements(bs[b])[i] \in ToSet(Elements(bs[b]))
  BY <1>1 DEF IsBucket, ToSet
<1>3. \A n : n \in AllNodes(bs) <=>
         \E b \in DOMAIN bs : \E i \in 1 .. bs[b].end : n = Elements(bs[b])[i]
  <2>1. \A n : n \in AllNodes(bs) <=>
           \E b \in DOMAIN bs : n \in ToSet(Elements(bs[b]))
    BY DEF AllNodes
  <2>2. \A b \in DOMAIN bs : \A n : n \in ToSet(Elements(bs[b])) <=>
           \E i \in 1 .. bs[b].end : n = Elements(bs[b])[i]
    <3> SUFFICES ASSUME NEW b \in DOMAIN bs, NEW n
                 PROVE  n \in ToSet(Elements(bs[b])) <=>
                           \E i \in 1 .. bs[b].end : n = Elements(bs[b])[i]
      OBVIOUS
    <3> QED
      BY <1>1 DEF ToSet
  <2> QED
    BY <2>1, <2>2
<1>4. ASSUME NEW n \in AllNodes(bs), NEW m \in AllNodes(bs), n.key = m.key
      PROVE  n = m
  <2>1. PICK b \in DOMAIN bs : \E i \in 1 .. bs[b].end : n = Elements(bs[b])[i]
    BY <1>3
  <2>2. PICK i \in 1 .. bs[b].end : n = Elements(bs[b])[i]
    BY <2>1
  <2>3. PICK c \in DOMAIN bs : \E j \in 1 .. bs[c].end : m = Elements(bs[c])[j]
    BY <1>3
  <2>4. PICK j \in 1 .. bs[c].end : m = Elements(bs[c])[j]
    BY <2>3
  <2>5. b = c
    BY <1>2, <1>4, <2>2, <2>4
  <2>6. i = j
    BY <1>1, <1>4, <2>2, <2>4, <2>5 DEF IsBucket
  <2> QED
    BY <2>2, <2>4, <2>5, <2>6
<1>5. AllNodes(bs) \subseteq HNodes
  BY <1>2, <1>3
<1>6. \A n \in AllNodes(bs) : /\ BucketOf(n.key) \in DOMAIN bs
                              /\ n \in ToSet(Elements(bs[BucketOf(n.key)]))
  BY <1>2, <1>3
<1> QED
  BY <1>3, <1>4, <1>5, <1>6

(* One bucket of a table changes. *)
LEMMA BucketChanged ==
    ASSUME NEW bs, AreBuckets(bs), NEW b \in 0 .. NumberOfBuckets - 1,
           NEW x, IsBucket(b, x), NEW cs,
           DOMAIN cs = DOMAIN bs \cup {b}, cs[b] = x,
           \A c \in DOMAIN bs : c # b => cs[c] = bs[c]
    PROVE  /\ AreBuckets(cs)
           /\ \A n : n \in AllNodes(cs) <=>
                 \/ n \in ToSet(Elements(x))
                 \/ \E c \in DOMAIN bs : c # b /\ n \in ToSet(Elements(bs[c]))
BY DEF AreBuckets, AllNodes

(* Hashmap_set adds a node for a key that has none. *)
LEMMA HashmapSetOK ==
    ASSUME AreBuckets(buckets), NEW k \in Keys, NEW d \in Data, Hashmap_set(k, d)
    PROVE  /\ AreBuckets(buckets')
           /\ (\E n \in AllNodes(buckets) : n.key = k) =>
                returned' = -1 /\ AllNodes(buckets') = AllNodes(buckets)
           /\ ~(\E n \in AllNodes(buckets) : n.key = k) =>
                /\ returned' = 0
                /\ AllNodes(buckets') = AllNodes(buckets) \cup {HashmapNode(k, d)}
<1> DEFINE b == BucketOf(k)
           x == Hashmap_find_bucket(k)
           found == Hashmap_get_node(x, k) >= 0
           node == HashmapNode(k, d)
           new == IF found THEN x ELSE DArray_push(x, node)
<1>1. b \in 0 .. NumberOfBuckets - 1
  BY BucketOfType
<1>2. /\ IsBucket(b, x)
      /\ b \in DOMAIN buckets => x = buckets[b]
      /\ b \notin DOMAIN buckets => ToSet(Elements(x)) = {}
  BY NewBucketOK DEF Hashmap_find_bucket, AreBuckets
<1>3. /\ returned' = IF found THEN -1 ELSE 0
      /\ buckets' = [c \in DOMAIN buckets \cup {b} |->
                        IF c = b THEN new ELSE buckets[c]]
  BY DEF Hashmap_set
<1>4. /\ node \in HNodes /\ node.key = k
  BY NewNodeOK
<1>5. x.end \in Nat /\ DOMAIN Elements(x) = 1 .. x.end
  BY <1>2, GetNodeOK DEF Elements
<1>6. found <=> \E n \in ToSet(Elements(x)) : n.key = k
  <2>1. CASE Hashmap_get_node(x, k) = -1
    <3>1. \A i \in 1 .. x.end : Elements(x)[i].key # k
      BY <1>2, <2>1, GetNodeOK
    <3> QED
      BY <1>5, <2>1, <3>1 DEF ToSet
  <2>2. CASE Hashmap_get_node(x, k) # -1
    <3> DEFINE r == Hashmap_get_node(x, k)
    <3>1. r \in -1 .. x.end - 1 /\ (r >= 0 <=> r # -1)
          /\ Elements(x)[r + 1].key = k
      BY <1>2, <2>2, GetNodeOK
    <3>2. r + 1 \in 1 .. x.end
      BY <1>5, <2>2, <3>1
    <3>3. Elements(x)[r + 1] \in ToSet(Elements(x))
      BY <1>5, <3>2 DEF ToSet
    <3> QED
      BY <2>2, <3>1, <3>3
  <2> QED
    BY <2>1, <2>2
<1>7. (\E n \in AllNodes(buckets) : n.key = k) <=> found
  <2>1. \A n \in AllNodes(buckets) : n.key = k =>
           b \in DOMAIN buckets /\ n \in ToSet(Elements(buckets[b]))
    BY AllNodesOK
  <2>2. b \in DOMAIN buckets => ToSet(Elements(buckets[b])) \subseteq AllNodes(buckets)
    BY DEF AllNodes
  <2> QED
    BY <1>2, <1>6, <2>1, <2>2
<1>8. /\ IsBucket(b, new)
      /\ found => ToSet(Elements(new)) = ToSet(Elements(x))
      /\ ~found => ToSet(Elements(new)) = ToSet(Elements(x)) \cup {node}
  <2>1. CASE found
    BY <1>2, <2>1
  <2>2. CASE ~found
    <3>1. \A i \in 1 .. x.end : Elements(x)[i].key # node.key
      BY <1>4, <1>5, <1>6, <2>2 DEF ToSet
    <3>2. new = DArray_push(x, node) /\ BucketOf(node.key) = b
      BY <1>4, <2>2
    <3> HIDE DEF new, x, node, b
    <3> QED
      BY <1>2, <1>4, <2>2, <3>1, <3>2, PushNodeOK
  <2> QED
    BY <2>1, <2>2
<1> HIDE DEF b, x, found, node, new
<1>9. /\ AreBuckets(buckets')
      /\ \A n : n \in AllNodes(buckets') <=>
            \/ n \in ToSet(Elements(new))
            \/ \E c \in DOMAIN buckets : c # b /\ n \in ToSet(Elements(buckets[c]))
  <2>1. /\ DOMAIN buckets' = DOMAIN buckets \cup {b} /\ buckets'[b] = new
        /\ \A c \in DOMAIN buckets : c # b => buckets'[c] = buckets[c]
    BY <1>3
  <2> QED
    BY <1>1, <1>8, <2>1, BucketChanged
<1>10. \A n : n \in AllNodes(buckets) <=>
          \/ n \in ToSet(Elements(x))
          \/ \E c \in DOMAIN buckets : c # b /\ n \in ToSet(Elements(buckets[c]))
  BY <1>2 DEF AllNodes
<1>11. found => AllNodes(buckets') = AllNodes(buckets)
  BY <1>8, <1>9, <1>10
<1>12. ~found => AllNodes(buckets') = AllNodes(buckets) \cup {node}
  BY <1>8, <1>9, <1>10
<1> QED
  BY <1>3, <1>7, <1>9, <1>11, <1>12 DEF node

(* Find finds the node of a key that has one. *)
LEMMA FindOK ==
    ASSUME AreBuckets(buckets), NEW k \in Keys
    PROVE  /\ Find(k) = -1 <=> ~ \E n \in AllNodes(buckets) : n.key = k
           /\ Find(k) # -1 =>
                /\ BucketOf(k) \in DOMAIN buckets
                /\ Find(k) \in 0 .. buckets[BucketOf(k)].end - 1
                /\ Elements(buckets[BucketOf(k)])[Find(k) + 1] \in AllNodes(buckets)
                /\ Elements(buckets[BucketOf(k)])[Find(k) + 1].key = k
                /\ DArray_get(buckets[BucketOf(k)], Find(k))
                     = Elements(buckets[BucketOf(k)])[Find(k) + 1]
<1> DEFINE b == BucketOf(k)
<1>1. \A n \in AllNodes(buckets) : n.key = k =>
         b \in DOMAIN buckets /\ n \in ToSet(Elements(buckets[b]))
  BY AllNodesOK
<1>2. CASE b \notin DOMAIN buckets
  BY <1>1, <1>2 DEF Find
<1>3. CASE b \in DOMAIN buckets
  <2> DEFINE x == buckets[b]
             r == Hashmap_get_node(x, k)
  <2>1. Find(k) = r /\ IsBucket(b, x) /\ ToSet(Elements(x)) \subseteq AllNodes(buckets)
    BY <1>3 DEF Find, AreBuckets, AllNodes
  <2>2. x.end \in Nat /\ DOMAIN Elements(x) = 1 .. x.end /\ r \in -1 .. x.end - 1
    BY <2>1, GetNodeOK DEF Elements
  <2>3. CASE r = -1
    <3>1. \A i \in 1 .. x.end : Elements(x)[i].key # k
      BY <2>1, <2>3, GetNodeOK
    <3>2. \A n \in ToSet(Elements(x)) : n.key # k
      BY <2>2, <3>1 DEF ToSet
    <3> QED
      BY <1>1, <2>1, <2>3, <3>2
  <2>4. CASE r # -1
    <3>1. Elements(x)[r + 1].key = k
      BY <2>1, <2>4, GetNodeOK
    <3>2. r \in 0 .. x.end - 1 /\ r + 1 \in 1 .. x.end
      BY <2>2, <2>4
    <3>3. Elements(x)[r + 1] \in AllNodes(buckets)
      BY <2>1, <2>2, <3>2 DEF ToSet
    <3>4. DArray_get(x, r) = Elements(x)[r + 1]
      <4>1. IsArray(x, HNodes) /\ x.end < x.max /\ x.max \in Nat
        BY <2>1 DEF IsBucket, IsRoomy, IsArray
      <4>2. r < x.max
        BY <2>2, <3>2, <4>1
      <4> QED
        BY <3>2, <4>1, <4>2, ElementsOK DEF DArray_get
    <3> QED
      BY <1>3, <2>1, <2>4, <3>1, <3>2, <3>3, <3>4
  <2> QED
    BY <2>3, <2>4
<1> QED
  BY <1>2, <1>3

(* Hashmap_delete takes the node of the key away, and returns its data. *)
LEMMA HashmapDeleteOK ==
    ASSUME AreBuckets(buckets), NEW k \in Keys, Hashmap_delete(k)
    PROVE  /\ AreBuckets(buckets')
           /\ AllNodes(buckets') = {n \in AllNodes(buckets) : n.key # k}
           /\ \A n \in AllNodes(buckets) : n.key = k => returned' = n.data
           /\ ~(\E n \in AllNodes(buckets) : n.key = k) => returned' = NULL
<1> DEFINE b == BucketOf(k)
           x == buckets[b]
           i == Find(k)
           node == Elements(x)[i + 1]
<1>1. CASE i = -1
  <2>1. buckets' = buckets /\ returned' = NULL
    BY <1>1 DEF Hashmap_delete
  <2>2. ~ \E n \in AllNodes(buckets) : n.key = k
    BY <1>1, FindOK
  <2> QED
    BY <2>1, <2>2
<1>2. CASE i # -1
  <2>1. /\ b \in DOMAIN buckets /\ i \in 0 .. x.end - 1
        /\ node \in AllNodes(buckets) /\ node.key = k /\ DArray_get(x, i) = node
    BY <1>2, FindOK
  <2>2. /\ returned' = DArray_get(x, i).data
        /\ buckets' = [buckets EXCEPT ![b] = Refill(x, i)]
    BY <1>2 DEF Hashmap_delete
  <2>3. IsBucket(b, x) /\ b \in 0 .. NumberOfBuckets - 1
    BY <2>1 DEF AreBuckets
  <2> DEFINE y == Refill(x, i)
  <2>4. IsBucket(b, y) /\ ToSet(Elements(y)) = ToSet(Elements(x)) \ {node}
    BY <2>1, <2>3, RefillOK
  <2>5. /\ DOMAIN buckets' = DOMAIN buckets \cup {b} /\ buckets'[b] = y
        /\ \A c \in DOMAIN buckets : c # b => buckets'[c] = buckets[c]
    BY <2>1, <2>2
  <2> HIDE DEF b, x, y, i, node
  <2>6. /\ AreBuckets(buckets')
        /\ \A n : n \in AllNodes(buckets') <=>
              \/ n \in ToSet(Elements(y))
              \/ \E c \in DOMAIN buckets : c # b /\ n \in ToSet(Elements(buckets[c]))
    BY <2>3, <2>4, <2>5, BucketChanged
  <2>7. /\ \A n, m \in AllNodes(buckets) : n.key = m.key => n = m
        /\ \A n \in AllNodes(buckets) : n \in ToSet(Elements(buckets[BucketOf(n.key)]))
    BY AllNodesOK
  <2>8. \A n : n \in AllNodes(buckets) <=>
           \/ n \in ToSet(Elements(x))
           \/ \E c \in DOMAIN buckets : c # b /\ n \in ToSet(Elements(buckets[c]))
    BY <2>1 DEF AllNodes, x
  <2>9. \A c \in DOMAIN buckets : c # b => \A n \in ToSet(Elements(buckets[c])) : n # node
    <3>1. \A c \in DOMAIN buckets : \A n \in ToSet(Elements(buckets[c])) :
             BucketOf(n.key) = c
      <4> SUFFICES ASSUME NEW c \in DOMAIN buckets,
                          NEW j \in DOMAIN Elements(buckets[c])
                   PROVE  BucketOf(Elements(buckets[c])[j].key) = c
        BY DEF ToSet
      <4>1. DOMAIN Elements(buckets[c]) = 1 .. buckets[c].end
        BY DEF Elements
      <4> QED
        BY <4>1 DEF AreBuckets, IsBucket
    <3> QED
      BY <2>1, <3>1 DEF b
  <2>10. AllNodes(buckets') = AllNodes(buckets) \ {node}
    BY <2>4, <2>6, <2>8, <2>9
  <2>11. AllNodes(buckets') = {n \in AllNodes(buckets) : n.key # k}
    BY <2>1, <2>7, <2>10
  <2>12. \A n \in AllNodes(buckets) : n.key = k => returned' = n.data
    BY <2>1, <2>2, <2>7
  <2> QED
    BY <2>1, <2>6, <2>11, <2>12
<1> QED
  BY <1>1, <1>2

-----------------------------------------------------------------------------
(* The hash table in use. *)
LEMMA HashmapInductive ==
    HashmapSpec => []AreBuckets(buckets)
<1>1. HashmapInit => AreBuckets(buckets)
  BY DEF HashmapInit, Hashmap_create, AreBuckets
<1>2. AreBuckets(buckets) /\ [HashmapNext]_hashmapVars => AreBuckets(buckets)'
  <2> SUFFICES ASSUME AreBuckets(buckets), [HashmapNext]_hashmapVars
               PROVE  AreBuckets(buckets')
    OBVIOUS
  <2>1. CASE \E k \in Keys, d \in Data : Hashmap_set(k, d)
    BY <2>1, HashmapSetOK
  <2>2. CASE \E k \in Keys : Hashmap_get(k)
    BY <2>2 DEF Hashmap_get
  <2>3. CASE \E k \in Keys : Hashmap_delete(k)
    BY <2>3, HashmapDeleteOK
  <2>4. CASE \E stop \in Keys \cup {NULL} : Hashmap_traverse(stop)
    BY <2>4 DEF Hashmap_traverse
  <2>5. CASE Hashmap_destroy
    BY <2>5 DEF Hashmap_destroy, Hashmap_create, AreBuckets
  <2>6. CASE UNCHANGED hashmapVars
    BY <2>6 DEF hashmapVars
  <2> QED
    BY <2>1, <2>2, <2>3, <2>4, <2>5, <2>6 DEF HashmapNext
<1> QED
  BY <1>1, <1>2, PTL DEF HashmapSpec

(* A bucket's nodes are in the bucket of their hash, no key has two, and   *)
(* DArray_push finds a slot, whatever the hash function is.                *)
THEOREM BucketsStaySound == HashmapSpec => []BucketsAreSound
<1>1. ASSUME AreBuckets(buckets) PROVE BucketsAreSound
  <2> SUFFICES ASSUME NEW b \in DOMAIN buckets
               PROVE  /\ HasRoom(buckets[b])
                      /\ \A i \in 1 .. buckets[b].end :
                            LET node == Elements(buckets[b])[i]
                            IN  /\ node \in {HashmapNode(k, d) : k \in Keys, d \in Data}
                                /\ BucketOf(node.key) = b
                                /\ Hashmap_get_node(buckets[b], node.key) = i - 1
    BY DEF BucketsAreSound
  <2> DEFINE x == buckets[b]
  <2>1. IsBucket(b, x)
    BY <1>1 DEF AreBuckets
  <2> HIDE DEF x
  <2>2. HasRoom(x)
    BY <2>1 DEF IsBucket, IsRoomy, IsArray, HasRoom
  <2>3. ASSUME NEW i \in 1 .. x.end
        PROVE  /\ Elements(x)[i] \in HNodes /\ BucketOf(Elements(x)[i].key) = b
               /\ Hashmap_get_node(x, Elements(x)[i].key) = i - 1
    <3> DEFINE k == Elements(x)[i].key
               r == Hashmap_get_node(x, k)
    <3>1. /\ x.end \in Nat /\ r \in -1 .. x.end - 1
          /\ r = -1 => \A j \in 1 .. x.end : Elements(x)[j].key # k
          /\ r # -1 => Elements(x)[r + 1].key = k
      BY <2>1, GetNodeOK
    <3>2. r # -1
      BY <3>1
    <3>3. r + 1 \in 1 .. x.end
      BY <3>1, <3>2
    <3>4. r + 1 = i
      BY <2>1, <3>1, <3>2, <3>3 DEF IsBucket
    <3>5. r = i - 1
      BY <3>1, <3>4
    <3> QED
      BY <2>1, <3>5 DEF IsBucket
  <2> QED
    BY <2>2, <2>3 DEF x, HNodes
<1> QED
  BY <1>1, HashmapInductive, PTL

(* What the nodes of some buckets hold. *)
ContentsOf(bs) == [k \in {n.key : n \in AllNodes(bs)} |->
                      (CHOOSE n \in AllNodes(bs) : n.key = k).data]

(* The map that the nodes stand for holds the data of each. *)
LEMMA ContentsOK ==
    ASSUME NEW bs, AreBuckets(bs)
    PROVE  /\ DOMAIN ContentsOf(bs) = {n.key : n \in AllNodes(bs)}
           /\ \A n \in AllNodes(bs) : ContentsOf(bs)[n.key] = n.data
           /\ ContentsOf(bs) = [k \in DOMAIN ContentsOf(bs) |-> ContentsOf(bs)[k]]
<1>1. \A n, m \in AllNodes(bs) : n.key = m.key => n = m
  BY AllNodesOK
<1>2. \A n \in AllNodes(bs) : (CHOOSE m \in AllNodes(bs) : m.key = n.key) = n
  BY <1>1
<1> QED
  BY <1>2 DEF ContentsOf

(* The refinement mapping of Hashmap, for the buckets it has. *)
LEMMA ContentsIs == Contents = ContentsOf(buckets)
BY DEF Contents, ContentsOf, AllNodes

-----------------------------------------------------------------------------
(* The traversal, bucket by bucket. *)
LEMMA NodesTrace ==
    ASSUME NEW bs, AreBuckets(bs)
    PROVE  \E f \in [0 .. NumberOfBuckets -> Seq(Cells(HNodes))] :
              /\ f[0] = <<>>
              /\ \A k \in 0 .. NumberOfBuckets - 1 :
                    f[k + 1] = IF k \in DOMAIN bs THEN f[k] \o Elements(bs[k])
                               ELSE f[k]
              /\ Nodes(bs) = f[NumberOfBuckets]
<1> DEFINE n == NumberOfBuckets
           Acc == Seq(Cells(HNodes))
           Op(c, b) == IF b \in DOMAIN bs THEN c \o Elements(bs[b]) ELSE c
           Step == [kc \in (1 .. n) \X Acc |-> Op(kc[2], kc[1] - 1)]
           Loop(h) == [s \in SUBSET (1 .. n) |->
                          IF s = {} THEN <<>> ELSE Op(h[s \ {Max(s)}], Max(s) - 1)]
           h == CHOOSE f : f = Loop(f)
           turns == [turn \in 1 .. n |-> turn - 1]
<1>1. n \in Nat /\ <<>> \in Acc
  BY NumberOfBucketsAssumption
<1>2. \A b, c : c \in Acc => Op(c, b) \in Acc
  <2>1. \A b \in DOMAIN bs : Elements(bs[b]) \in Acc
    BY ElementsOK DEF AreBuckets, IsBucket, IsRoomy
  <2> QED
    BY <2>1
<1>3. Nodes(bs) = h[1 .. n]
  <2>1. DOMAIN turns = 1 .. n /\ \A i \in 1 .. n : turns[i] = i - 1
    OBVIOUS
  <2> DEFINE LoopT(f) == [s \in SUBSET (1 .. n) |->
                             IF s = {} THEN <<>>
                             ELSE Op(f[s \ {Max(s)}], turns[Max(s)])]
  <2>2. Nodes(bs) = (CHOOSE f : f = LoopT(f))[1 .. n]
    <3> HIDE DEF n
    <3> QED
      BY <2>1 DEF Nodes, FoldLeft, MapThenFoldSet, n
  <2> HIDE DEF turns, n, Op
  <2>3. \A f : LoopT(f) = Loop(f)
    <3>1. ASSUME NEW s \in SUBSET (1 .. n), s # {} PROVE turns[Max(s)] = Max(s) - 1
      BY <1>1, <2>1, <3>1, MaxOfIndexes
    <3> QED
      BY <3>1
  <2> HIDE DEF Loop, LoopT
  <2> QED
    BY <2>2, <2>3
<1> HIDE DEF Op
<1>4. Step \in [(1 .. n) \X Acc -> Acc]
  <2> HIDE DEF Acc, n
  <2> QED
    BY <1>2
<1>5. h = Loop(h)
  <2>1. PICK f \in [SUBSET (1 .. n) -> Acc] : IsFold(f, n, <<>>, Step)
    <3> HIDE DEF n, Acc, Step
    <3> QED
      BY <1>1, <1>4, FoldExists
  <2>2. ASSUME NEW s \in SUBSET (1 .. n), s # {}
        PROVE  Step[<<Max(s), f[s \ {Max(s)}]>>] = Op(f[s \ {Max(s)}], Max(s) - 1)
    <3> HIDE DEF n, Acc
    <3>1. Max(s) \in 1 .. n
      BY <1>1, <2>2, MaxOfIndexes
    <3>2. s \ {Max(s)} \in SUBSET (1 .. n)
      OBVIOUS
    <3> QED
      BY <2>1, <3>1, <3>2
  <2>3. f = Loop(f)
    <3> HIDE DEF n, Acc, Step
    <3> QED
      BY <2>1, <2>2 DEF IsFold
  <2> HIDE DEF Loop
  <2> QED
    BY <2>3
<1>6. \A s \in SUBSET (1 .. n) :
         h[s] = IF s = {} THEN <<>> ELSE Op(h[s \ {Max(s)}], Max(s) - 1)
  <2> HIDE DEF h, n
  <2> QED
    BY <1>5
<1> HIDE DEF h, n, Loop, Step, turns
<1>7. h[1 .. 0] = <<>>
  <2>1. 1 .. 0 = {} /\ {} \in SUBSET (1 .. n)
    OBVIOUS
  <2> QED
    BY <1>6, <2>1
<1>8. ASSUME NEW k \in 0 .. n - 1
      PROVE  h[1 .. k + 1] = Op(h[1 .. k], k)
  <2>1. /\ 1 .. k + 1 \in SUBSET (1 .. n) /\ 1 .. k + 1 # {}
        /\ Max(1 .. k + 1) = k + 1 /\ (1 .. k + 1) \ {k + 1} = 1 .. k
    BY <1>1, FoldOrder
  <2>2. k + 1 - 1 = k
    OBVIOUS
  <2>3. h[1 .. k + 1] = Op(h[(1 .. k + 1) \ {Max(1 .. k + 1)}], Max(1 .. k + 1) - 1)
    <3> DEFINE u == 1 .. k + 1
    <3>1. u \in SUBSET (1 .. n) /\ u # {}
      BY <2>1
    <3> HIDE DEF u
    <3>2. h[u] = Op(h[u \ {Max(u)}], Max(u) - 1)
      BY <1>6, <3>1
    <3> QED
      BY <3>2 DEF u
  <2>4. Max(1 .. k + 1) - 1 = k
    BY <2>1, <2>2
  <2>5. (1 .. k + 1) \ {Max(1 .. k + 1)} = 1 .. k
    BY <2>1
  <2> QED
    BY <2>3, <2>4, <2>5
<1> DEFINE Inv == {k \in 0 .. n : h[1 .. k] \in Acc}
<1>9. 0 .. n \subseteq Inv
  <2>1. 0 \in Inv
    <3>1. 0 \in 0 .. n /\ h[1 .. 0] \in Acc
      BY <1>1, <1>7
    <3> HIDE DEF Acc
    <3> QED
      BY <3>1
  <2>2. \A k \in 0 .. n - 1 : k \in Inv => k + 1 \in Inv
    <3> HIDE DEF Acc
    <3>1. \A k \in 0 .. n - 1 : k + 1 \in 0 .. n
      BY <1>1
    <3> QED
      BY <1>2, <1>8, <3>1
  <2> HIDE DEF Inv
  <2> QED
    BY <1>1, <2>1, <2>2, BoundedInduction
<1> DEFINE f == [k \in 0 .. n |-> h[1 .. k]]
<1>10. f \in [0 .. n -> Acc]
  BY <1>9
<1>11. f[0] = <<>> /\ f[n] = h[1 .. n]
  BY <1>1, <1>7
<1>12. \A k \in 0 .. n - 1 : f[k + 1] = Op(f[k], k)
  BY <1>1, <1>8
<1> HIDE DEF f
<1> QED
  BY <1>3, <1>10, <1>11, <1>12 DEF Op, n

(* It meets every node once. *)
LEMMA NodesOK ==
    ASSUME NEW bs, AreBuckets(bs)
    PROVE  /\ Nodes(bs) \in Seq(HNodes)
           /\ \A i \in 1 .. Len(Nodes(bs)) : Nodes(bs)[i] \in AllNodes(bs)
           /\ \A n \in AllNodes(bs) : \E i \in 1 .. Len(Nodes(bs)) : Nodes(bs)[i] = n
           /\ \A i, j \in 1 .. Len(Nodes(bs)) :
                 Nodes(bs)[i].key = Nodes(bs)[j].key => i = j
<1> DEFINE N == NumberOfBuckets
           A == AllNodes(bs)
<1>1. N \in Nat
  BY NumberOfBucketsAssumption
<1>2. PICK f \in [0 .. N -> Seq(Cells(HNodes))] :
         /\ f[0] = <<>>
         /\ \A k \in 0 .. N - 1 :
               f[k + 1] = IF k \in DOMAIN bs THEN f[k] \o Elements(bs[k]) ELSE f[k]
         /\ Nodes(bs) = f[N]
  BY NodesTrace
<1>3. /\ A \subseteq HNodes
      /\ \A n \in A : n.key \in Keys /\ BucketOf(n.key) \in DOMAIN bs
                      /\ n \in ToSet(Elements(bs[BucketOf(n.key)]))
      /\ \A n, m \in A : n.key = m.key => n = m
  BY AllNodesOK, HNodesOK
<1>4. \A b \in DOMAIN bs :
         /\ b \in 0 .. N - 1 /\ bs[b].end \in Nat
         /\ Elements(bs[b]) \in Seq(Cells(HNodes)) /\ Len(Elements(bs[b])) = bs[b].end
         /\ \A i \in 1 .. bs[b].end : /\ Elements(bs[b])[i] \in A
                                      /\ BucketOf(Elements(bs[b])[i].key) = b
         /\ \A i, j \in 1 .. bs[b].end : Elements(bs[b])[i] = Elements(bs[b])[j] => i = j
         /\ \A n \in ToSet(Elements(bs[b])) :
               \E i \in 1 .. bs[b].end : n = Elements(bs[b])[i]
  <2> SUFFICES ASSUME NEW b \in DOMAIN bs
      PROVE
         /\ b \in 0 .. N - 1 /\ bs[b].end \in Nat
         /\ Elements(bs[b]) \in Seq(Cells(HNodes)) /\ Len(Elements(bs[b])) = bs[b].end
         /\ \A i \in 1 .. bs[b].end : /\ Elements(bs[b])[i] \in A
                                      /\ BucketOf(Elements(bs[b])[i].key) = b
         /\ \A i, j \in 1 .. bs[b].end : Elements(bs[b])[i] = Elements(bs[b])[j] => i = j
         /\ \A n \in ToSet(Elements(bs[b])) :
               \E i \in 1 .. bs[b].end : n = Elements(bs[b])[i]
    OBVIOUS
  <2>1. b \in 0 .. N - 1 /\ IsBucket(b, bs[b])
    BY DEF AreBuckets
  <2>2. /\ Elements(bs[b]) \in Seq(Cells(HNodes)) /\ Len(Elements(bs[b])) = bs[b].end
        /\ bs[b].end \in Nat /\ DOMAIN Elements(bs[b]) = 1 .. bs[b].end
    BY <2>1, ElementsOK DEF IsBucket, IsRoomy, IsArray, Elements
  <2>3. \A i \in 1 .. bs[b].end : Elements(bs[b])[i] \in A
    BY AllNodesOK
  <2> QED
    BY <2>1, <2>2, <2>3 DEF IsBucket, ToSet
<1> HIDE DEF N, A
<1> DEFINE Good(k, s) ==
              /\ \A i \in 1 .. Len(s) : s[i] \in A /\ BucketOf(s[i].key) < k
              /\ \A i, j \in 1 .. Len(s) : s[i] = s[j] => i = j
              /\ \A n \in A : BucketOf(n.key) < k => \E i \in 1 .. Len(s) : s[i] = n
           Inv == {k \in 0 .. N : Good(k, f[k])}
<1>5. 0 \in Inv
  <2>1. \A n \in A : ~(BucketOf(n.key) < 0)
    BY <1>1, <1>3, <1>4
  <2>2. Len(f[0]) = 0 /\ 1 .. 0 = {}
    BY <1>2
  <2>3. Good(0, f[0])
    BY <2>1, <2>2
  <2> HIDE DEF Good
  <2> QED
    BY <1>1, <2>3
<1>6. ASSUME NEW k \in 0 .. N - 1, k \in Inv PROVE k + 1 \in Inv
  <2>1. k \in 0 .. N /\ k + 1 \in 0 .. N /\ f[k] \in Seq(Cells(HNodes))
    BY <1>1, <1>2
  <2>2. Good(k, f[k])
    BY <1>6
  <2>3. \A b \in 0 .. N - 1 : (b < k + 1 <=> b < k \/ b = k)
    BY <1>1
  <2>4. CASE k \notin DOMAIN bs
    <3>1. f[k + 1] = f[k]
      BY <1>2, <2>4
    <3>2. \A n \in A : (BucketOf(n.key) < k + 1 <=> BucketOf(n.key) < k)
      BY <1>3, <1>4, <2>3, <2>4
    <3>3. Good(k + 1, f[k])
      BY <2>2, <3>2
    <3> HIDE DEF Good
    <3> QED
      BY <2>1, <3>1, <3>3
  <2>5. CASE k \in DOMAIN bs
    <3> DEFINE s == f[k]
               e == Elements(bs[k])
               t == f[k + 1]
               p == Len(s)
               q == Len(e)
    <3>1. t = s \o e
      BY <1>2, <2>5
    <3>2. s \in Seq(Cells(HNodes)) /\ e \in Seq(Cells(HNodes)) /\ q = bs[k].end
      BY <1>4, <2>1, <2>5
    <3>3. /\ \A i \in 1 .. q : e[i] \in A /\ BucketOf(e[i].key) = k
          /\ \A i, j \in 1 .. q : e[i] = e[j] => i = j
      BY <1>4, <2>5, <3>2
    <3>4. \A n \in A : BucketOf(n.key) = k => \E i \in 1 .. q : n = e[i]
      <4>1. \A n \in ToSet(e) : \E i \in 1 .. q : n = e[i]
        BY <1>4, <2>5, <3>2
      <4> QED
        BY <1>3, <4>1
    <3>5. p \in Nat /\ q \in Nat
      BY <3>2
    <3> HIDE DEF s, e, t
    <3>6. /\ Len(t) = p + q /\ \A i \in 1 .. p : t[i] = s[i]
          /\ \A i \in 1 .. q : t[p + i] = e[i]
      <4>1. /\ Len(t) = p + q
            /\ \A i \in 1 .. p + q : t[i] = IF i <= p THEN s[i] ELSE e[i - p]
        BY <3>1, <3>2, ConcatProperties
      <4> HIDE DEF p, q
      <4>2. \A i \in 1 .. p : i \in 1 .. p + q /\ i <= p
        BY <3>5
      <4>3. \A i \in 1 .. q : /\ p + i \in 1 .. p + q /\ ~(p + i <= p)
                              /\ (p + i) - p = i
        BY <3>5
      <4>4. \A i \in 1 .. q : t[p + i] = e[(p + i) - p]
        BY <4>1, <4>3
      <4> QED
        BY <4>1, <4>2, <4>3, <4>4
    <3> HIDE DEF p, q
    <3>7. /\ \A i \in 1 .. p + q : i \in 1 .. p \/ \E j \in 1 .. q : i = p + j
          /\ \A i \in 1 .. p : i \in 1 .. p + q
          /\ \A i \in 1 .. q : p + i \in 1 .. p + q
      <4>1. \A i \in 1 .. p + q : i \in 1 .. p \/ (i - p \in 1 .. q /\ i = p + (i - p))
        BY <3>5
      <4> QED
        BY <3>5, <4>1
    <3>8. Good(k, s)
      BY <2>2 DEF s
    <3>9. \A i \in 1 .. p : s[i] \in A /\ BucketOf(s[i].key) < k
      BY <3>8 DEF p
    <3>10. \A n \in A : BucketOf(n.key) \in 0 .. N - 1
      BY <1>3, <1>4
    <3>11. \A i \in 1 .. p + q : t[i] \in A /\ BucketOf(t[i].key) < k + 1
      BY <2>3, <3>3, <3>6, <3>7, <3>9, <3>10
    <3>12. ASSUME NEW i \in 1 .. p + q, NEW j \in 1 .. p + q, t[i] = t[j]
           PROVE  i = j
      <4>1. CASE i \in 1 .. p /\ j \in 1 .. p
        BY <3>6, <3>8, <3>12, <4>1 DEF p
      <4>2. CASE i \in 1 .. p /\ j \notin 1 .. p
        BY <3>3, <3>6, <3>7, <3>9, <3>12, <4>2
      <4>3. CASE i \notin 1 .. p /\ j \in 1 .. p
        BY <3>3, <3>6, <3>7, <3>9, <3>12, <4>3
      <4>4. CASE i \notin 1 .. p /\ j \notin 1 .. p
        BY <3>3, <3>6, <3>7, <3>12, <4>4
      <4> QED
        BY <4>1, <4>2, <4>3, <4>4
    <3>13. ASSUME NEW n \in A, BucketOf(n.key) < k + 1
           PROVE  \E i \in 1 .. p + q : t[i] = n
      <4>1. CASE BucketOf(n.key) < k
        BY <3>6, <3>7, <3>8, <4>1 DEF p
      <4>2. CASE BucketOf(n.key) = k
        BY <3>4, <3>6, <3>7, <4>2
      <4> QED
        BY <2>3, <3>10, <3>13, <4>1, <4>2
    <3>14. Good(k + 1, t)
      BY <3>6, <3>11, <3>12, <3>13
    <3> HIDE DEF Good
    <3> QED
      BY <2>1, <3>14 DEF t
  <2> QED
    BY <2>4, <2>5
<1>7. N \in Inv
  <2> HIDE DEF Inv
  <2>1. 0 .. N \subseteq Inv
    BY <1>1, <1>5, <1>6, BoundedInduction
  <2> QED
    BY <1>1, <2>1
<1> DEFINE s == f[N]
<1>8. /\ \A i \in 1 .. Len(s) : s[i] \in A
      /\ \A i, j \in 1 .. Len(s) : s[i] = s[j] => i = j
      /\ \A n \in A : \E i \in 1 .. Len(s) : s[i] = n
  <2>1. \A n \in A : BucketOf(n.key) < N
    BY <1>1, <1>3, <1>4
  <2> QED
    BY <1>7, <2>1
<1>9. s \in Seq(HNodes)
  <2>1. s \in Seq(Cells(HNodes)) /\ Len(s) \in Nat /\ DOMAIN s = 1 .. Len(s)
    BY <1>1, <1>2
  <2>2. s \in [1 .. Len(s) -> HNodes]
    BY <1>3, <1>8, <2>1
  <2> QED
    BY <2>1, <2>2, FunctionIsSeq
<1> QED
  BY <1>2, <1>3, <1>8, <1>9 DEF A

(* What a traversal meets: all the keys, or those up to stop. *)
LEMMA TraverseOK ==
    ASSUME AreBuckets(buckets), NEW stop, Hashmap_traverse(stop)
    PROVE  /\ buckets' = buckets /\ asked' = <<"traverse", stop>>
           /\ ToSet(visited') \subseteq {n.key : n \in AllNodes(buckets)}
           /\ IsInjective(visited')
           /\ (\E n \in AllNodes(buckets) : n.key = stop) =>
                visited' # <<>> /\ Last(visited') = stop /\ returned' = 1
           /\ ~(\E n \in AllNodes(buckets) : n.key = stop) =>
                /\ ToSet(visited') = {n.key : n \in AllNodes(buckets)}
                /\ returned' = 0
<1> DEFINE s == Nodes(buckets)
           A == AllNodes(buckets)
           n == Len(s)
           keys == [i \in DOMAIN s |-> s[i].key]
           I == {i \in 1 .. Len(keys) : keys[i] = stop}
           at == IF I # {} THEN Min(I) ELSE 0
<1>1. /\ s \in Seq(HNodes)
      /\ \A i \in 1 .. n : s[i] \in A
      /\ \A m \in A : \E i \in 1 .. n : s[i] = m
      /\ \A i, j \in 1 .. n : s[i].key = s[j].key => i = j
  BY NodesOK
<1>2. n \in Nat /\ DOMAIN s = 1 .. n /\ \A i \in 1 .. n : s[i] \in HNodes
  BY <1>1
<1>3. /\ visited' = IF at = 0 THEN keys ELSE SubSeq(keys, 1, at)
      /\ returned' = IF at = 0 THEN 0 ELSE 1
      /\ buckets' = buckets /\ asked' = <<"traverse", stop>>
  BY DEF Hashmap_traverse, SelectInSeq
<1>4. keys \in [1 .. n -> Keys] /\ \A i \in 1 .. n : keys[i] = s[i].key
  BY <1>2, HNodesOK
<1> HIDE DEF keys, n, s
<1>5. keys \in Seq(Keys) /\ Len(keys) = n
  BY <1>2, <1>4, FunctionIsSeq
<1>6. /\ \A i, j \in 1 .. n : keys[i] = keys[j] => i = j
      /\ \A i \in 1 .. n : keys[i] \in {m.key : m \in A}
      /\ \A m \in A : \E i \in 1 .. n : keys[i] = m.key
  BY <1>1, <1>4
<1>7. ToSet(keys) = {m.key : m \in A}
  BY <1>4, <1>6 DEF ToSet
<1>8. I \in SUBSET (1 .. n) /\ (I # {} <=> \E m \in A : m.key = stop)
      /\ \A i \in I : keys[i] = stop
  <2>1. I = {i \in 1 .. n : keys[i] = stop}
    BY <1>5
  <2> HIDE DEF I
  <2>2. I \in SUBSET (1 .. n) /\ \A i \in I : keys[i] = stop
    BY <2>1
  <2>3. I # {} <=> \E i \in 1 .. n : keys[i] = stop
    BY <2>1
  <2> HIDE DEF A
  <2>4. ASSUME NEW i \in 1 .. n, keys[i] = stop PROVE \E m \in A : m.key = stop
    BY <1>6, <2>4
  <2>5. ASSUME NEW m \in A, m.key = stop PROVE \E i \in 1 .. n : keys[i] = stop
    BY <1>6, <2>5
  <2> QED
    BY ONLY <2>2, <2>3, <2>4, <2>5
<1> HIDE DEF I
<1>9. CASE I = {}
  <2>1. visited' = keys /\ returned' = 0
    BY <1>3, <1>9
  <2>2. IsInjective(keys)
    BY <1>4, <1>6 DEF IsInjective
  <2> QED
    BY <1>3, <1>7, <1>8, <1>9, <2>1, <2>2
<1>10. CASE I # {}
  <2>1. at = Min(I) /\ Min(I) \in 1 .. n /\ keys[Min(I)] = stop
    BY <1>2, <1>8, <1>10, MinOfIndexes
  <2> DEFINE a == Min(I)
             t == SubSeq(keys, 1, a)
  <2> HIDE DEF a
  <2>2. a \in 1 .. n /\ at = a /\ keys[a] = stop /\ a \in Nat /\ a # 0
    BY <1>2, <2>1 DEF a
  <2>3. visited' = t /\ returned' = 1
    BY <1>3, <2>2
  <2>4. \A i \in 1 .. a : i \in 1 .. n /\ keys[i] \in Keys
    BY <1>2, <1>4, <2>2
  <2>5. t = [i \in 1 .. a |-> keys[i]]
    BY <1>5, <2>2, <2>4
  <2> HIDE DEF t
  <2>6. t \in [1 .. a -> Keys]
    BY <2>4, <2>5
  <2>7. t \in Seq(Keys) /\ Len(t) = a
    BY <2>2, <2>6, FunctionIsSeq
  <2>8. \A i \in 1 .. a : t[i] = keys[i]
    BY <2>5
  <2>9. \A i, j \in 1 .. a : t[i] = t[j] => i = j
    BY <1>6, <2>4, <2>8
  <2>10. IsInjective(t)
    BY <2>6, <2>9 DEF IsInjective
  <2>11. ToSet(t) \subseteq {m.key : m \in A}
    BY <1>6, <2>4, <2>6, <2>8 DEF ToSet
  <2>12. t # <<>> /\ Last(t) = stop
    BY <2>2, <2>7, <2>8 DEF Last
  <2> QED
    BY <1>3, <1>8, <1>10, <2>3, <2>10, <2>11, <2>12
<1> QED
  BY <1>9, <1>10

(* Buckets, colliding hashes, growth and the swap of Hashmap_delete        *)
(* implement a partial function, and a traversal meets every entry once,   *)
(* for all hash functions and all numbers of keys and buckets.             *)
THEOREM HashmapIsAMap == HashmapSpec => IsAMap
<1>1. HashmapInit => Map!Init
  <2> SUFFICES ASSUME HashmapInit PROVE Map!Init
    OBVIOUS
  <2>1. buckets = <<>> /\ AllNodes(buckets) = {}
    BY DEF HashmapInit, Hashmap_create, AllNodes
  <2>2. Contents = <<>>
    BY <2>1, ContentsIs DEF ContentsOf
  <2> QED
    BY <2>2 DEF HashmapInit, Map!Init
<1>2. AreBuckets(buckets) /\ [HashmapNext]_hashmapVars => [Map!Next]_(Map!mapVars)
  <2> SUFFICES ASSUME AreBuckets(buckets), [HashmapNext]_hashmapVars
               PROVE  Map!Next \/ UNCHANGED Map!mapVars
    OBVIOUS
  <2> DEFINE C == Contents
             A == AllNodes(buckets)
  <2>1. Contents = ContentsOf(buckets) /\ Contents' = ContentsOf(buckets')
    BY ContentsIs DEF Contents, ContentsOf, AllNodes
  <2>2. /\ DOMAIN C = {n.key : n \in A}
        /\ \A n \in A : C[n.key] = n.data
        /\ \A k : k \in DOMAIN C <=> \E n \in A : n.key = k
    <3> DEFINE E == ContentsOf(buckets)
    <3>1. DOMAIN E = {n.key : n \in A} /\ \A n \in A : E[n.key] = n.data
      BY ContentsOK
    <3>2. C = E
      BY <2>1
    <3> HIDE DEF C, E, A
    <3> QED
      BY <3>1, <3>2
  <2> DEFINE D == ContentsOf(buckets')
             B == AllNodes(buckets')
  <2>3. AreBuckets(buckets') => /\ D = [k \in DOMAIN D |-> D[k]]
                                /\ DOMAIN D = {n.key : n \in B}
                                /\ \A n \in B : D[n.key] = n.data
                                /\ \A k : k \in DOMAIN D <=> \E n \in B : n.key = k
    BY ContentsOK
  <2>4. B = A => D = ContentsOf(buckets)
    BY DEF ContentsOf
  <2>5. ASSUME NEW k \in Keys, NEW d \in Data, Hashmap_set(k, d) PROVE Map!Set(k, d)
    <3>1. asked' = <<"set", k, d>> /\ visited' = <<>>
      BY <2>5 DEF Hashmap_set
    <3>2. CASE k \in DOMAIN C
      <4>1. returned' = -1 /\ B = A
        BY <2>2, <2>5, <3>2, HashmapSetOK
      <4> QED
        BY <2>1, <2>4, <3>1, <3>2, <4>1 DEF Map!Set
    <3>3. CASE k \notin DOMAIN C
      <4>1. returned' = 0 /\ B = A \cup {HashmapNode(k, d)} /\ AreBuckets(buckets')
        BY <2>2, <2>5, <3>3, HashmapSetOK
      <4>2. HashmapNode(k, d).key = k /\ HashmapNode(k, d).data = d
        BY NewNodeOK
      <4> HIDE DEF C, D, A, B
      <4>3. DOMAIN D = DOMAIN C \cup {k}
        BY <2>2, <2>3, <4>1, <4>2
      <4>4. ASSUME NEW key \in DOMAIN D
            PROVE  D[key] = IF key = k THEN d ELSE C[key]
        <5>1. CASE key = k
          BY <2>3, <4>1, <4>2, <5>1
        <5>2. CASE key # k
          <6>1. PICK n \in A : n.key = key
            BY <2>2, <4>3, <5>2
          <6>2. n \in B
            BY <4>1
          <6> QED
            BY <2>2, <2>3, <4>1, <5>2, <6>1, <6>2
        <5> QED
          BY <5>1, <5>2
      <4>5. D = [key \in DOMAIN C \cup {k} |-> IF key = k THEN d ELSE C[key]]
        BY <2>3, <4>1, <4>3, <4>4
      <4>6. Contents' = D
        BY <2>1 DEF D
      <4> QED
        BY <3>1, <3>3, <4>1, <4>5, <4>6 DEF Map!Set, C
    <3> QED
      BY <3>2, <3>3
  <2>6. ASSUME NEW k \in Keys, Hashmap_get(k) PROVE Map!Get(k)
    <3>1. asked' = <<"get", k>> /\ visited' = <<>> /\ buckets' = buckets
          /\ returned' = IF Find(k) = -1 THEN NULL
                         ELSE DArray_get(buckets[BucketOf(k)], Find(k)).data
      BY <2>6 DEF Hashmap_get
    <3>2. returned' = IF k \in DOMAIN C THEN C[k] ELSE NULL
      BY <2>2, <3>1, FindOK
    <3> QED
      BY <2>1, <3>1, <3>2 DEF Map!Get
  <2>7. ASSUME NEW k \in Keys, Hashmap_delete(k) PROVE Map!Delete(k)
    <3>1. asked' = <<"delete", k>> /\ visited' = <<>>
      BY <2>7 DEF Hashmap_delete
    <3>2. /\ AreBuckets(buckets') /\ B = {n \in A : n.key # k}
          /\ \A n \in A : n.key = k => returned' = n.data
          /\ ~(\E n \in A : n.key = k) => returned' = NULL
      BY <2>7, HashmapDeleteOK
    <3>3. returned' = IF k \in DOMAIN C THEN C[k] ELSE NULL
      BY <2>2, <3>2
    <3> HIDE DEF C, D, A, B
    <3>4. DOMAIN D = DOMAIN C \ {k}
      BY <2>2, <2>3, <3>2
    <3>5. \A key \in DOMAIN D : D[key] = C[key]
      BY <2>2, <2>3, <3>2
    <3>6. D = [key \in DOMAIN C \ {k} |-> C[key]]
      BY <2>3, <3>2, <3>4, <3>5
    <3>7. Contents' = D
      BY <2>1 DEF D
    <3> QED
      BY <3>1, <3>3, <3>6, <3>7 DEF Map!Delete, C
  <2>8. ASSUME NEW stop \in Keys \cup {NULL}, Hashmap_traverse(stop)
        PROVE  Map!Traverse(stop)
    <3>1. /\ buckets' = buckets /\ asked' = <<"traverse", stop>>
          /\ ToSet(visited') \subseteq DOMAIN C
          /\ IsInjective(visited')
          /\ stop \in DOMAIN C =>
               visited' # <<>> /\ Last(visited') = stop /\ returned' = 1
          /\ stop \notin DOMAIN C => ToSet(visited') = DOMAIN C /\ returned' = 0
      BY <2>2, <2>8, TraverseOK
    <3> QED
      BY <2>1, <3>1 DEF Map!Traverse, Map!ToSet, ToSet, Map!Last, Last,
         Map!IsInjective, IsInjective
  <2>9. CASE Hashmap_destroy
    <3>1. /\ asked' = <<"destroy">> /\ returned' = NULL /\ visited' = <<>>
          /\ buckets' = <<>>
      BY <2>9 DEF Hashmap_destroy, Hashmap_create
    <3>2. Contents' = <<>>
      BY <2>1, <3>1 DEF ContentsOf, AllNodes
    <3> QED
      BY <3>1, <3>2 DEF Map!Next, Map!Destroy
  <2>10. CASE UNCHANGED hashmapVars
    BY <2>1, <2>10 DEF hashmapVars, Map!mapVars
  <2>11. CASE \E k \in Keys, d \in Data : Hashmap_set(k, d)
    BY <2>5, <2>11 DEF Map!Next
  <2>12. CASE \E k \in Keys : Hashmap_get(k) \/ Hashmap_delete(k)
    BY <2>6, <2>7, <2>12 DEF Map!Next
  <2>13. CASE \E stop \in Keys \cup {NULL} : Hashmap_traverse(stop)
    BY <2>8, <2>13 DEF Map!Next
  <2> QED
    BY <2>9, <2>10, <2>11, <2>12, <2>13 DEF HashmapNext
<1> QED
  BY <1>1, <1>2, HashmapInductive, PTL DEF HashmapSpec, IsAMap, Map!Spec

=============================================================================
