----------------------------- MODULE FoldLemmas -----------------------------
(***************************************************************************)
(* Induction over the naturals, stated with sets so that it can be cited,  *)
(* and what it says of FoldLeft (SequencesExt), by which the loops over    *)
(* close nodes, over the lines of a dump and over an array are written.    *)
(* FoldLeft is a recursive function on the sets of indexes that have been  *)
(* visited; the step is given here as a function Step.                     *)
(***************************************************************************)
EXTENDS Integers, SequencesExt, FiniteSetTheorems, SequenceTheorems,
        WellFoundedInduction, TLAPS

(* Every non-empty set of naturals has a least element: the set 0 .. x is  *)
(* minimal for inclusion when x is minimal.                                *)
LEMMA LeastNatural ==
    ASSUME NEW S \in SUBSET Nat, S # {}
    PROVE  \E x \in S : \A y \in S : x <= y
<1> DEFINE T == {0 .. x : x \in S}
<1>1. T \subseteq FiniteSubsetsOf(Nat) /\ T # {}
  <2>1. \A x \in S : 0 .. x \in SUBSET Nat /\ IsFiniteSet(0 .. x)
    BY FS_Interval
  <2> QED
    BY <2>1 DEF FiniteSubsetsOf
<1>2. \E a \in T : \A b \in T : ~(<<b, a>> \in StrictSubsetOrdering(Nat))
  BY <1>1, FS_StrictSubsetOrderingWellFounded, WFMin
<1>3. PICK x \in S : \A y \in S :
          ~(<<0 .. y, 0 .. x>> \in StrictSubsetOrdering(Nat))
  BY <1>2
<1>4. ASSUME NEW y \in S, y < x PROVE FALSE
  <2>1. 0 .. y \subseteq 0 .. x /\ 0 .. y # 0 .. x
    BY <1>4
  <2>2. 0 .. y \in SUBSET Nat /\ 0 .. x \in SUBSET Nat
    OBVIOUS
  <2> QED
    BY <1>3, <2>1, <2>2 DEF StrictSubsetOrdering
<1> QED
  BY <1>4

(* A set that holds 0 and, with every number up to n, the next one, holds  *)
(* all numbers up to n.                                                    *)
LEMMA BoundedInduction ==
    ASSUME NEW n \in Nat, NEW S, 0 \in S,
           \A k \in 0 .. n - 1 : k \in S => k + 1 \in S
    PROVE  0 .. n \subseteq S
<1> DEFINE T == {k \in 0 .. n : k \notin S}
<1> SUFFICES ASSUME T # {} PROVE FALSE
  OBVIOUS
<1>1. T \in SUBSET Nat
  OBVIOUS
<1>2. PICK m \in T : \A k \in T : m <= k
  BY <1>1, LeastNatural
<1>3. m # 0 /\ m \in 1 .. n
  OBVIOUS
<1>4. m - 1 \in 0 .. n - 1 /\ m - 1 \notin T
  BY <1>2, <1>3
<1>5. m - 1 \in S
  BY <1>4
<1> QED
  BY <1>3, <1>4, <1>5

(* The last of the visited indexes. *)
LEMMA MaxOfIndexes ==
    ASSUME NEW n \in Nat, NEW s \in SUBSET (1 .. n), s # {}
    PROVE  Max(s) \in s /\ \A i \in s : i <= Max(s)
<1> DEFINE T == {n - i : i \in s}
<1>1. \A i \in s : i \in Nat /\ n - i \in Nat
  OBVIOUS
<1>2. T \in SUBSET Nat /\ T # {}
  BY <1>1
<1>3. PICK m \in T : \A k \in T : m <= k
  BY <1>2, LeastNatural
<1>4. PICK x \in s : \A y \in s : n - x <= n - y
  BY <1>3
<1>5. \A y \in s : x >= y
  BY <1>1, <1>4
<1> HIDE DEF T
<1>6. Max(s) \in s /\ \A y \in s : Max(s) >= y
  BY <1>5 DEF Max
<1> QED
  BY <1>1, <1>6

(* A function on 1 .. n is a sequence of length n. *)
LEMMA FunctionIsSeq ==
    ASSUME NEW S, NEW n \in Nat, NEW f \in [1 .. n -> S]
    PROVE  f \in Seq(S) /\ Len(f) = n
<1>1. f \in Seq(S)
  BY SeqDef
<1>2. DOMAIN f = 1 .. Len(f) /\ Len(f) \in Nat
  BY <1>1, LenProperties
<1>3. 1 .. Len(f) = 1 .. n
  BY <1>2
<1> QED
  BY <1>1, <1>2, <1>3

-----------------------------------------------------------------------------
(* The recursion of FoldLeft. *)
IsFold(h, n, base, Step) ==
    \A s \in SUBSET (1 .. n) :
        h[s] = IF s = {} THEN base ELSE Step[<<Max(s), h[s \ {Max(s)}]>>]

(* There is a function that satisfies it. *)
LEMMA FoldExists ==
    ASSUME NEW n \in Nat, NEW Acc, NEW base \in Acc,
           NEW Step \in [(1 .. n) \X Acc -> Acc]
    PROVE  \E h \in [SUBSET (1 .. n) -> Acc] : IsFold(h, n, base, Step)
<1> DEFINE D(k) == {s \in SUBSET (1 .. n) : Cardinality(s) <= k}
           Solves(h, k) ==
               \A s \in D(k) : h[s] = IF s = {} THEN base
                                      ELSE Step[<<Max(s), h[s \ {Max(s)}]>>]
           S == {k \in Nat : \E h \in [D(k) -> Acc] : Solves(h, k)}
<1>1. \A s \in SUBSET (1 .. n) : IsFiniteSet(s) /\ Cardinality(s) \in 0 .. n
  <2>1. IsFiniteSet(1 .. n) /\ Cardinality(1 .. n) = n
    BY FS_Interval
  <2> SUFFICES ASSUME NEW s \in SUBSET (1 .. n)
               PROVE  IsFiniteSet(s) /\ Cardinality(s) \in 0 .. n
    OBVIOUS
  <2>2. IsFiniteSet(s) /\ Cardinality(s) <= Cardinality(1 .. n)
    BY <2>1, FS_Subset
  <2> QED
    BY <2>1, <2>2, FS_CardinalityType
<1>2. 0 \in S
  <2> DEFINE h == [s \in D(0) |-> base]
  <2>1. \A s \in D(0) : s = {}
    BY <1>1, FS_EmptySet
  <2>2. h \in [D(0) -> Acc] /\ Solves(h, 0)
    BY <2>1
  <2> QED
    BY <2>2
<1>3. ASSUME NEW k \in 0 .. n - 1, k \in S PROVE k + 1 \in S
  <2>1. PICK g \in [D(k) -> Acc] : Solves(g, k)
    BY <1>3
  <2> DEFINE h == [s \in D(k + 1) |-> IF s \in D(k) THEN g[s]
                                      ELSE Step[<<Max(s), g[s \ {Max(s)}]>>]]
  <2>2. ASSUME NEW s \in D(k + 1), s # {}
        PROVE  /\ Max(s) \in 1 .. n
               /\ s \ {Max(s)} \in D(k) /\ s \ {Max(s)} \in D(k + 1)
    <3>1. Max(s) \in s
      BY <2>2, MaxOfIndexes
    <3>2. s \in SUBSET (1 .. n) /\ Cardinality(s) <= k + 1
      OBVIOUS
    <3>3. IsFiniteSet(s) /\ Cardinality(s) \in Nat
      BY <1>1, <3>2
    <3>4. Cardinality(s \ {Max(s)}) = Cardinality(s) - 1
      BY <3>1, <3>3, FS_RemoveElement
    <3>5. Max(s) \in 1 .. n /\ s \ {Max(s)} \in SUBSET (1 .. n)
      BY <3>1, <3>2
    <3> QED
      BY <3>2, <3>3, <3>4, <3>5
  <2>3. \A s \in D(k + 1) : s \notin D(k) => s # {}
    BY <1>1, FS_EmptySet
  <2>4. \A s \in D(k) : s \in D(k + 1)
    BY <1>1
  <2>5. h \in [D(k + 1) -> Acc]
    <3> SUFFICES ASSUME NEW s \in D(k + 1) PROVE h[s] \in Acc
      OBVIOUS
    <3>1. CASE s \in D(k)
      BY <3>1
    <3>2. CASE s \notin D(k)
      <4>1. /\ Max(s) \in 1 .. n /\ s \ {Max(s)} \in D(k)
        BY <2>2, <2>3, <3>2
      <4> QED
        BY <3>2, <4>1
    <3> QED
      BY <3>1, <3>2
  <2>6. Solves(h, k + 1)
    <3> SUFFICES ASSUME NEW s \in D(k + 1)
                 PROVE  h[s] = IF s = {} THEN base
                               ELSE Step[<<Max(s), h[s \ {Max(s)}]>>]
      OBVIOUS
    <3>1. CASE s = {}
      <4>1. s \in D(k)
        BY <3>1, FS_EmptySet
      <4> QED
        BY <2>1, <3>1, <4>1
    <3>2. CASE s # {}
      <4>1. /\ s \ {Max(s)} \in D(k) /\ s \ {Max(s)} \in D(k + 1)
        BY <2>2, <3>2
      <4>2. h[s \ {Max(s)}] = g[s \ {Max(s)}]
        BY <4>1
      <4>3. h[s] = Step[<<Max(s), g[s \ {Max(s)}]>>]
        BY <2>1, <3>2
      <4> QED
        BY <3>2, <4>2, <4>3
    <3> QED
      BY <3>1, <3>2
  <2> HIDE DEF h
  <2>7. \E f \in [D(k + 1) -> Acc] : Solves(f, k + 1)
    BY <2>5, <2>6
  <2>8. k + 1 \in Nat
    OBVIOUS
  <2> HIDE DEF D, Solves
  <2> QED
    BY <2>7, <2>8
<1>4. n \in S
  <2> HIDE DEF S
  <2> QED
    BY <1>2, <1>3, BoundedInduction
<1>5. D(n) = SUBSET (1 .. n)
  BY <1>1
<1> QED
  BY <1>4, <1>5 DEF IsFold

(* It goes through the indexes in their order: before k + 1 comes k. *)
LEMMA FoldOrder ==
    ASSUME NEW n \in Nat, NEW k \in 0 .. n - 1
    PROVE  /\ k \in Nat /\ k + 1 \in 1 .. n /\ k + 1 \in 0 .. n
           /\ 1 .. k + 1 \in SUBSET (1 .. n) /\ 1 .. k + 1 # {}
           /\ Max(1 .. k + 1) = k + 1
           /\ (1 .. k + 1) \ {k + 1} = 1 .. k
           /\ 1 .. 0 = {} /\ {} \in SUBSET (1 .. n)
<1>1. 1 .. k + 1 \in SUBSET (1 .. n) /\ k + 1 \in 1 .. k + 1
  OBVIOUS
<1>2. Max(1 .. k + 1) = k + 1
  <2>1. /\ Max(1 .. k + 1) \in 1 .. k + 1
        /\ \A i \in 1 .. k + 1 : i <= Max(1 .. k + 1)
    BY <1>1, MaxOfIndexes
  <2> QED
    BY <1>1, <2>1
<1> QED
  BY <1>1, <1>2

(* The last element of a sequence and those before it. *)
LEMMA FrontLastOK ==
    ASSUME NEW S, NEW s \in Seq(S), s # <<>>
    PROVE  /\ Last(s) \in S /\ Last(s) = s[Len(s)]
           /\ Front(s) \in Seq(S)
           /\ Len(Front(s)) = Len(s) - 1
           /\ \A i \in 1 .. Len(s) - 1 : Front(s)[i] = s[i]
<1>1. Len(s) \in Nat /\ Len(s) # 0
  OBVIOUS
<1>2. s[Len(s)] \in S
  BY <1>1
<1> DEFINE n == Len(s) - 1
<1>3. n \in Int /\ 1 \in Int /\ \A i \in 1 .. n : s[i] \in S
  BY <1>1
<1>4. /\ SubSeq(s, 1, n) \in Seq(S)
      /\ Len(SubSeq(s, 1, n)) = IF 1 <= n THEN n - 1 + 1 ELSE 0
      /\ \A i \in 1 .. n - 1 + 1 : SubSeq(s, 1, n)[i] = s[1 + i - 1]
  <2> HIDE DEF n
  <2> QED
    BY <1>3, SubSeqProperties
<1>5. /\ Len(SubSeq(s, 1, n)) = n
      /\ \A i \in 1 .. n : SubSeq(s, 1, n)[i] = s[i]
  <2>1. n \in Nat
    BY <1>1
  <2> HIDE DEF n
  <2>2. n - 1 + 1 = n /\ (1 <= n \/ n = 0)
    BY <2>1
  <2>3. \A i \in 1 .. n : 1 + i - 1 = i
    OBVIOUS
  <2> QED
    BY <1>4, <2>2, <2>3
<1> QED
  BY <1>2, <1>4, <1>5 DEF Front, Last

=============================================================================
