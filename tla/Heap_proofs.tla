----------------------------- MODULE Heap_proofs -----------------------------
(***************************************************************************)
(* Theorems about the heap of the runtime, as MCHeap puts it together: the   *)
(* finalizers, for any number of threads, objects and entries; a collection, *)
(* for any number of mark threads and objects, any references, and any       *)
(* number of thieves and items of a queue; and what holds of the whole.      *)
(*                                                                           *)
(* FinShape says who is in which critical section and what its locals can    *)
(* be, DueInv why an entry is scheduled.  FinSlots is about the race that    *)
(* jl_gc_add_finalizer_ and finalize_object have without a common lock: what *)
(* a thread has read of a list and will write stays right although others    *)
(* write.  OneEach counts: the weight of an entry, over its slots, the lists *)
(* of the collector, the list being copied, the batches being run and the    *)
(* runs that are over, is one from the moment it is registered.              *)
(***************************************************************************)
EXTENDS MCHeap, Sums, SequenceTheorems

-----------------------------------------------------------------------------
(* How often an entry is in a list.                                         *)

Tally(s, n) == Cardinality({i \in DOMAIN s : s[i] = n})

LEMMA CountIsTally == \A s, n : Fin!Count(s, n) = Tally(s, n)
BY DEF Fin!Count, Tally, Fin!Cardinality, Cardinality

LEMMA TallyType ==
  ASSUME NEW T, NEW s \in Seq(T)
  PROVE  \A n : Tally(s, n) \in Nat /\ (Tally(s, n) = 0 <=> n \notin ToSet(s))
<1> SUFFICES ASSUME NEW n PROVE Tally(s, n) \in Nat /\ (Tally(s, n) = 0 <=> n \notin ToSet(s))
  OBVIOUS
<1>1. IsFiniteSet(1..Len(s)) /\ DOMAIN s = 1..Len(s)
  BY FS_Interval
<1>2. IsFiniteSet({i \in DOMAIN s : s[i] = n})
  BY <1>1, FS_Subset
<1> QED
  BY <1>2, FS_CardinalityType, FS_EmptySet DEF Tally, ToSet

LEMMA TallyConcat ==
  ASSUME NEW T, NEW s \in Seq(T), NEW r \in Seq(T)
  PROVE  \A n : Tally(s \o r, n) = Tally(s, n) + Tally(r, n)
<1> SUFFICES ASSUME NEW n PROVE Tally(s \o r, n) = Tally(s, n) + Tally(r, n)
  OBVIOUS
<1> DEFINE k == Len(s)
           A == {i \in DOMAIN s : s[i] = n}
           B == {i \in DOMAIN r : r[i] = n}
           C == {i \in DOMAIN (s \o r) : (s \o r)[i] = n}
           D == C \ A
<1>1. /\ k \in Nat /\ Len(r) \in Nat /\ DOMAIN s = 1..k /\ DOMAIN r = 1..Len(r)
      /\ DOMAIN (s \o r) = 1..k + Len(r)
      /\ \A i \in 1..k : (s \o r)[i] = s[i]
      /\ \A i \in 1..Len(r) : (s \o r)[k + i] = r[i]
  OBVIOUS
<1> HIDE DEF k
<1>2. A \subseteq C /\ C = A \cup D /\ A \cap D = {}
  BY <1>1
<1>3. \A i \in D : i \in Int /\ i > k /\ i - k \in B
  <2> SUFFICES ASSUME NEW i \in D PROVE i \in Int /\ i > k /\ i - k \in B
    OBVIOUS
  <2>1. i \in 1..k + Len(r) /\ (s \o r)[i] = n /\ i > k
    BY <1>1
  <2>2. i - k \in 1..Len(r) /\ k + (i - k) = i
    BY <1>1, <2>1
  <2> QED
    BY <1>1, <2>1, <2>2
<1>4. \A i \in B : i \in Int /\ k + i \in D /\ (k + i) - k = i
  BY <1>1
<1>5. IsFiniteSet(A) /\ IsFiniteSet(B)
  <2>1. IsFiniteSet(1..k) /\ IsFiniteSet(1..Len(r))
    BY <1>1, FS_Interval
  <2>2. A \in SUBSET (1..k) /\ B \in SUBSET (1..Len(r))
    BY <1>1
  <2> QED
    BY <2>1, <2>2, FS_Subset
<1>6. ExistsBijection(B, D)
  <2> DEFINE f == [i \in B |-> k + i]
  <2>1. f \in [B -> D]
    BY <1>4
  <2>2. \A i, j \in B : f[i] = f[j] => i = j
    BY <1>4, <1>1
  <2>3. \A i \in D : i - k \in B /\ f[i - k] = i
    BY <1>3, <1>1
  <2> HIDE DEF f, B, D
  <2> QED
    BY <2>1, <2>2, <2>3 DEF ExistsBijection, Bijection, Injection, Surjection, IsInjective
<1>7. IsFiniteSet(D) /\ Cardinality(D) = Cardinality(B)
  BY <1>5, <1>6, FS_Bijection
<1> HIDE DEF A, B, C, D
<1>8. Cardinality(C) = Cardinality(A) + Cardinality(D)
  <2>1. Cardinality(A \cup D) = Cardinality(A) + Cardinality(D) - Cardinality(A \cap D)
    BY <1>5, <1>7, FS_Union
  <2>2. Cardinality(A) \in Nat /\ Cardinality(D) \in Nat /\ Cardinality(A \cap D) = 0
    BY <1>2, <1>5, <1>7, FS_EmptySet, FS_CardinalityType
  <2> QED
    BY <1>2, <2>1, <2>2
<1> QED
  BY <1>7, <1>8 DEF Tally, A, B, C

\* A list of at most one element.
LEMMA TallySingle ==
  /\ \A x, n : Tally(<<x>>, n) = IF x = n THEN 1 ELSE 0
  /\ \A n : Tally(<< >>, n) = 0
<1> SUFFICES ASSUME NEW x, NEW n
             PROVE  Tally(<<x>>, n) = (IF x = n THEN 1 ELSE 0) /\ Tally(<< >>, n) = 0
  OBVIOUS
<1>1. DOMAIN <<x>> = {1} /\ <<x>>[1] = x
  OBVIOUS
<1>2. {i \in DOMAIN <<x>> : <<x>>[i] = n} = IF x = n THEN {1} ELSE {}
  BY <1>1
<1>3. {i \in DOMAIN << >> : << >>[i] = n} = {}
  OBVIOUS
<1>4. Cardinality({1}) = 1 /\ Cardinality({}) = 0
  BY FS_Singleton, FS_EmptySet
<1> QED
  BY <1>2, <1>3, <1>4 DEF Tally

-----------------------------------------------------------------------------
(* The entries of a list that are in a set.                                 *)

IsKept(g, s, S) ==
  g = [i \in 0..Len(s) |->
         IF i = 0 THEN << >> ELSE g[i - 1] \o (IF s[i] \in S THEN <<s[i]>> ELSE << >>)]

LEMMA KeptIs ==
  ASSUME NEW T, NEW s \in Seq(T), NEW S
  PROVE  \E g : IsKept(g, s, S) /\ Fin!Kept(s, S) = g[Len(s)]
<1> DEFINE kept[i \in 0..Len(s)] ==
             IF i = 0 THEN << >> ELSE kept[i - 1] \o (IF s[i] \in S THEN <<s[i]>> ELSE << >>)
<1>1. Fin!Kept(s, S) = kept[Len(s)]
  BY DEF Fin!Kept
<1>2. kept = CHOOSE g : IsKept(g, s, S)
  BY DEF IsKept
<1> HIDE DEF kept
<1>3. \E g : IsKept(g, s, S)
  <2> DEFINE n == Len(s)
             X == Seq(T)
             step == [x \in (1..n) \X X |->
                        x[2] \o (IF s[x[1]] \in S THEN <<s[x[1]]>> ELSE << >>)]
  <2>1. n \in Nat /\ << >> \in X /\ \A i \in 1..n : s[i] \in T
    OBVIOUS
  <2>2. ASSUME NEW x \in (1..n) \X X
        PROVE  x[2] \o (IF s[x[1]] \in S THEN <<s[x[1]]>> ELSE << >>) \in X
    <3>1. x[2] \in Seq(T) /\ s[x[1]] \in T
      BY <2>1
    <3>2. <<s[x[1]]>> \in Seq(T)
      BY <3>1
    <3> QED
      BY <3>1, <3>2
  <2>3. step \in [(1..n) \X X -> X]
    BY <2>2
  <2>4. \A i \in 1..n, x \in X :
          step[<<i, x>>] = x \o (IF s[i] \in S THEN <<s[i]>> ELSE << >>)
    OBVIOUS
  <2> HIDE DEF step, X, n
  <2> DEFINE base == << >>
  <2>5. base \in X
    BY <2>1
  <2> HIDE DEF base
  <2>6. PICK f : Computes(f, n, X, base, step)
    BY <2>1, <2>3, <2>5, PrefixRecursion
  <2>7. /\ f \in [0..n -> X] /\ f[0] = base
        /\ \A i \in 1..n : f[i] = step[<<i, f[i - 1]>>]
    BY <2>6 DEF Computes
  <2>8. \A i \in 1..n : f[i] = f[i - 1] \o (IF s[i] \in S THEN <<s[i]>> ELSE << >>)
    <3> SUFFICES ASSUME NEW i \in 1..n
                 PROVE  f[i] = f[i - 1] \o (IF s[i] \in S THEN <<s[i]>> ELSE << >>)
      OBVIOUS
    <3>1. f[i - 1] \in X
      BY <2>1, <2>7
    <3> QED
      BY <2>4, <2>7, <3>1
  <2>9. \A i \in 0..n : f[i] = IF i = 0 THEN << >>
                               ELSE f[i - 1] \o (IF s[i] \in S THEN <<s[i]>> ELSE << >>)
    <3>1. \A i \in 0..n : i = 0 \/ (i # 0 /\ i \in 1..n)
      BY <2>1
    <3> QED
      BY <2>7, <2>8, <3>1 DEF base
  <2>10. f = [i \in 0..n |-> f[i]]
    BY <2>7
  <2>11. IsKept(f, s, S)
    BY <2>9, <2>10 DEF IsKept, n
  <2> QED
    BY <2>11
<1> QED
  BY <1>1, <1>2, <1>3

\* They are in the set and as often in what is kept as in the list; what is not
\* shorter is the whole list.
LEMMA KeptElements ==
  ASSUME NEW T, NEW s \in Seq(T), NEW S
  PROVE  /\ Fin!Kept(s, S) \in Seq(T \cap S)
         /\ Len(Fin!Kept(s, S)) <= Len(s)
         /\ Len(Fin!Kept(s, S)) = Len(s) => ToSet(s) \subseteq S
         /\ \A n : Tally(Fin!Kept(s, S), n) = IF n \in S THEN Tally(s, n) ELSE 0
<1> DEFINE m == Len(s)
           Part(i) == SubSeq(s, 1, i)
<1>1. PICK g : IsKept(g, s, S) /\ Fin!Kept(s, S) = g[m]
  BY KeptIs
<1>2. m \in Nat /\ \A i \in 1..m : s[i] \in T
  OBVIOUS
<1>3. /\ g[0] = << >>
      /\ \A i \in 1..m : g[i] = g[i - 1] \o (IF s[i] \in S THEN <<s[i]>> ELSE << >>)
  <2>1. \A i \in 0..m : g[i] = IF i = 0 THEN << >>
                               ELSE g[i - 1] \o (IF s[i] \in S THEN <<s[i]>> ELSE << >>)
    BY <1>1 DEF IsKept
  <2>2. 0 \in 0..m /\ \A i \in 1..m : i \in 0..m /\ i # 0
    BY <1>2
  <2> HIDE DEF m
  <2> QED
    BY <2>1, <2>2
<1> HIDE DEF m
<1> DEFINE Fine(i) == /\ g[i] \in Seq(T \cap S)
                      /\ Len(g[i]) <= i
                      /\ Len(g[i]) = i => \A j \in 1..i : s[j] \in S
                      /\ \A n : Tally(g[i], n) = IF n \in S THEN Tally(Part(i), n) ELSE 0
           Good == {i \in 0..m : Fine(i)}
<1>4. \A i \in 0..m : Part(i) \in Seq(T)
  BY <1>2 DEF m
<1>5. Part(0) = << >> /\ Part(m) = s
  BY SubSeqFull DEF m
<1>6. ASSUME NEW i \in 1..m PROVE Part(i) = Part(i - 1) \o <<s[i]>>
  BY SubSeqRecursiveSecond DEF m
<1> HIDE DEF Part
<1>7. Fine(0)
  BY <1>3, <1>5, TallySingle
<1>8. ASSUME NEW i \in 1..m, Fine(i - 1) PROVE Fine(i)
  <2> DEFINE h == g[i - 1]
             x == s[i]
  <2>1. h \in Seq(T \cap S) /\ Len(h) <= i - 1 /\ x \in T /\ i - 1 \in 0..m
    BY <1>2, <1>8
  <2>2. Part(i - 1) \in Seq(T) /\ <<x>> \in Seq(T)
    BY <1>4, <2>1
  <2>3. \A n : Tally(Part(i), n) = Tally(Part(i - 1), n) + (IF x = n THEN 1 ELSE 0)
    <3>1. \A n : Tally(<<x>>, n) = IF x = n THEN 1 ELSE 0
      BY TallySingle
    <3> HIDE DEF x
    <3>2. \A n : Tally(Part(i - 1) \o <<x>>, n) = Tally(Part(i - 1), n) + Tally(<<x>>, n)
      BY <2>2, TallyConcat
    <3> QED
      BY <1>6, <3>1, <3>2 DEF x
  <2>4. \A n : Tally(Part(i - 1), n) \in Nat
    BY <2>2, TallyType
  <2>5. CASE x \in S
    <3>1. g[i] = h \o <<x>> /\ <<x>> \in Seq(T \cap S) /\ Len(<<x>>) = 1
      <4>1. <<x>> \in Seq(T \cap S)
      BY <2>1, <2>5
    <4> QED
      BY <1>3, <2>5, <4>1
    <3>2. g[i] \in Seq(T \cap S) /\ Len(g[i]) = Len(h) + 1 /\ Len(h) \in Nat
      BY <2>1, <3>1
    <3>3. \A n : Tally(g[i], n) = Tally(h, n) + (IF x = n THEN 1 ELSE 0)
      <4>1. \A n : Tally(<<x>>, n) = IF x = n THEN 1 ELSE 0
        BY TallySingle
      <4> HIDE DEF x, h
      <4>2. \A n : Tally(h \o <<x>>, n) = Tally(h, n) + Tally(<<x>>, n)
        BY <2>1, <3>1, TallyConcat
      <4> QED
        BY <3>1, <4>1, <4>2
    <3>4. \A n : Tally(g[i], n) = IF n \in S THEN Tally(Part(i), n) ELSE 0
      BY <1>8, <2>3, <2>4, <2>5, <3>3
    <3>5. ASSUME Len(g[i]) = i PROVE \A j \in 1..i : s[j] \in S
      <4>1. \A j \in 1..i - 1 : s[j] \in S
        BY <1>8, <3>2, <3>5, <2>1
      <4> QED
        BY <4>1, <2>5
    <3> QED
      BY <2>1, <3>2, <3>4, <3>5
  <2>6. CASE x \notin S
    <3>1. g[i] = h
      <4>1. g[i] = h \o << >>
        BY <1>3, <2>6
      <4> QED
        BY <2>1, <4>1, ConcatEmptySeq
    <3>2. \A n : Tally(g[i], n) = IF n \in S THEN Tally(Part(i), n) ELSE 0
      BY <1>8, <2>3, <2>4, <2>6, <3>1
    <3>3. Len(h) \in Nat
      BY <2>1
    <3> QED
      BY <2>1, <3>1, <3>2, <3>3
  <2> QED
    BY <2>5, <2>6
<1>9. Fine(m)
  <2>1. \A i \in 1..m : i - 1 \in Good => i \in Good
    <3> HIDE DEF Fine
    <3> QED
      BY <1>8, <1>2
  <2>2. 0 \in Good
    BY <1>7, <1>2
  <2>3. m \in Good
    <3> HIDE DEF Good
    <3>1. \A i \in 0..m : i \in Good
      BY <1>2, <2>1, <2>2, PrefixInduction
    <3> QED
      BY <1>2, <3>1
  <2> QED
    BY <2>3
<1> QED
  BY <1>1, <1>5, <1>9 DEF m, ToSet

-----------------------------------------------------------------------------
(* Lists put one after the other.                                           *)

IsFlat(g, ss) == g = [i \in 1..Len(ss) |-> IF i = 1 THEN ss[i] ELSE g[i - 1] \o ss[i]]

LEMMA FlatIs ==
  ASSUME NEW T, NEW ss \in Seq(Seq(T)), Len(ss) # 0
  PROVE  \E g : IsFlat(g, ss) /\ Fin!FlattenSeq(ss) = g[Len(ss)]
<1> DEFINE flatten[i \in 1..Len(ss)] == IF i = 1 THEN ss[i] ELSE flatten[i - 1] \o ss[i]
<1>1. Fin!FlattenSeq(ss) = flatten[Len(ss)]
  BY DEF Fin!FlattenSeq
<1>2. flatten = CHOOSE g : IsFlat(g, ss)
  BY DEF IsFlat
<1> HIDE DEF flatten
<1>3. \E g : IsFlat(g, ss)
  <2> DEFINE n == Len(ss)
             X == Seq(T)
             step == [x \in (1..n) \X X |-> x[2] \o ss[x[1]]]
             base == << >>
  <2>1. n \in Nat /\ \A i \in 1..n : ss[i] \in X
    OBVIOUS
  <2>2. ASSUME NEW x \in (1..n) \X X PROVE x[2] \o ss[x[1]] \in X
    <3>1. x[2] \in Seq(T) /\ ss[x[1]] \in Seq(T)
      BY <2>1
    <3> QED
      BY <3>1
  <2>3. step \in [(1..n) \X X -> X]
    BY <2>2
  <2>4. \A i \in 1..n, x \in X : step[<<i, x>>] = x \o ss[i]
    OBVIOUS
  <2>5. base \in X /\ \A x \in X : base \o x = x
    BY ConcatEmptySeq
  <2> HIDE DEF step, X, n, base
  <2>6. PICK f : Computes(f, n, X, base, step)
    BY <2>1, <2>3, <2>5, PrefixRecursion
  <2>7. f \in [0..n -> X] /\ f[0] = base /\ \A i \in 1..n : f[i] = step[<<i, f[i - 1]>>]
    BY <2>6 DEF Computes
  <2>8. \A i \in 1..n : f[i] = f[i - 1] \o ss[i]
    <3> SUFFICES ASSUME NEW i \in 1..n PROVE f[i] = f[i - 1] \o ss[i]
      OBVIOUS
    <3>1. f[i - 1] \in X
      BY <2>1, <2>7
    <3> QED
      BY <2>4, <2>7, <3>1
  <2> DEFINE g == [i \in 1..n |-> f[i]]
  <2>9. \A i \in 1..n : g[i] = IF i = 1 THEN ss[i] ELSE g[i - 1] \o ss[i]
    <3> SUFFICES ASSUME NEW i \in 1..n PROVE g[i] = IF i = 1 THEN ss[i] ELSE g[i - 1] \o ss[i]
      OBVIOUS
    <3>1. CASE i = 1
      <4>1. f[1] = base \o ss[1] /\ ss[1] \in X
        <5>1. 1 \in 1..n /\ 1 - 1 = 0
          BY <3>1
        <5>2. f[1] = f[1 - 1] \o ss[1]
          BY <2>8, <5>1
        <5>3. ss[1] \in X
          BY <2>1, <5>1
        <5> QED
          BY <2>7, <5>1, <5>2, <5>3
      <4> QED
        BY <2>5, <3>1, <4>1
    <3>2. CASE i # 1
      <4>1. i - 1 \in 1..n
        BY <2>1, <3>2
      <4> QED
        BY <2>8, <3>2, <4>1
    <3> QED
      BY <3>1, <3>2
  <2>10. g = [i \in 1..n |-> g[i]]
    OBVIOUS
  <2> HIDE DEF g
  <2>11. IsFlat(g, ss)
    BY <2>9, <2>10 DEF IsFlat, n
  <2> QED
    BY <2>11
<1> QED
  BY <1>1, <1>2, <1>3

Tallies(ss, n) == [i \in 1..Len(ss) |-> Tally(ss[i], n)]

LEMMA FlatElements ==
  ASSUME NEW T, NEW ss \in Seq(Seq(T))
  PROVE  /\ Fin!FlattenSeq(ss) \in Seq(T)
         /\ \A n : Tally(Fin!FlattenSeq(ss), n) = SumFunctionOnSet(Tallies(ss, n), 1..Len(ss))
<1> DEFINE m == Len(ss)
<1>1. m \in Nat /\ \A i \in 1..m : ss[i] \in Seq(T)
  OBVIOUS
<1>2. CASE m = 0
  <2>1. Fin!FlattenSeq(ss) = << >> /\ 1..m = {}
    BY <1>2 DEF Fin!FlattenSeq
  <2>2. << >> \in Seq(T)
    OBVIOUS
  <2> DEFINE none == Fin!FlattenSeq(ss)
  <2>3. none = << >>
    BY <2>1
  <2> HIDE DEF none
  <2>4. \A n : Tally(none, n) = 0
    BY <2>3, TallySingle
  <2>5. \A n : SumFunctionOnSet(Tallies(ss, n), 1..m) = 0
    BY <2>1, SumEmpty
  <2> QED
    BY <2>2, <2>3, <2>4, <2>5 DEF none
<1>3. CASE m # 0
  <2>1. PICK g : IsFlat(g, ss) /\ Fin!FlattenSeq(ss) = g[m]
    BY <1>3, FlatIs
  <2>2. g[1] = ss[1] /\ \A i \in 2..m : g[i] = g[i - 1] \o ss[i]
    <3>1. \A i \in 1..m : g[i] = IF i = 1 THEN ss[i] ELSE g[i - 1] \o ss[i]
      BY <2>1 DEF IsFlat
    <3>2. 1 \in 1..m /\ \A i \in 2..m : i \in 1..m /\ i # 1
      BY <1>1, <1>3
    <3> HIDE DEF m
    <3> QED
      BY <3>1, <3>2
  <2> HIDE DEF m
  <2> DEFINE F(n) == Tallies(ss, n)
             Fine(i) == /\ g[i] \in Seq(T)
                        /\ \A n : Tally(g[i], n) = SumFunctionOnSet(F(n), 1..i)
             Good == {i \in 0..m : i = 0 \/ Fine(i)}
  <2>3. \A n : \A i \in 1..m : F(n)[i] = Tally(ss[i], n) /\ F(n)[i] \in Int
    <3> SUFFICES ASSUME NEW n, NEW i \in 1..m PROVE F(n)[i] = Tally(ss[i], n) /\ F(n)[i] \in Int
      OBVIOUS
    <3>1. Tally(ss[i], n) \in Nat
      BY <1>1, TallyType
    <3> QED
      BY <3>1 DEF Tallies, m
  <2> HIDE DEF F
  <2>4. ASSUME NEW i \in 1..m, NEW n
        PROVE  SumFunctionOnSet(F(n), 1..i) = SumFunctionOnSet(F(n), 1..i - 1) + Tally(ss[i], n)
    <3>1. IsFiniteSet(1..i - 1) /\ i \notin 1..i - 1 /\ (1..i - 1) \cup {i} = 1..i
      BY FS_Interval
    <3>2. \A y \in (1..i - 1) \cup {i} : F(n)[y] \in Int
      <4>1. \A y \in (1..i - 1) \cup {i} : y \in 1..m
        BY <1>1
      <4> QED
        BY <2>3, <4>1
    <3>3. SumFunctionOnSet(F(n), (1..i - 1) \cup {i}) = SumFunctionOnSet(F(n), 1..i - 1) + F(n)[i]
      BY <3>1, <3>2, SumAdd
    <3> QED
      BY <2>3, <3>1, <3>3
  <2>5. Fine(1)
    <3>1. 1 \in 1..m /\ 1..1 - 1 = {}
      BY <1>1, <1>3
    <3>2. ASSUME NEW n PROVE Tally(g[1], n) = SumFunctionOnSet(F(n), 1..1)
      <4>1. SumFunctionOnSet(F(n), 1..1) = 0 + Tally(ss[1], n)
        BY <2>4, <3>1, SumEmpty
      <4>2. Tally(ss[1], n) \in Nat
        BY <1>1, <3>1, TallyType
      <4> QED
        BY <2>2, <4>1, <4>2
    <3> QED
      BY <1>1, <2>2, <3>1, <3>2
  <2>6. ASSUME NEW i \in 2..m, Fine(i - 1) PROVE Fine(i)
    <3>1. i \in 1..m /\ ss[i] \in Seq(T) /\ g[i - 1] \in Seq(T) /\ g[i] = g[i - 1] \o ss[i]
      <4>1. i \in 1..m
        BY <1>1
      <4>2. g[i - 1] \in Seq(T)
        BY <2>6
      <4> QED
        BY <1>1, <2>2, <4>1, <4>2
    <3>2. \A n : Tally(g[i], n) = Tally(g[i - 1], n) + Tally(ss[i], n)
      BY <3>1, TallyConcat
    <3>3. \A n : Tally(g[i - 1], n) = SumFunctionOnSet(F(n), 1..i - 1)
      BY <2>6
    <3>4. \A n : SumFunctionOnSet(F(n), 1..i) = SumFunctionOnSet(F(n), 1..i - 1) + Tally(ss[i], n)
      BY <2>4, <3>1
    <3>5. g[i] \in Seq(T)
      BY <3>1
    <3> QED
      BY <3>2, <3>3, <3>4, <3>5
  <2>7. Fine(m)
    <3>1. 0 \in Good
      BY <1>1
    <3>2. \A i \in 1..m : i - 1 \in Good => i \in Good
      <4> SUFFICES ASSUME NEW i \in 1..m, i - 1 \in Good PROVE Fine(i)
        BY <1>1
      <4>1. CASE i = 1
        <5> HIDE DEF Fine
        <5> QED
          BY <2>5, <4>1
      <4>2. CASE i # 1
        <5> HIDE DEF Fine
        <5>1. i \in 2..m /\ i - 1 # 0
          BY <4>2
        <5> QED
          BY <2>6, <5>1
      <4> QED
        BY <4>1, <4>2
    <3>3. m \in Good
      <4> HIDE DEF Good
      <4>1. \A i \in 0..m : i \in Good
        BY <1>1, <3>1, <3>2, PrefixInduction
      <4> QED
        BY <1>1, <4>1
    <3> HIDE DEF Fine
    <3> QED
      BY <1>3, <3>3
  <2> QED
    BY <2>1, <2>7 DEF F, m
<1> QED
  BY <1>2, <1>3

Published(s, l) == Fin!Kept(SubSeq(s, 1, l), Fin!Entries)
InSlots(s, l, n) == Cardinality({i \in 1..l : s[i] = n})

\* The entries of a list are those in its slots below its length.
LEMMA PublishedElements ==
  ASSUME Fin!Setting, NEW u \in 0..MaxEntries, NEW s \in [Fin!Entries -> 0..u],
         NEW l \in 0..MaxEntries
  PROVE  /\ Published(s, l) \in Seq(1..u)
         /\ Len(Published(s, l)) \in 0..l
         /\ Len(Published(s, l)) = l => \A i \in 1..l : s[i] # 0
         /\ \A n \in Fin!Entries : Tally(Published(s, l), n) = InSlots(s, l, n)
<1> DEFINE r == SubSeq(s, 1, l)
           k == Fin!Kept(r, Fin!Entries)
<1>1. \A i \in 1..l : i \in Fin!Entries /\ s[i] \in 0..u
  BY DEF Fin!Setting, Fin!Entries
<1>2. r \in Seq(0..u) /\ Len(r) = l /\ \A i \in 1..l : r[i] = s[i]
  <2>1. /\ r \in Seq(0..u) /\ Len(r) = (IF 1 <= l THEN l - 1 + 1 ELSE 0)
        /\ \A i \in 1..l - 1 + 1 : r[i] = s[1 + i - 1]
    BY <1>1, SubSeqProperties
  <2>2. \A i \in 1..l : i \in 1..l - 1 + 1 /\ 1 + i - 1 = i
    OBVIOUS
  <2> HIDE DEF r
  <2>3. r \in Seq(0..u) /\ Len(r) = l
    BY <2>1
  <2>4. ASSUME NEW i \in 1..l PROVE r[i] = s[i]
    <3>1. r[i] = s[1 + i - 1] /\ 1 + i - 1 = i
      BY <2>1, <2>2
    <3> QED
      BY <3>1
  <2> QED
    BY <2>3, <2>4
<1> HIDE DEF r
<1>3. /\ k \in Seq((0..u) \cap Fin!Entries) /\ Len(k) <= Len(r)
      /\ Len(k) = Len(r) => ToSet(r) \subseteq Fin!Entries
      /\ \A n : Tally(k, n) = IF n \in Fin!Entries THEN Tally(r, n) ELSE 0
  BY <1>2, KeptElements
<1> HIDE DEF k
<1>4. k \in Seq(1..u)
  <2>1. (0..u) \cap Fin!Entries \subseteq 1..u
    BY DEF Fin!Entries
  <2> QED
    BY <1>3, <2>1, SeqMonotonic
<1>5. \A n : Tally(r, n) = InSlots(s, l, n)
  <2>1. DOMAIN r = 1..l
    BY <1>2
  <2>2. \A n : {i \in DOMAIN r : r[i] = n} = {i \in 1..l : s[i] = n}
    BY <1>2, <2>1
  <2> QED
    BY <2>2 DEF Tally, InSlots
<1>6. ASSUME Len(k) = l PROVE \A i \in 1..l : s[i] # 0
  <2>1. \A i \in 1..l : r[i] \in ToSet(r)
    BY <1>2 DEF ToSet
  <2>2. 0 \notin Fin!Entries
    BY DEF Fin!Entries
  <2> QED
    BY <1>2, <1>3, <1>6, <2>1, <2>2
<1>7. Len(k) \in Nat
  BY <1>4
<1> QED
  BY <1>2, <1>3, <1>4, <1>5, <1>6, <1>7 DEF Published, r, k

-----------------------------------------------------------------------------
(* The shape of the state.                                                  *)

Named == 1..Len(object)
Holding == {"visit", "cmpswap", "schedule", "clear"}
Pushing == {"push", "publish"}
FinSteps == {"user", "collected", "flush"} \cup Holding \cup Pushing
Batch(S) == [pending : BOOLEAN, items : Seq(S) \ {<< >>}]

FinTypeOK ==
  /\ fin_pc \in [Fin!Threads -> FinSteps]
  /\ object \in Seq(FinObjects) /\ Len(object) <= MaxEntries
  /\ items \in [Fin!Threads -> [Fin!Entries -> 0..Len(object)]]
  /\ len \in [Fin!Threads -> 0..Len(object)]
  /\ oldlen \in [Fin!Threads -> 0..Len(object)]
  /\ newentry \in [Fin!Threads -> 0..Len(object)]
  /\ visit \in 0..nthreads + 1 /\ newlen \in 0..Len(object)
  /\ copied_list \in Seq(Named) /\ finalizer_list_marked \in Seq(Named)
  /\ to_finalize \in Seq(Named)
  /\ jl_gc_have_pending_finalizers \in BOOLEAN
  /\ finalizers_lock \in Fin!Threads \cup {0}
  /\ batches \in [Fin!Threads -> Seq(Batch(Named))]
  /\ runs \in [Fin!Entries -> Nat]

\* Who holds the lock, and where that thread is; what a thread that registers is about
\* to write comes after all that its list can hold.
Controls(t) ==
  /\ fin_pc[t] \in Holding <=> finalizers_lock = t
  /\ fin_pc[t] \in {"visit", "schedule"} => visit \in 1..nthreads + 1
  /\ fin_pc[t] \in {"cmpswap", "clear"} => visit \in Fin!Threads
  /\ fin_pc[t] \in Pushing => newentry[t] # 0 /\ oldlen[t] < newentry[t]
  /\ fin_pc[t] \notin Pushing => newentry[t] = 0
FinControl == \A t \in Fin!Threads : Controls(t)

FinShape == FinTypeOK /\ FinControl

LEMMA FinInitShape == ASSUME Fin!Setting, Fin!Init PROVE FinShape
<1>1. /\ object = << >> /\ Len(object) = 0 /\ 0 \in 0..nthreads + 1
      /\ \A t \in Fin!Threads : t # 0
  BY DEF Fin!Init, Fin!Setting, Fin!Threads
<1>2. Fin!Padded(<< >>) = [i \in Fin!Entries |-> 0]
  <2>1. \A i \in Fin!Entries : ~(i <= Len(<< >>))
    BY DEF Fin!Entries
  <2> QED
    BY <2>1 DEF Fin!Padded
<1>3. FinTypeOK
  <2>1. MaxEntries \in Nat
    BY DEF Fin!Setting
  <2>2. \A S : << >> \in Seq(S)
    OBVIOUS
  <2>3. "user" \in FinSteps
    BY DEF FinSteps
  <2>4. /\ fin_pc = [t \in Fin!Threads |-> "user"] /\ items = [t \in Fin!Threads |-> Fin!Padded(<< >>)]
        /\ len = [t \in Fin!Threads |-> 0] /\ oldlen = [t \in Fin!Threads |-> 0]
        /\ newentry = [t \in Fin!Threads |-> 0] /\ visit = 0 /\ newlen = 0
        /\ copied_list = << >> /\ finalizer_list_marked = << >> /\ to_finalize = << >>
        /\ jl_gc_have_pending_finalizers = FALSE /\ finalizers_lock = 0
        /\ batches = [t \in Fin!Threads |-> << >>] /\ runs = [n \in Fin!Entries |-> 0]
    BY DEF Fin!Init, Fin!NoOwner
  <2>5. items \in [Fin!Threads -> [Fin!Entries -> 0..Len(object)]]
    BY <1>1, <1>2, <2>4
  <2>6. batches \in [Fin!Threads -> Seq(Batch(Named))] /\ runs \in [Fin!Entries -> Nat]
    BY <2>2, <2>4
  <2>7. /\ fin_pc \in [Fin!Threads -> FinSteps] /\ 0 \in 0..Len(object)
        /\ object \in Seq(FinObjects) /\ Len(object) <= MaxEntries
    BY <1>1, <2>1, <2>2, <2>3, <2>4
  <2>8. /\ len \in [Fin!Threads -> 0..Len(object)] /\ oldlen \in [Fin!Threads -> 0..Len(object)]
        /\ newentry \in [Fin!Threads -> 0..Len(object)] /\ newlen \in 0..Len(object)
    BY <2>4, <2>7
  <2>9. /\ copied_list \in Seq(Named) /\ finalizer_list_marked \in Seq(Named)
        /\ to_finalize \in Seq(Named) /\ jl_gc_have_pending_finalizers \in BOOLEAN
        /\ finalizers_lock \in Fin!Threads \cup {0} /\ visit \in 0..nthreads + 1
    BY <1>1, <2>2, <2>4
  <2> QED
    BY <2>5, <2>6, <2>7, <2>8, <2>9 DEF FinTypeOK
<1>4. FinControl
  <2>1. "user" \notin Holding /\ "user" \notin Pushing
    BY DEF Holding, Pushing
  <2> QED
    BY <1>1, <2>1 DEF Fin!Init, Fin!NoOwner, FinControl, Controls
<1> QED
  BY <1>3, <1>4 DEF FinShape

\* What holds of a thread that is not concerned.
LEMMA FinGoto ==
  ASSUME FinTypeOK, NEW t \in Fin!Threads, NEW to \in FinSteps, Fin!Goto(t, to)
  PROVE  /\ fin_pc' \in [Fin!Threads -> FinSteps]
         /\ fin_pc'[t] = to /\ \A u \in Fin!Threads : u # t => fin_pc'[u] = fin_pc[u]
BY DEF FinTypeOK, Fin!Goto

LEMMA ControlKept ==
  ASSUME FinShape, NEW t \in Fin!Threads, Fin!Setting,
         \A u \in Fin!Threads \ {t} :
           fin_pc'[u] = fin_pc[u] /\ newentry'[u] = newentry[u] /\ oldlen'[u] = oldlen[u],
         \/ visit' = visit /\ finalizers_lock' = finalizers_lock
         \/ finalizers_lock \in {0, t} /\ finalizers_lock' \in {0, t},
         Controls(t)'
  PROVE  FinControl'
<1> SUFFICES ASSUME NEW u \in Fin!Threads \ {t} PROVE Controls(u)'
  BY DEF FinControl
<1>1. Controls(u) /\ u # 0
  BY DEF FinShape, FinControl, Fin!Threads, Fin!Setting
<1>2. CASE visit' = visit /\ finalizers_lock' = finalizers_lock
  BY <1>1, <1>2 DEF Controls
<1>3. CASE finalizers_lock \in {0, t} /\ finalizers_lock' \in {0, t}
  <2>1. fin_pc'[u] \notin Holding /\ finalizers_lock' # u
    BY <1>1, <1>3 DEF Controls
  <2>2. {"visit", "schedule", "cmpswap", "clear"} = Holding
    BY DEF Holding
  <2> QED
    BY <1>1, <2>1, <2>2 DEF Controls
<1> QED
  BY <1>2, <1>3

LEMMA StepsAre ==
  /\ {"user", "collected", "flush", "push", "publish", "visit", "cmpswap", "schedule", "clear"} = FinSteps
  /\ {"push", "publish"} = Pushing /\ {"visit", "schedule", "cmpswap", "clear"} = Holding
BY DEF FinSteps, Pushing, Holding

-----------------------------------------------------------------------------
(* A thread registers a finalizer.                                          *)

LEMMA AddFinalizerShape ==
  ASSUME Fin!Setting, FinShape, NEW t \in Fin!Threads, NEW ob \in FinObjects, Fin!AddFinalizer(t, ob)
  PROVE  FinShape'
<1> DEFINE k == Len(object)
<1>1. /\ fin_pc[t] = "user" /\ k < MaxEntries /\ Fin!Goto(t, "push")
      /\ object' = Append(object, ob)
      /\ newentry' = [newentry EXCEPT ![t] = k + 1] /\ oldlen' = [oldlen EXCEPT ![t] = len[t]]
      /\ UNCHANGED <<items, len, finalizer_list_marked, to_finalize, jl_gc_have_pending_finalizers,
                     finalizers_lock, visit, newlen, copied_list, batches, runs>>
  BY DEF Fin!AddFinalizer, Fin!used, Fin!lists, Fin!global, Fin!progress
<1>2. "push" \in FinSteps /\ "push" \in Pushing /\ "push" \notin Holding /\ "user" \notin Holding
      /\ "user" \notin Pushing /\ "push" \notin {"visit", "schedule", "cmpswap", "clear"}
  BY DEF FinSteps, Pushing, Holding
<1>3. /\ fin_pc' \in [Fin!Threads -> FinSteps] /\ fin_pc'[t] = "push"
      /\ \A u \in Fin!Threads : u # t => fin_pc'[u] = fin_pc[u]
  BY <1>1, <1>2, FinGoto DEF FinShape
<1>4. /\ k \in Nat /\ object' \in Seq(FinObjects) /\ Len(object') = k + 1 /\ Len(object') <= MaxEntries
  BY <1>1 DEF FinShape, FinTypeOK, Fin!Setting
<1>5. Named \subseteq Named' /\ 0..k \subseteq 0..Len(object')
  BY <1>4 DEF Named
<1>6. FinTypeOK'
  <2>1. /\ items' \in [Fin!Threads -> [Fin!Entries -> 0..Len(object')]]
        /\ len' \in [Fin!Threads -> 0..Len(object')]
        /\ oldlen' \in [Fin!Threads -> 0..Len(object')]
        /\ newentry' \in [Fin!Threads -> 0..Len(object')]
        /\ newlen' \in 0..Len(object')
    <3>1. items' \in [Fin!Threads -> [Fin!Entries -> 0..Len(object')]]
      <4>1. \A u \in Fin!Threads : items'[u] \in [Fin!Entries -> 0..Len(object')]
        BY <1>1, <1>5 DEF FinShape, FinTypeOK
      <4> QED
        BY <1>1, <4>1 DEF FinShape, FinTypeOK
    <3>2. /\ len' \in [Fin!Threads -> 0..Len(object')]
          /\ newlen' \in 0..Len(object')
      BY <1>1, <1>5 DEF FinShape, FinTypeOK
    <3>3. k + 1 \in 0..Len(object')
      BY <1>4
    <3>4. /\ oldlen' \in [Fin!Threads -> 0..Len(object')]
          /\ newentry' \in [Fin!Threads -> 0..Len(object')]
      BY <1>1, <1>5, <3>3 DEF FinShape, FinTypeOK
    <3> QED
      BY <3>1, <3>2, <3>4
  <2>2. copied_list' \in Seq(Named') /\ finalizer_list_marked' \in Seq(Named') /\ to_finalize' \in Seq(Named')
    BY <1>1, <1>5, SeqMonotonic DEF FinShape, FinTypeOK
  <2>3. batches' \in [Fin!Threads -> Seq(Batch(Named'))]
    <3>1. Seq(Named) \subseteq Seq(Named')
      BY <1>5, SeqMonotonic
    <3>2. Batch(Named) \subseteq Batch(Named')
      BY <3>1 DEF Batch
    <3>3. Seq(Batch(Named)) \subseteq Seq(Batch(Named'))
      BY <3>2, SeqMonotonic
    <3> QED
      BY <1>1, <3>3 DEF FinShape, FinTypeOK
  <2> QED
    BY <1>1, <1>3, <1>4, <2>1, <2>2, <2>3 DEF FinShape, FinTypeOK
<1>7. FinControl'
  <2>1. newentry'[t] = k + 1 /\ oldlen'[t] = len[t] /\ len[t] \in 0..k
    BY <1>1 DEF FinShape, FinTypeOK
  <2>2. Controls(t)
    BY DEF FinShape, FinControl
  <2>3. Controls(t)'
    BY <1>1, <1>2, <1>3, <1>4, <2>1, <2>2 DEF Controls
  <2>4. \A u \in Fin!Threads \ {t} : newentry'[u] = newentry[u] /\ oldlen'[u] = oldlen[u]
    BY <1>1 DEF FinShape, FinTypeOK
  <2> QED
    BY <1>1, <1>3, <2>3, <2>4, ControlKept
<1> QED
  BY <1>6, <1>7 DEF FinShape

LEMMA PushItemShape ==
  ASSUME Fin!Setting, FinShape, NEW t \in Fin!Threads, Fin!PushItem(t)
  PROVE  /\ FinShape'
         /\ oldlen[t] + 1 \in Fin!Entries
         /\ items' = [items EXCEPT ![t] = [@ EXCEPT ![oldlen[t] + 1] = newentry[t]]]
<1>1. /\ fin_pc[t] = "push" /\ Fin!Goto(t, "publish")
      /\ items' = [items EXCEPT ![t] = [@ EXCEPT ![oldlen[t] + 1] = newentry[t]]]
      /\ UNCHANGED <<object, len, oldlen, newentry, finalizer_list_marked, to_finalize,
                     jl_gc_have_pending_finalizers, finalizers_lock, visit, newlen, copied_list,
                     batches, runs>>
  BY DEF Fin!PushItem, Fin!global, Fin!locals, Fin!progress
<1>2. /\ fin_pc' \in [Fin!Threads -> FinSteps] /\ fin_pc'[t] = "publish"
      /\ \A u \in Fin!Threads : u # t => fin_pc'[u] = fin_pc[u]
  BY <1>1, StepsAre, FinGoto DEF FinShape
<1>3. Controls(t)
  BY DEF FinShape, FinControl
<1>4. /\ oldlen[t] \in 0..Len(object) /\ newentry[t] \in 0..Len(object) /\ oldlen[t] < newentry[t]
      /\ oldlen[t] + 1 \in Fin!Entries
  <2>1. oldlen[t] \in 0..Len(object) /\ newentry[t] \in 0..Len(object) /\ Len(object) <= MaxEntries
    BY DEF FinShape, FinTypeOK
  <2>2. oldlen[t] < newentry[t]
    BY <1>1, <1>3, StepsAre DEF Controls
  <2> QED
    BY <2>1, <2>2 DEF Fin!Entries, Fin!Setting
<1>5. items' \in [Fin!Threads -> [Fin!Entries -> 0..Len(object)]]
  BY <1>1, <1>4 DEF FinShape, FinTypeOK
<1>6. FinTypeOK'
  BY <1>1, <1>2, <1>5 DEF FinShape, FinTypeOK, Named
<1>7. Controls(t)'
  BY <1>1, <1>2, <1>3, StepsAre DEF Controls
<1> QED
  BY <1>1, <1>2, <1>4, <1>6, <1>7, ControlKept DEF FinShape

LEMMA PublishLenShape ==
  ASSUME Fin!Setting, FinShape, NEW t \in Fin!Threads, Fin!PublishLen(t)
  PROVE  FinShape'
<1>1. /\ fin_pc[t] = "publish" /\ Fin!Goto(t, "user")
      /\ len' = [len EXCEPT ![t] = oldlen[t] + 1]
      /\ oldlen' = [oldlen EXCEPT ![t] = 0] /\ newentry' = [newentry EXCEPT ![t] = 0]
      /\ UNCHANGED <<object, items, finalizer_list_marked, to_finalize,
                     jl_gc_have_pending_finalizers, finalizers_lock, visit, newlen, copied_list,
                     batches, runs>>
  BY DEF Fin!PublishLen, Fin!global, Fin!progress
<1>2. /\ fin_pc' \in [Fin!Threads -> FinSteps] /\ fin_pc'[t] = "user"
      /\ \A u \in Fin!Threads : u # t => fin_pc'[u] = fin_pc[u]
  BY <1>1, StepsAre, FinGoto DEF FinShape
<1>3. Controls(t)
  BY DEF FinShape, FinControl
<1>4. oldlen[t] + 1 \in 0..Len(object) /\ 0 \in 0..Len(object)
  <2>1. oldlen[t] \in 0..Len(object) /\ newentry[t] \in 0..Len(object) /\ oldlen[t] < newentry[t]
    BY <1>1, <1>3, StepsAre DEF FinShape, FinTypeOK, Controls
  <2> QED
    BY <2>1
<1>5. FinTypeOK'
  BY <1>1, <1>2, <1>4 DEF FinShape, FinTypeOK, Named
<1>6. newentry'[t] = 0 /\ \A u \in Fin!Threads \ {t} : newentry'[u] = newentry[u] /\ oldlen'[u] = oldlen[u]
  BY <1>1 DEF FinShape, FinTypeOK
<1>7. Controls(t)'
  BY <1>1, <1>2, <1>3, <1>6, StepsAre DEF Controls
<1> QED
  BY <1>1, <1>2, <1>5, <1>6, <1>7, ControlKept DEF FinShape

-----------------------------------------------------------------------------
(* A thread finalizes an object.                                            *)

LEMMA FinalizeShape ==
  ASSUME Fin!Setting, FinShape, NEW t \in Fin!Threads, NEW ob \in FinObjects, Fin!Finalize(t, ob)
  PROVE  FinShape'
<1>1. /\ fin_pc[t] = "user" /\ finalizers_lock = 0 /\ Fin!Goto(t, "visit")
      /\ finalizers_lock' = t /\ visit' = 1 /\ copied_list' = << >>
      /\ UNCHANGED <<object, items, len, oldlen, newentry, finalizer_list_marked, to_finalize,
                     jl_gc_have_pending_finalizers, newlen, batches, runs>>
  BY DEF Fin!Finalize, Fin!lists, Fin!progress, Fin!NoOwner
<1>2. /\ fin_pc' \in [Fin!Threads -> FinSteps] /\ fin_pc'[t] = "visit"
      /\ \A u \in Fin!Threads : u # t => fin_pc'[u] = fin_pc[u]
  BY <1>1, StepsAre, FinGoto DEF FinShape
<1>3. 1 \in 0..nthreads + 1 /\ 1 \in 1..nthreads + 1 /\ << >> \in Seq(Named)
  BY DEF Fin!Setting
<1>4. FinTypeOK'
  BY <1>1, <1>2, <1>3 DEF FinShape, FinTypeOK, Named
<1>5. Controls(t) /\ Controls(t)'
  BY <1>1, <1>2, <1>3, StepsAre DEF FinShape, FinControl, Controls
<1> QED
  BY <1>1, <1>2, <1>4, <1>5, ControlKept DEF FinShape

\* A sequence of entries written over the beginning of a list.
LEMMA Overwritten ==
  ASSUME NEW u \in Nat, NEW s \in [Fin!Entries -> 0..u], NEW r \in Seq(1..u), NEW l
  PROVE  /\ Fin!kept_tail(s, r, l) \in [Fin!Entries -> 0..u]
         /\ Fin!emptied_tail(s, r, l) \in [Fin!Entries -> 0..u]
<1>1. \A i \in Fin!Entries : i <= Len(r) => r[i] \in 0..u
  BY DEF Fin!Entries
<1>2. \A i \in Fin!Entries : s[i] \in 0..u
  OBVIOUS
<1>3. 0 \in 0..u
  OBVIOUS
<1> QED
  BY <1>1, <1>2, <1>3 DEF Fin!kept_tail, Fin!emptied_tail

\* What is taken out of a list of entries is a list of entries.
LEMMA SelectedType ==
  ASSUME NEW s \in Seq(Named), NEW S
  PROVE  Fin!Kept(s, S) \in Seq(Named) /\ Len(Fin!Kept(s, S)) \in 0..Len(s)
<1>1. Fin!Kept(s, S) \in Seq(Named \cap S) /\ Len(Fin!Kept(s, S)) <= Len(s)
  BY KeptElements
<1>2. Fin!Kept(s, S) \in Seq(Named)
  BY <1>1, SeqMonotonic
<1> QED
  BY <1>1, <1>2

LEMMA LiveType ==
  ASSUME Fin!Setting, FinTypeOK, NEW t \in Fin!Threads
  PROVE  /\ Fin!Live(t) = Published(items[t], len[t])
         /\ Fin!Live(t) \in Seq(Named) /\ Len(Fin!Live(t)) \in 0..len[t]
         /\ Len(Fin!Live(t)) = len[t] => \A i \in 1..len[t] : items[t][i] # 0
         /\ \A n \in Fin!Entries : Tally(Fin!Live(t), n) = InSlots(items[t], len[t], n)
<1>1. /\ Len(object) \in 0..MaxEntries /\ items[t] \in [Fin!Entries -> 0..Len(object)]
      /\ len[t] \in 0..MaxEntries
  BY DEF FinTypeOK, Fin!Setting
<1>2. Fin!Live(t) = Published(items[t], len[t])
  BY DEF Fin!Live, Published
<1> QED
  BY <1>1, <1>2, PublishedElements DEF Named

\* The three outcomes of a visit to a list: nothing to take, its own list, and that of
\* another thread.
Visited(t, ob) ==
  /\ fin_pc[t] = "visit" /\ visit \in Fin!Threads /\ finalizers_lock = t
  /\ copied_list' = copied_list \o Fin!Of(Fin!Live(visit), ob)
  /\ UNCHANGED <<object, newentry, finalizer_list_marked, to_finalize,
                 jl_gc_have_pending_finalizers, finalizers_lock, batches, runs, exiting>>
  /\ LET kept == Fin!Except(Fin!Live(visit), ob)
     IN \/ /\ Len(kept) = len[visit] /\ visit' = visit + 1
           /\ UNCHANGED <<fin_pc, items, len, oldlen, newlen>>
        \/ /\ visit = t /\ visit' = visit + 1
           /\ items' = [items EXCEPT ![t] = Fin!kept_tail(items[t], kept, len[t])]
           /\ len' = [len EXCEPT ![t] = Len(kept)]
           /\ UNCHANGED <<fin_pc, oldlen, newlen>>
        \/ /\ visit # t /\ Fin!Goto(t, "cmpswap")
           /\ items' = [items EXCEPT ![visit] = Fin!emptied_tail(items[visit], kept, len[visit])]
           /\ oldlen' = [oldlen EXCEPT ![t] = len[visit]]
           /\ newlen' = Len(kept)
           /\ UNCHANGED <<len, visit>>

LEMMA FinalizeObjectIs ==
  ASSUME Fin!Setting, FinShape, NEW t \in Fin!Threads, Fin!FinalizeObject(t)
  PROVE  \E ob : Visited(t, ob)
<1> DEFINE ob == CHOOSE ob \in o : TRUE
           kept == Fin!Except(Fin!Live(visit), ob)
<1>1. /\ fin_pc[t] = "visit" /\ visit <= nthreads
      /\ copied_list' = copied_list \o Fin!Of(Fin!Live(visit), ob)
      /\ UNCHANGED <<object, newentry, finalizer_list_marked, to_finalize,
                     jl_gc_have_pending_finalizers, finalizers_lock, batches, runs, exiting>>
  BY DEF Fin!FinalizeObject, Fin!global, Fin!progress, Fin!control
<1>2. /\ Len(kept) = len[visit] => visit' = visit + 1 /\ UNCHANGED <<fin_pc, items, len, oldlen, newlen>>
      /\ Len(kept) # len[visit] /\ visit = t =>
           /\ items' = [items EXCEPT ![t] = Fin!kept_tail(items[t], kept, len[t])]
           /\ len' = [len EXCEPT ![t] = Len(kept)] /\ visit' = visit + 1
           /\ UNCHANGED <<fin_pc, oldlen, newlen>>
      /\ Len(kept) # len[visit] /\ visit # t =>
           /\ items' = [items EXCEPT ![visit] = Fin!emptied_tail(items[visit], kept, len[visit])]
           /\ oldlen' = [oldlen EXCEPT ![t] = len[visit]] /\ newlen' = Len(kept)
           /\ Fin!Goto(t, "cmpswap") /\ UNCHANGED <<len, visit>>
  BY DEF Fin!FinalizeObject
<1>3. finalizers_lock = t /\ visit \in Fin!Threads
  <2>1. Controls(t)
    BY DEF FinShape, FinControl
  <2> QED
    BY <1>1, <2>1, StepsAre DEF Controls, Fin!Threads, Fin!Setting
<1>4. Visited(t, ob)
  <2> HIDE DEF ob
  <2> QED
    BY <1>1, <1>2, <1>3 DEF Visited
<1> QED
  BY <1>4

LEMMA VisitedShape ==
  ASSUME Fin!Setting, FinShape, NEW t \in Fin!Threads, NEW ob, Visited(t, ob)
  PROVE  FinShape'
<1> DEFINE kept == Fin!Except(Fin!Live(visit), ob)
           k == Len(object)
<1>1. /\ fin_pc[t] = "visit" /\ visit \in Fin!Threads /\ finalizers_lock = t
      /\ copied_list' = copied_list \o Fin!Of(Fin!Live(visit), ob)
      /\ UNCHANGED <<object, newentry, finalizer_list_marked, to_finalize,
                     jl_gc_have_pending_finalizers, finalizers_lock, batches, runs, exiting>>
  BY DEF Visited
<1>2. /\ kept \in Seq(Named) /\ Len(kept) \in 0..len[visit] /\ len[visit] \in 0..k /\ k \in Nat
      /\ items[visit] \in [Fin!Entries -> 0..k]
  <2>1. Fin!Live(visit) \in Seq(Named) /\ Len(Fin!Live(visit)) \in 0..len[visit]
    BY <1>1, LiveType DEF FinShape
  <2>2. kept \in Seq(Named) /\ Len(kept) \in 0..Len(Fin!Live(visit))
    BY <2>1, SelectedType DEF Fin!Except
  <2>3. len[visit] \in 0..k /\ k \in Nat /\ items[visit] \in [Fin!Entries -> 0..k]
    BY <1>1 DEF FinShape, FinTypeOK
  <2> HIDE DEF kept, k
  <2> QED
    BY <2>1, <2>2, <2>3
<1>3. copied_list' \in Seq(Named)
  <2>1. Fin!Of(Fin!Live(visit), ob) \in Seq(Named)
    BY <1>1, LiveType, SelectedType DEF FinShape, Fin!Of
  <2> QED
    BY <1>1, <2>1 DEF FinShape, FinTypeOK
<1>4. visit + 1 \in 0..nthreads + 1 /\ visit + 1 \in 1..nthreads + 1
  BY <1>1 DEF Fin!Threads, Fin!Setting
<1>5. \/ /\ Len(kept) = len[visit] /\ visit' = visit + 1
         /\ UNCHANGED <<fin_pc, items, len, oldlen, newlen>>
      \/ /\ visit = t /\ visit' = visit + 1
         /\ items' = [items EXCEPT ![t] = Fin!kept_tail(items[t], kept, len[t])]
         /\ len' = [len EXCEPT ![t] = Len(kept)]
         /\ UNCHANGED <<fin_pc, oldlen, newlen>>
      \/ /\ visit # t /\ Fin!Goto(t, "cmpswap")
         /\ items' = [items EXCEPT ![visit] = Fin!emptied_tail(items[visit], kept, len[visit])]
         /\ oldlen' = [oldlen EXCEPT ![t] = len[visit]]
         /\ newlen' = Len(kept)
         /\ UNCHANGED <<len, visit>>
  BY DEF Visited
<1>6. /\ Fin!kept_tail(items[visit], kept, len[visit]) \in [Fin!Entries -> 0..k]
      /\ Fin!emptied_tail(items[visit], kept, len[visit]) \in [Fin!Entries -> 0..k]
  <2> HIDE DEF kept
  <2> QED
    BY <1>2, Overwritten DEF Named
<1> HIDE DEF kept
<1>7. /\ items' \in [Fin!Threads -> [Fin!Entries -> 0..k]] /\ len' \in [Fin!Threads -> 0..k]
      /\ oldlen' \in [Fin!Threads -> 0..k] /\ newlen' \in 0..k /\ visit' \in 0..nthreads + 1
      /\ fin_pc' \in [Fin!Threads -> FinSteps]
  <2>1. "cmpswap" \in FinSteps
    BY StepsAre
  <2>2. Len(kept) \in 0..k
    BY <1>2
  <2>3. /\ fin_pc \in [Fin!Threads -> FinSteps] /\ items \in [Fin!Threads -> [Fin!Entries -> 0..k]]
        /\ len \in [Fin!Threads -> 0..k] /\ oldlen \in [Fin!Threads -> 0..k] /\ newlen \in 0..k
        /\ visit \in 0..nthreads + 1
    BY DEF FinShape, FinTypeOK
  <2> HIDE DEF k
  <2>4. CASE visit' = visit + 1 /\ UNCHANGED <<fin_pc, items, len, oldlen, newlen>>
    BY <1>4, <2>3, <2>4
  <2>5. CASE /\ visit = t /\ visit' = visit + 1
             /\ items' = [items EXCEPT ![t] = Fin!kept_tail(items[t], kept, len[t])]
             /\ len' = [len EXCEPT ![t] = Len(kept)]
             /\ UNCHANGED <<fin_pc, oldlen, newlen>>
    BY <1>4, <1>6, <2>2, <2>3, <2>5
  <2>6. CASE /\ visit # t /\ Fin!Goto(t, "cmpswap")
             /\ items' = [items EXCEPT ![visit] = Fin!emptied_tail(items[visit], kept, len[visit])]
             /\ oldlen' = [oldlen EXCEPT ![t] = len[visit]]
             /\ newlen' = Len(kept)
             /\ UNCHANGED <<len, visit>>
    BY <1>2, <1>6, <2>1, <2>2, <2>3, <2>6 DEF Fin!Goto
  <2> QED
    BY <1>5, <2>4, <2>5, <2>6
<1>8. FinTypeOK'
  BY <1>1, <1>3, <1>7 DEF FinShape, FinTypeOK, Named
<1>9. Controls(t)
  BY DEF FinShape, FinControl
<1>10. \/ fin_pc'[t] = "visit" /\ visit' = visit + 1
       \/ fin_pc'[t] = "cmpswap" /\ visit' = visit
  BY <1>1, <1>5 DEF FinShape, FinTypeOK, Fin!Goto
<1>11. Controls(t)'
  BY <1>1, <1>4, <1>9, <1>10, StepsAre DEF Controls
<1>12. \A u \in Fin!Threads \ {t} : fin_pc'[u] = fin_pc[u] /\ oldlen'[u] = oldlen[u]
  BY <1>5 DEF FinShape, FinTypeOK, Fin!Goto
<1> QED
  BY <1>1, <1>8, <1>11, <1>12, ControlKept DEF FinShape

LEMMA CmpswapLenShape ==
  ASSUME Fin!Setting, FinShape, NEW t \in Fin!Threads, Fin!CmpswapLen(t)
  PROVE  /\ FinShape' /\ visit \in Fin!Threads
         /\ len' = [len EXCEPT ![visit] = IF len[visit] = oldlen[t] THEN newlen ELSE len[visit]]
<1>1. /\ fin_pc[t] = "cmpswap" /\ Fin!Goto(t, "visit")
      /\ len' = [len EXCEPT ![visit] = IF len[visit] = oldlen[t] THEN newlen ELSE len[visit]]
      /\ visit' = visit + 1 /\ oldlen' = [oldlen EXCEPT ![t] = 0] /\ newlen' = 0
      /\ UNCHANGED <<object, items, newentry, finalizer_list_marked, to_finalize,
                     jl_gc_have_pending_finalizers, finalizers_lock, copied_list, batches, runs>>
  BY DEF Fin!CmpswapLen, Fin!unmoved, Fin!global, Fin!progress
<1>2. /\ fin_pc' \in [Fin!Threads -> FinSteps] /\ fin_pc'[t] = "visit"
      /\ \A u \in Fin!Threads : u # t => fin_pc'[u] = fin_pc[u]
  BY <1>1, StepsAre, FinGoto DEF FinShape
<1>3. Controls(t)
  BY DEF FinShape, FinControl
<1>4. visit \in Fin!Threads /\ visit + 1 \in 0..nthreads + 1 /\ visit + 1 \in 1..nthreads + 1
  <2>1. visit \in Fin!Threads
    BY <1>1, <1>3 DEF Controls
  <2> QED
    BY <2>1 DEF Fin!Threads, Fin!Setting
<1>5. 0 \in 0..Len(object)
  BY DEF FinShape, FinTypeOK
<1>6. FinTypeOK'
  BY <1>1, <1>2, <1>4, <1>5 DEF FinShape, FinTypeOK, Named
<1>7. \A u \in Fin!Threads \ {t} : oldlen'[u] = oldlen[u]
  BY <1>1 DEF FinShape, FinTypeOK
<1>8. finalizers_lock = t
  BY <1>1, <1>3, StepsAre DEF Controls
<1>9. Controls(t)'
  BY <1>1, <1>2, <1>3, <1>4, <1>8, StepsAre DEF Controls
<1> QED
  BY <1>1, <1>2, <1>4, <1>6, <1>7, <1>8, <1>9, ControlKept DEF FinShape

\* A thread gets the entries of a list to run, if there are any.
Runs(t, s, pending) ==
  batches' = [batches EXCEPT ![t] =
    IF s = << >> THEN batches[t] ELSE Append(batches[t], [pending |-> pending, items |-> s])]

LEMMA RunsType ==
  ASSUME FinTypeOK, NEW t \in Fin!Threads, NEW s \in Seq(Named), NEW p \in BOOLEAN, Runs(t, s, p)
  PROVE  batches' \in [Fin!Threads -> Seq(Batch(Named))]
<1>1. s # << >> => [pending |-> p, items |-> s] \in Batch(Named)
  BY DEF Batch
<1>2. (IF s = << >> THEN batches[t] ELSE Append(batches[t], [pending |-> p, items |-> s])) \in Seq(Batch(Named))
  <2>1. batches[t] \in Seq(Batch(Named))
    BY DEF FinTypeOK
  <2> QED
    BY <1>1, <2>1
<1> QED
  BY <1>2 DEF FinTypeOK, Runs

LEMMA FinalizeMarkedIs ==
  ASSUME NEW t, Fin!FinalizeMarked(t)
  PROVE  \E ob : /\ finalizer_list_marked' = Fin!Except(finalizer_list_marked, ob)
                 /\ Runs(t, copied_list \o Fin!Of(finalizer_list_marked, ob), FALSE)
<1> DEFINE ob == CHOOSE ob \in o : TRUE
<1>1. /\ finalizer_list_marked' = Fin!Except(finalizer_list_marked, ob)
      /\ Runs(t, copied_list \o Fin!Of(finalizer_list_marked, ob), FALSE)
  BY DEF Fin!FinalizeMarked, Runs
<1> HIDE DEF ob
<1> QED
  BY <1>1

LEMMA FinalizeMarkedShape ==
  ASSUME Fin!Setting, FinShape, NEW t \in Fin!Threads, Fin!FinalizeMarked(t)
  PROVE  FinShape'
<1>1. /\ fin_pc[t] = "visit" /\ Fin!Goto(t, "user")
      /\ finalizers_lock' = 0 /\ visit' = 0 /\ copied_list' = << >>
      /\ UNCHANGED <<object, items, len, oldlen, newentry, newlen, to_finalize,
                     jl_gc_have_pending_finalizers, runs>>
  BY DEF Fin!FinalizeMarked, Fin!lists, Fin!NoOwner
<1>2. /\ fin_pc' \in [Fin!Threads -> FinSteps] /\ fin_pc'[t] = "user"
      /\ \A u \in Fin!Threads : u # t => fin_pc'[u] = fin_pc[u]
  BY <1>1, StepsAre, FinGoto DEF FinShape
<1>3. PICK ob : /\ finalizer_list_marked' = Fin!Except(finalizer_list_marked, ob)
                /\ Runs(t, copied_list \o Fin!Of(finalizer_list_marked, ob), FALSE)
  BY FinalizeMarkedIs
<1>4. finalizer_list_marked' \in Seq(Named) /\ batches' \in [Fin!Threads -> Seq(Batch(Named))]
  <2>1. finalizer_list_marked \in Seq(Named) /\ copied_list \in Seq(Named)
    BY DEF FinShape, FinTypeOK
  <2>2. /\ Fin!Except(finalizer_list_marked, ob) \in Seq(Named)
        /\ Fin!Of(finalizer_list_marked, ob) \in Seq(Named)
    BY <2>1, SelectedType DEF Fin!Except, Fin!Of
  <2>3. copied_list \o Fin!Of(finalizer_list_marked, ob) \in Seq(Named)
    BY <2>1, <2>2
  <2> QED
    BY <1>3, <2>2, <2>3, RunsType DEF FinShape
<1>5. 0 \in 0..nthreads + 1 /\ << >> \in Seq(Named)
  BY DEF Fin!Setting
<1>6. FinTypeOK'
  BY <1>1, <1>2, <1>4, <1>5 DEF FinShape, FinTypeOK, Named
<1>7. Controls(t) /\ t # 0
  BY DEF FinShape, FinControl, Fin!Threads
<1>8. finalizers_lock = t
  BY <1>1, <1>7, StepsAre DEF Controls
<1>9. Controls(t)'
  BY <1>1, <1>2, <1>7, StepsAre DEF Controls
<1> QED
  BY <1>1, <1>2, <1>6, <1>8, <1>9, ControlKept DEF FinShape

\* A list that is not empty, without its last element and with it.
LEMMA EndOf ==
  ASSUME NEW T, NEW s \in Seq(T), s # << >>
  PROVE  /\ Fin!Front(s) \in Seq(T) /\ Fin!Last(s) \in T
         /\ s = Append(Fin!Front(s), Fin!Last(s))
<1>1. Len(s) \in Nat \ {0}
  OBVIOUS
<1> DEFINE m == Len(s)
<1>2. /\ Fin!Front(s) = SubSeq(s, 1, m - 1) /\ Fin!Last(s) = s[m]
  BY DEF Fin!Front, Fin!Last
<1>3. SubSeq(s, 1, m - 1) \in Seq(T) /\ s[m] \in T
  BY <1>1
<1>4. s = Append(SubSeq(s, 1, m - 1), s[m])
  BY <1>1
<1> QED
  BY <1>2, <1>3, <1>4

\* One finalizer of the innermost list is run, the last one.
RunsLast(t) ==
  LET batch == Fin!Last(batches[t])
      left == Fin!Front(batch.items)
  IN /\ runs' = [runs EXCEPT ![Fin!Last(batch.items)] = @ + 1]
     /\ batches' = [batches EXCEPT ![t] =
          IF left = << >> THEN Fin!Front(batches[t])
          ELSE Append(Fin!Front(batches[t]), [pending |-> batch.pending, items |-> left])]

LEMMA RunFinalizerIs ==
  ASSUME FinTypeOK, NEW t \in Fin!Threads, Fin!RunFinalizer(t)
  PROVE  batches[t] # << >> /\ RunsLast(t)
<1> DEFINE batch == Fin!Last(batches[t])
           left == Fin!Front(batch.items)
<1>1. /\ batches[t] # << >>
      /\ runs' = [runs EXCEPT ![Fin!Last(batch.items)] = @ + 1]
      /\ batches' = [batches EXCEPT ![t] =
           IF left = << >> THEN Fin!Front(batches[t])
           ELSE Append(Fin!Front(batches[t]), [batch EXCEPT !.items = left])]
  BY DEF Fin!RunFinalizer, Fin!running
<1>2. batch \in Batch(Named)
  BY <1>1, EndOf DEF FinTypeOK
<1> HIDE DEF batch
<1>3. [batch EXCEPT !.items = left] = [pending |-> batch.pending, items |-> left]
  BY <1>2 DEF Batch
<1> QED
  BY <1>1, <1>3 DEF RunsLast, batch

LEMMA RunsLastType ==
  ASSUME Fin!Setting, FinTypeOK, NEW t \in Fin!Threads, batches[t] # << >>, RunsLast(t)
  PROVE  /\ Fin!Last(Fin!Last(batches[t]).items) \in Fin!Entries
         /\ batches' \in [Fin!Threads -> Seq(Batch(Named))] /\ runs' \in [Fin!Entries -> Nat]
<1> DEFINE batch == Fin!Last(batches[t])
           left == Fin!Front(batch.items)
           outer == Fin!Front(batches[t])
           n == Fin!Last(batch.items)
<1>1. batch \in Batch(Named) /\ outer \in Seq(Batch(Named))
  BY EndOf DEF FinTypeOK
<1> HIDE DEF batch, outer
<1>2. batch.pending \in BOOLEAN /\ batch.items \in Seq(Named) /\ batch.items # << >>
  BY <1>1 DEF Batch
<1>3. left \in Seq(Named) /\ n \in Named
  BY <1>2, EndOf
<1> HIDE DEF left, n
<1>4. n \in Fin!Entries
  BY <1>3 DEF Named, FinTypeOK, Fin!Entries, Fin!Setting
<1>5. left # << >> => [pending |-> batch.pending, items |-> left] \in Batch(Named)
  BY <1>2, <1>3 DEF Batch
<1>6. (IF left = << >> THEN outer ELSE Append(outer, [pending |-> batch.pending, items |-> left]))
        \in Seq(Batch(Named))
  BY <1>1, <1>5
<1>7. /\ runs' = [runs EXCEPT ![n] = @ + 1]
      /\ batches' = [batches EXCEPT ![t] =
           IF left = << >> THEN outer ELSE Append(outer, [pending |-> batch.pending, items |-> left])]
  BY DEF RunsLast, n, left, outer, batch
<1>8. batches' \in [Fin!Threads -> Seq(Batch(Named))]
  <2> HIDE DEF left
  <2> QED
    BY <1>6, <1>7 DEF FinTypeOK
<1>9. runs' \in [Fin!Entries -> Nat]
  <2>1. runs \in [Fin!Entries -> Nat] /\ runs' = [runs EXCEPT ![n] = @ + 1]
    BY <1>7 DEF FinTypeOK
  <2> QED
    BY <1>4, <2>1
<1> QED
  BY <1>4, <1>8, <1>9 DEF n, batch

LEMMA RunFinalizerShape ==
  ASSUME Fin!Setting, FinShape, NEW t \in Fin!Threads, Fin!RunFinalizer(t)
  PROVE  FinShape'
<1>1. UNCHANGED <<fin_pc, object, items, len, oldlen, newentry, newlen, copied_list, visit,
                  finalizer_list_marked, to_finalize, jl_gc_have_pending_finalizers, finalizers_lock>>
  BY DEF Fin!RunFinalizer, Fin!lists, Fin!global, Fin!locals
<1>2. batches' \in [Fin!Threads -> Seq(Batch(Named))] /\ runs' \in [Fin!Entries -> Nat]
  BY RunFinalizerIs, RunsLastType DEF FinShape
<1>3. FinTypeOK'
  BY <1>1, <1>2 DEF FinShape, FinTypeOK, Named
<1>4. FinControl'
  BY <1>1 DEF FinShape, FinControl, Controls
<1> QED
  BY <1>3, <1>4 DEF FinShape

-----------------------------------------------------------------------------
(* The scheduled finalizers are run.                                        *)

\* Nothing that is proved here changes.
FinStill ==
  UNCHANGED <<fin_pc, object, items, len, oldlen, newentry, newlen, copied_list, visit,
              finalizer_list_marked, to_finalize, jl_gc_have_pending_finalizers, finalizers_lock,
              batches, runs>>

LEMMA StillShape == ASSUME FinShape, FinStill PROVE FinShape'
<1>1. FinTypeOK'
  BY DEF FinStill, FinShape, FinTypeOK, Named
<1>2. FinControl'
  BY DEF FinStill, FinShape, FinControl, Controls
<1> QED
  BY <1>1, <1>2 DEF FinShape

LEMMA RunFinalizersShape ==
  ASSUME Fin!Setting, FinShape, NEW t \in Fin!Threads,
         fin_pc[t] \in {"user", "collected", "flush"}, Fin!RunFinalizers(t)
  PROVE  FinShape'
<1>1. /\ Fin!Goto(t, "user") /\ finalizers_lock = 0 /\ to_finalize' = << >>
      /\ jl_gc_have_pending_finalizers' = IF to_finalize = << >> THEN jl_gc_have_pending_finalizers
                                          ELSE FALSE
      /\ Runs(t, to_finalize, TRUE)
      /\ UNCHANGED <<object, items, len, oldlen, newentry, newlen, copied_list, visit,
                     finalizer_list_marked, finalizers_lock, runs>>
  BY DEF Fin!RunFinalizers, Runs, Fin!lists, Fin!locals, Fin!NoOwner
<1>2. /\ fin_pc' \in [Fin!Threads -> FinSteps] /\ fin_pc'[t] = "user"
      /\ \A u \in Fin!Threads : u # t => fin_pc'[u] = fin_pc[u]
  BY <1>1, StepsAre, FinGoto DEF FinShape
<1>3. batches' \in [Fin!Threads -> Seq(Batch(Named))]
  BY <1>1, RunsType DEF FinShape, FinTypeOK
<1>4. FinTypeOK'
  <2>1. << >> \in Seq(Named)
    OBVIOUS
  <2> QED
    BY <1>1, <1>2, <1>3, <2>1 DEF FinShape, FinTypeOK, Named
<1>5. Controls(t)
  BY DEF FinShape, FinControl
<1>6. Controls(t)'
  BY <1>1, <1>2, <1>5, StepsAre DEF Controls
<1> QED
  BY <1>1, <1>2, <1>4, <1>6, ControlKept DEF FinShape

LEMMA RunsPendingShape ==
  ASSUME Fin!Setting, FinShape, NEW t \in Fin!Threads,
         Fin!RunPending(t) \/ Fin!Enable(t) \/ Fin!Collected(t) \/ Fin!Flush(t) \/ Fin!Inhibit(t)
  PROVE  FinShape'
<1>1. CASE Fin!RunPending(t)
  BY <1>1, RunFinalizersShape DEF Fin!RunPending
<1>2. CASE Fin!Flush(t)
  BY <1>2, RunFinalizersShape DEF Fin!Flush
<1>3. CASE Fin!Inhibit(t)
  BY <1>3, StillShape DEF Fin!Inhibit, FinStill, Fin!lists, Fin!global, Fin!locals, Fin!progress
<1>4. CASE Fin!Enable(t)
  <2>1. CASE Fin!RunFinalizers(t)
    BY <1>4, <2>1, RunFinalizersShape DEF Fin!Enable
  <2>2. CASE ~Fin!RunFinalizers(t)
    BY <1>4, <2>2, StillShape
    DEF Fin!Enable, FinStill, Fin!lists, Fin!global, Fin!locals, Fin!progress
  <2> QED
    BY <2>1, <2>2
<1>5. CASE Fin!Collected(t)
  <2>1. CASE Fin!RunFinalizers(t)
    BY <1>5, <2>1, RunFinalizersShape DEF Fin!Collected
  <2>2. CASE ~Fin!RunFinalizers(t)
    <3>1. /\ fin_pc[t] = "collected" /\ Fin!Goto(t, "user")
          /\ UNCHANGED <<object, items, len, oldlen, newentry, newlen, copied_list, visit,
                         finalizer_list_marked, to_finalize, jl_gc_have_pending_finalizers,
                         finalizers_lock, batches, runs>>
      BY <1>5, <2>2 DEF Fin!Collected, Fin!lists, Fin!global, Fin!locals, Fin!progress
    <3>2. /\ fin_pc' \in [Fin!Threads -> FinSteps] /\ fin_pc'[t] = "user"
          /\ \A u \in Fin!Threads : u # t => fin_pc'[u] = fin_pc[u]
      BY <3>1, StepsAre, FinGoto DEF FinShape
    <3>3. FinTypeOK'
      BY <3>1, <3>2 DEF FinShape, FinTypeOK, Named
    <3>4. Controls(t)'
      BY <3>1, <3>2, StepsAre DEF FinShape, FinControl, Controls
    <3> QED
      BY <3>1, <3>2, <3>3, <3>4, ControlKept DEF FinShape
  <2> QED
    BY <2>1, <2>2
<1> QED
  BY <1>1, <1>2, <1>3, <1>4, <1>5

-----------------------------------------------------------------------------
(* The collector sweeps the lists.                                          *)

\* The lists of all threads, one after the other.
LEMMA ListsTogether ==
  ASSUME Fin!Setting, NEW T, NEW F \in [Fin!Threads -> Seq(T)]
  PROVE  /\ Fin!FlattenSeq(F) \in Seq(T)
         /\ \A n : Tally(Fin!FlattenSeq(F), n) = SumFunctionOnSet([t \in Fin!Threads |-> Tally(F[t], n)], Fin!Threads)
<1>1. F \in Seq(Seq(T)) /\ Len(F) = nthreads /\ Fin!Threads = 1..nthreads
  BY DEF Fin!Threads, Fin!Setting
<1>2. \A n : Tallies(F, n) = [t \in Fin!Threads |-> Tally(F[t], n)]
  BY <1>1 DEF Tallies
<1> QED
  BY <1>1, <1>2, FlatElements

Sweeps(aged, psf) ==
  /\ items' = [u \in Fin!Threads |-> Fin!Padded(Fin!Stays(Fin!Live(u), aged))]
  /\ len' = [u \in Fin!Threads |-> Len(Fin!Stays(Fin!Live(u), aged))]
  /\ finalizer_list_marked' =
       (IF psf THEN Fin!Stays(finalizer_list_marked, {}) ELSE finalizer_list_marked)
         \o Fin!FlattenSeq([u \in Fin!Threads |-> Fin!Moves(Fin!Live(u), aged)])
  /\ to_finalize' = to_finalize \o (Fin!FlattenSeq([u \in Fin!Threads |-> Fin!Freed(Fin!Live(u))])
                                     \o Fin!Freed(IF psf THEN finalizer_list_marked ELSE << >>))
  /\ jl_gc_have_pending_finalizers' =
       (jl_gc_have_pending_finalizers
        \/ Fin!FlattenSeq([u \in Fin!Threads |-> Fin!Freed(Fin!Live(u))])
             \o Fin!Freed(IF psf THEN finalizer_list_marked ELSE << >>) # << >>)

LEMMA CollectIs ==
  ASSUME NEW t, NEW full, NEW objects, NEW functions, Fin!Collect(t, full, objects, functions)
  PROVE  \E aged : Sweeps(aged, prev_sweep_full)
<1> DEFINE aged == {n \in oldfun' : object[n] \in old'}
<1>1. Sweeps(aged, prev_sweep_full)
  BY DEF Fin!Collect, Sweeps, Fin!all_lists, Fin!swept_marked, Fin!flagged
<1> HIDE DEF aged
<1> QED
  BY <1>1

LEMMA PaddedType ==
  ASSUME NEW u \in Nat, NEW r \in Seq(1..u)
  PROVE  /\ Fin!Padded(r) \in [Fin!Entries -> 0..u]
         /\ \A i \in Fin!Entries : Fin!Padded(r)[i] = IF i <= Len(r) THEN r[i] ELSE 0
<1>1. \A i \in Fin!Entries : i <= Len(r) => r[i] \in 0..u
  BY DEF Fin!Entries
<1>2. 0 \in 0..u
  OBVIOUS
<1> QED
  BY <1>1, <1>2 DEF Fin!Padded

LEMMA SweepsShape ==
  ASSUME Fin!Setting, FinTypeOK, NEW aged, NEW psf, Sweeps(aged, psf)
  PROVE  /\ items' \in [Fin!Threads -> [Fin!Entries -> 0..Len(object)]]
         /\ len' \in [Fin!Threads -> 0..Len(object)]
         /\ finalizer_list_marked' \in Seq(Named) /\ to_finalize' \in Seq(Named)
         /\ jl_gc_have_pending_finalizers' \in BOOLEAN
         /\ Fin!FlattenSeq([u \in Fin!Threads |-> Fin!Moves(Fin!Live(u), aged)]) \in Seq(Named)
         /\ Fin!FlattenSeq([u \in Fin!Threads |-> Fin!Freed(Fin!Live(u))]) \in Seq(Named)
<1> DEFINE k == Len(object)
           fm == [u \in Fin!Threads |-> Fin!Moves(Fin!Live(u), aged)]
           ff == [u \in Fin!Threads |-> Fin!Freed(Fin!Live(u))]
<1>1. ASSUME NEW u \in Fin!Threads
      PROVE  /\ Fin!Moves(Fin!Live(u), aged) \in Seq(Named) /\ Fin!Freed(Fin!Live(u)) \in Seq(Named)
             /\ Fin!Stays(Fin!Live(u), aged) \in Seq(Named)
             /\ Len(Fin!Stays(Fin!Live(u), aged)) \in 0..k
  <2>1. Fin!Live(u) \in Seq(Named) /\ Len(Fin!Live(u)) \in 0..len[u] /\ len[u] \in 0..k
    BY LiveType DEF FinTypeOK
  <2>2. /\ Fin!Moves(Fin!Live(u), aged) \in Seq(Named) /\ Fin!Freed(Fin!Live(u)) \in Seq(Named)
        /\ Fin!Stays(Fin!Live(u), aged) \in Seq(Named)
        /\ Len(Fin!Stays(Fin!Live(u), aged)) \in 0..Len(Fin!Live(u))
    BY <2>1, SelectedType DEF Fin!Moves, Fin!Freed, Fin!Stays
  <2>3. k \in Nat
    BY DEF FinTypeOK
  <2> HIDE DEF k
  <2> QED
    BY <2>1, <2>2, <2>3
<1>2. fm \in [Fin!Threads -> Seq(Named)] /\ ff \in [Fin!Threads -> Seq(Named)]
  BY <1>1
<1> HIDE DEF fm, ff
<1>3. Fin!FlattenSeq(fm) \in Seq(Named) /\ Fin!FlattenSeq(ff) \in Seq(Named)
  BY <1>2, ListsTogether
<1>4. finalizer_list_marked \in Seq(Named) /\ to_finalize \in Seq(Named) /\ k \in Nat
  BY DEF FinTypeOK
<1>5. /\ Fin!Stays(finalizer_list_marked, {}) \in Seq(Named)
      /\ Fin!Freed(IF psf THEN finalizer_list_marked ELSE << >>) \in Seq(Named)
  <2> DEFINE swept == IF psf THEN finalizer_list_marked ELSE << >>
  <2>1. swept \in Seq(Named)
    BY <1>4
  <2> HIDE DEF swept
  <2>2. Fin!Freed(swept) \in Seq(Named) /\ Fin!Stays(finalizer_list_marked, {}) \in Seq(Named)
    BY <1>4, <2>1, SelectedType DEF Fin!Stays, Fin!Freed
  <2> QED
    BY <2>2 DEF swept
<1>6. /\ finalizer_list_marked' = (IF psf THEN Fin!Stays(finalizer_list_marked, {}) ELSE finalizer_list_marked)
                                    \o Fin!FlattenSeq(fm)
      /\ to_finalize' = to_finalize \o (Fin!FlattenSeq(ff) \o Fin!Freed(IF psf THEN finalizer_list_marked ELSE << >>))
      /\ jl_gc_have_pending_finalizers' \in BOOLEAN
  BY DEF Sweeps, fm, ff, FinTypeOK
<1>7. finalizer_list_marked' \in Seq(Named)
  BY <1>3, <1>4, <1>5, <1>6
<1>8. to_finalize' \in Seq(Named)
  <2>1. Fin!FlattenSeq(ff) \o Fin!Freed(IF psf THEN finalizer_list_marked ELSE << >>) \in Seq(Named)
    BY <1>3, <1>5
  <2> QED
    BY <1>4, <1>6, <2>1
<1>9. \A u \in Fin!Threads : Fin!Padded(Fin!Stays(Fin!Live(u), aged)) \in [Fin!Entries -> 0..k]
  BY <1>1, <1>4, PaddedType DEF Named
<1>10. /\ items' \in [Fin!Threads -> [Fin!Entries -> 0..k]] /\ len' \in [Fin!Threads -> 0..k]
  BY <1>1, <1>9 DEF Sweeps
<1> QED
  BY <1>3, <1>6, <1>7, <1>8, <1>10 DEF fm, ff

LEMMA CollectShape ==
  ASSUME Fin!Setting, FinShape, NEW t \in Fin!Threads,
         NEW full, NEW objects, NEW functions, Fin!Collect(t, full, objects, functions)
  PROVE  FinShape'
<1>1. /\ fin_pc[t] = "user" /\ Fin!Goto(t, "collected")
      /\ UNCHANGED <<object, finalizers_lock, oldlen, newentry, newlen, copied_list, visit, batches, runs>>
  BY DEF Fin!Collect, Fin!locals, Fin!progress
<1>2. /\ fin_pc' \in [Fin!Threads -> FinSteps] /\ fin_pc'[t] = "collected"
      /\ \A u \in Fin!Threads : u # t => fin_pc'[u] = fin_pc[u]
  BY <1>1, StepsAre, FinGoto DEF FinShape
<1>3. PICK aged : Sweeps(aged, prev_sweep_full)
  BY CollectIs
<1>4. FinTypeOK'
  BY <1>1, <1>2, <1>3, SweepsShape DEF FinShape, FinTypeOK, Named
<1>5. Controls(t)'
  BY <1>1, <1>2, StepsAre DEF FinShape, FinControl, Controls
<1> QED
  BY <1>1, <1>2, <1>4, <1>5, ControlKept DEF FinShape

-----------------------------------------------------------------------------
(* The end of the program.                                                  *)

LEMMA ExitShape ==
  ASSUME Fin!Setting, FinShape, NEW t \in Fin!Threads, Fin!Exit(t)
  PROVE  FinShape'
<1>1. /\ fin_pc[t] = "user" /\ finalizers_lock = 0 /\ Fin!Goto(t, "schedule")
      /\ finalizers_lock' = t /\ visit' = 1 /\ finalizer_list_marked' = << >>
      /\ to_finalize' = to_finalize \o finalizer_list_marked
      /\ jl_gc_have_pending_finalizers' = (jl_gc_have_pending_finalizers \/ finalizer_list_marked # << >>)
      /\ UNCHANGED <<object, items, len, oldlen, newentry, newlen, copied_list, batches, runs>>
  BY DEF Fin!Exit, Fin!lists, Fin!progress, Fin!NoOwner, Fin!flagged
<1>2. /\ fin_pc' \in [Fin!Threads -> FinSteps] /\ fin_pc'[t] = "schedule"
      /\ \A u \in Fin!Threads : u # t => fin_pc'[u] = fin_pc[u]
  BY <1>1, StepsAre, FinGoto DEF FinShape
<1>3. /\ 1 \in 0..nthreads + 1 /\ 1 \in 1..nthreads + 1 /\ << >> \in Seq(Named)
      /\ to_finalize \o finalizer_list_marked \in Seq(Named)
  BY DEF Fin!Setting, FinShape, FinTypeOK
<1>4. FinTypeOK'
  BY <1>1, <1>2, <1>3 DEF FinShape, FinTypeOK, Named
<1>5. Controls(t)'
  BY <1>1, <1>2, <1>3, StepsAre DEF FinShape, FinControl, Controls
<1> QED
  BY <1>1, <1>2, <1>4, <1>5, ControlKept DEF FinShape

LEMMA ScheduleShape ==
  ASSUME Fin!Setting, FinShape, NEW t \in Fin!Threads,
         Fin!ScheduleAll(t) \/ Fin!ClearList(t) \/ Fin!ScheduledAll(t)
  PROVE  FinShape'
<1>1. Controls(t) /\ t # 0
  BY DEF FinShape, FinControl, Fin!Threads
<1>2. CASE Fin!ScheduleAll(t)
  <2>1. /\ fin_pc[t] = "schedule" /\ visit <= nthreads /\ Fin!Goto(t, "clear")
        /\ to_finalize' = to_finalize \o Fin!Live(visit)
        /\ jl_gc_have_pending_finalizers' = (jl_gc_have_pending_finalizers \/ Fin!Live(visit) # << >>)
        /\ UNCHANGED <<object, items, len, oldlen, newentry, newlen, copied_list, visit,
                       finalizer_list_marked, finalizers_lock, batches, runs>>
    BY <1>2 DEF Fin!ScheduleAll, Fin!lists, Fin!locals, Fin!progress, Fin!flagged
  <2>2. /\ fin_pc' \in [Fin!Threads -> FinSteps] /\ fin_pc'[t] = "clear"
        /\ \A u \in Fin!Threads : u # t => fin_pc'[u] = fin_pc[u]
    BY <2>1, StepsAre, FinGoto DEF FinShape
  <2>3. visit \in Fin!Threads
    BY <1>1, <2>1 DEF Controls, Fin!Threads, Fin!Setting
  <2>4. to_finalize' \in Seq(Named)
    <3>1. Fin!Live(visit) \in Seq(Named) /\ to_finalize \in Seq(Named)
      BY <2>3, LiveType DEF FinShape, FinTypeOK
    <3> QED
      BY <2>1, <3>1
  <2>5. FinTypeOK'
    BY <2>1, <2>2, <2>4 DEF FinShape, FinTypeOK, Named
  <2>6. Controls(t)'
    BY <1>1, <2>1, <2>2, <2>3, StepsAre DEF Controls
  <2> QED
    BY <2>1, <2>2, <2>5, <2>6, ControlKept DEF FinShape
<1>3. CASE Fin!ClearList(t)
  <2>1. /\ fin_pc[t] = "clear" /\ Fin!Goto(t, "schedule")
        /\ len' = [len EXCEPT ![visit] = 0] /\ visit' = visit + 1
        /\ UNCHANGED <<object, items, oldlen, newentry, newlen, copied_list, to_finalize,
                       jl_gc_have_pending_finalizers, finalizer_list_marked, finalizers_lock, batches, runs>>
    BY <1>3 DEF Fin!ClearList, Fin!global, Fin!progress
  <2>2. /\ fin_pc' \in [Fin!Threads -> FinSteps] /\ fin_pc'[t] = "schedule"
        /\ \A u \in Fin!Threads : u # t => fin_pc'[u] = fin_pc[u]
    BY <2>1, StepsAre, FinGoto DEF FinShape
  <2>3. visit \in Fin!Threads /\ finalizers_lock = t
    BY <1>1, <2>1, StepsAre DEF Controls
  <2>4. visit + 1 \in 0..nthreads + 1 /\ visit + 1 \in 1..nthreads + 1 /\ 0 \in 0..Len(object)
    BY <2>3 DEF Fin!Threads, Fin!Setting, FinShape, FinTypeOK
  <2>5. FinTypeOK'
    BY <2>1, <2>2, <2>4 DEF FinShape, FinTypeOK, Named
  <2>6. Controls(t)'
    BY <1>1, <2>1, <2>2, <2>3, <2>4, StepsAre DEF Controls
  <2> QED
    BY <2>1, <2>2, <2>3, <2>5, <2>6, ControlKept DEF FinShape
<1>4. CASE Fin!ScheduledAll(t)
  <2>1. /\ fin_pc[t] = "schedule" /\ Fin!Goto(t, "flush") /\ finalizers_lock' = 0 /\ visit' = 0
        /\ UNCHANGED <<object, items, len, oldlen, newentry, newlen, copied_list, to_finalize,
                       jl_gc_have_pending_finalizers, finalizer_list_marked, batches, runs>>
    BY <1>4 DEF Fin!ScheduledAll, Fin!lists, Fin!progress, Fin!NoOwner
  <2>2. /\ fin_pc' \in [Fin!Threads -> FinSteps] /\ fin_pc'[t] = "flush"
        /\ \A u \in Fin!Threads : u # t => fin_pc'[u] = fin_pc[u]
    BY <2>1, StepsAre, FinGoto DEF FinShape
  <2>3. finalizers_lock = t
    BY <1>1, <2>1, StepsAre DEF Controls
  <2>4. 0 \in 0..nthreads + 1
    BY DEF Fin!Setting
  <2>5. FinTypeOK'
    BY <2>1, <2>2, <2>4 DEF FinShape, FinTypeOK, Named
  <2>6. Controls(t)'
    BY <1>1, <2>1, <2>2, StepsAre DEF Controls
  <2> QED
    BY <2>1, <2>2, <2>3, <2>5, <2>6, ControlKept DEF FinShape
<1> QED
  BY <1>2, <1>3, <1>4

LEMMA FinShapeStep == ASSUME Fin!Setting, FinShape, [Fin!Next]_(Fin!vars) PROVE FinShape'
<1>1. ASSUME NEW t \in Fin!Threads, Fin!Registers(t) PROVE FinShape'
  BY <1>1, AddFinalizerShape, PushItemShape, PublishLenShape DEF Fin!Registers
<1>2. ASSUME NEW t \in Fin!Threads, Fin!Finalizes(t) PROVE FinShape'
  BY <1>2, FinalizeShape, FinalizeObjectIs, VisitedShape, CmpswapLenShape, FinalizeMarkedShape,
     RunFinalizerShape DEF Fin!Finalizes
<1>3. ASSUME NEW t \in Fin!Threads, Fin!Schedules(t) PROVE FinShape'
  BY <1>3, RunsPendingShape DEF Fin!Schedules
<1>4. ASSUME NEW t \in Fin!Threads, Fin!Collects(t) PROVE FinShape'
  BY <1>4, RunsPendingShape, CollectShape DEF Fin!Collects
<1>5. ASSUME NEW t \in Fin!Threads, Fin!Exits(t) PROVE FinShape'
  BY <1>5, RunsPendingShape, ExitShape, ScheduleShape DEF Fin!Exits
<1>6. ASSUME NEW ob \in FinObjects, Fin!Drop(ob) PROVE FinShape'
  BY <1>6, StillShape DEF Fin!Drop, FinStill, Fin!lists, Fin!global, Fin!locals, Fin!progress
<1>7. CASE Fin!Elsewhere \/ UNCHANGED Fin!vars
  BY <1>7, StillShape DEF Fin!Elsewhere, Fin!vars, FinStill, Fin!lists, Fin!global, Fin!locals, Fin!progress
<1> QED
  BY <1>1, <1>2, <1>3, <1>4, <1>5, <1>6, <1>7 DEF Fin!Next

LEMMA FinShapeInvariant == Fin!Spec => []FinShape
<1>1. Fin!Init => FinShape
  BY FinInitShape, FinalizerSetting
<1>2. FinShape /\ [Fin!Next]_(Fin!vars) => FinShape'
  BY FinShapeStep, FinalizerSetting
<1> QED
  BY <1>1, <1>2, PTL DEF Fin!Spec

-----------------------------------------------------------------------------
(* Finalizers are scheduled when they are due.                              *)

ExitSteps == {"schedule", "clear", "flush"}
DueInv ==
  /\ \A t \in Fin!Threads : fin_pc[t] \in ExitSteps => exiting
  /\ ~exiting => \A i \in 1..Len(to_finalize) : object[to_finalize[i]] \in dropped
  /\ to_finalize # << >> => jl_gc_have_pending_finalizers

LEMMA ExitingStill ==
  ASSUME FinTypeOK, DueInv, NEW t \in Fin!Threads, NEW to \in FinSteps, Fin!Goto(t, to),
         to \in ExitSteps => exiting', exiting => exiting'
  PROVE  \A u \in Fin!Threads : fin_pc'[u] \in ExitSteps => exiting'
BY FinGoto DEF DueInv

\* What is scheduled stays due: objects get no other meaning, and are not reached again.
LEMMA DueKept ==
  ASSUME FinTypeOK, DueInv,
         \A u \in Fin!Threads : fin_pc'[u] \in ExitSteps => exiting',
         exiting' = exiting, to_finalize' = to_finalize,
         jl_gc_have_pending_finalizers' = jl_gc_have_pending_finalizers,
         dropped \subseteq dropped',
         object' = object \/ (\E ob : object' = Append(object, ob))
  PROVE  DueInv'
<1>1. \A n \in Named : object'[n] = object[n]
  BY DEF FinTypeOK, Named
<1>2. \A i \in 1..Len(to_finalize) : to_finalize[i] \in Named
  BY DEF FinTypeOK
<1> QED
  BY <1>1, <1>2 DEF DueInv

LEMMA DueRun ==
  ASSUME FinTypeOK, DueInv, NEW t \in Fin!Threads, Fin!RunFinalizers(t), exiting' = exiting
  PROVE  DueInv'
<1>1. Fin!Goto(t, "user") /\ to_finalize' = << >>
  BY DEF Fin!RunFinalizers
<1>2. "user" \in FinSteps /\ "user" \notin ExitSteps
  BY DEF FinSteps, ExitSteps
<1> QED
  BY <1>1, <1>2, ExitingStill DEF DueInv

LEMMA DueSwept ==
  ASSUME Fin!Setting, FinTypeOK, DueInv, NEW t \in Fin!Threads,
         NEW full, NEW objects, NEW functions, Fin!Collect(t, full, objects, functions)
  PROVE  DueInv'
<1>1. Fin!Goto(t, "collected") /\ UNCHANGED <<object, dropped, exiting>>
  BY DEF Fin!Collect, Fin!control
<1>2. PICK aged : Sweeps(aged, prev_sweep_full)
  BY CollectIs
<1> DEFINE ff == [u \in Fin!Threads |-> Fin!Freed(Fin!Live(u))]
           swept == IF prev_sweep_full THEN finalizer_list_marked ELSE << >>
           scheduled == Fin!FlattenSeq(ff) \o Fin!Freed(swept)
           Due == {n \in Named : object[n] \in dropped}
<1>3. \A s \in Seq(Named) : Fin!Freed(s) \in Seq(Due)
  <2> SUFFICES ASSUME NEW s \in Seq(Named) PROVE Fin!Freed(s) \in Seq(Due)
    OBVIOUS
  <2>1. Fin!Freed(s) \in Seq(Named \cap Fin!freed)
    BY KeptElements DEF Fin!Freed
  <2>2. Named \cap Fin!freed \subseteq Due
    BY DEF Fin!freed, Fin!isfreed, Fin!rooted
  <2> HIDE DEF Due
  <2> QED
    BY <2>1, <2>2, SeqMonotonic
<1> HIDE DEF Due
<1>4. ff \in [Fin!Threads -> Seq(Due)] /\ swept \in Seq(Named)
  <2>1. \A u \in Fin!Threads : Fin!Live(u) \in Seq(Named)
    BY LiveType
  <2>2. finalizer_list_marked \in Seq(Named) /\ << >> \in Seq(Named)
    BY DEF FinTypeOK
  <2> QED
    BY <1>3, <2>1, <2>2
<1> HIDE DEF ff, swept
<1>5. scheduled \in Seq(Due)
  <2>1. Fin!FlattenSeq(ff) \in Seq(Due) /\ Fin!Freed(swept) \in Seq(Due)
    BY <1>3, <1>4, ListsTogether
  <2> QED
    BY <2>1
<1> HIDE DEF scheduled
<1>6. /\ to_finalize' = to_finalize \o scheduled
      /\ jl_gc_have_pending_finalizers' = (jl_gc_have_pending_finalizers \/ scheduled # << >>)
  BY <1>2 DEF Sweeps, scheduled, swept, ff
<1>7. to_finalize \in Seq(Named)
  BY DEF FinTypeOK
<1>8. ASSUME ~exiting', NEW i \in 1..Len(to_finalize') PROVE object'[to_finalize'[i]] \in dropped'
  <2>1. /\ Len(to_finalize') = Len(to_finalize) + Len(scheduled)
        /\ to_finalize'[i] = IF i <= Len(to_finalize) THEN to_finalize[i] ELSE scheduled[i - Len(to_finalize)]
    BY <1>5, <1>6, <1>7, <1>8
  <2>2. CASE i <= Len(to_finalize)
    BY <1>1, <1>8, <2>1, <2>2 DEF DueInv
  <2>3. CASE i > Len(to_finalize)
    <3>1. i - Len(to_finalize) \in 1..Len(scheduled)
      BY <1>5, <1>7, <1>8, <2>1, <2>3
    <3>2. to_finalize'[i] \in Due
      BY <1>5, <1>7, <1>8, <2>1, <2>3, <3>1
    <3> QED
      BY <1>1, <3>2 DEF Due
  <2> QED
    BY <1>7, <1>8, <2>2, <2>3
<1>9. to_finalize' # << >> => jl_gc_have_pending_finalizers'
  <2>1. CASE scheduled = << >>
    <3>1. to_finalize' = to_finalize
      BY <1>6, <1>7, <2>1, ConcatEmptySeq
    <3> QED
      BY <1>6, <3>1 DEF DueInv
  <2>2. CASE scheduled # << >>
    BY <1>6, <2>2
  <2> QED
    BY <2>1, <2>2
<1>10. \A u \in Fin!Threads : fin_pc'[u] \in ExitSteps => exiting'
  <2>1. "collected" \in FinSteps /\ "collected" \notin ExitSteps
    BY DEF FinSteps, ExitSteps
  <2> QED
    BY <1>1, <2>1, ExitingStill
<1> QED
  BY <1>8, <1>9, <1>10 DEF DueInv

LEMMA DueExit ==
  ASSUME Fin!Setting, FinShape, DueInv, NEW t \in Fin!Threads, Fin!Exits(t)
  PROVE  DueInv'
<1>1. {"schedule", "clear", "flush"} = ExitSteps /\ ExitSteps \subseteq FinSteps
  BY DEF ExitSteps, FinSteps, Holding
<1>2. CASE Fin!Exit(t)
  <2>1. /\ exiting' /\ Fin!Goto(t, "schedule")
        /\ to_finalize' = to_finalize \o finalizer_list_marked
        /\ jl_gc_have_pending_finalizers' = (jl_gc_have_pending_finalizers \/ finalizer_list_marked # << >>)
    BY <1>2 DEF Fin!Exit, Fin!flagged
  <2>2. to_finalize' # << >> => jl_gc_have_pending_finalizers'
    <3>1. to_finalize \in Seq(Named) /\ finalizer_list_marked \in Seq(Named)
      BY DEF FinShape, FinTypeOK
    <3>2. finalizer_list_marked = << >> => to_finalize' = to_finalize
      BY <2>1, <3>1, ConcatEmptySeq
    <3> QED
      BY <2>1, <3>2 DEF DueInv
  <2> QED
    BY <2>1, <2>2 DEF DueInv
<1>3. CASE Fin!ScheduleAll(t)
  <2>1. /\ fin_pc[t] = "schedule" /\ exiting' = exiting /\ Fin!Goto(t, "clear") /\ visit <= nthreads
        /\ to_finalize' = to_finalize \o Fin!Live(visit)
        /\ jl_gc_have_pending_finalizers' = (jl_gc_have_pending_finalizers \/ Fin!Live(visit) # << >>)
    BY <1>3 DEF Fin!ScheduleAll, Fin!flagged, Fin!control
  <2>2. exiting
    BY <1>1, <2>1 DEF DueInv
  <2>3. to_finalize' # << >> => jl_gc_have_pending_finalizers'
    <3>1. Controls(t)
      BY DEF FinShape, FinControl
    <3>2. visit \in Fin!Threads
      BY <2>1, <3>1 DEF Controls, Fin!Threads, Fin!Setting
    <3>3. to_finalize \in Seq(Named) /\ Fin!Live(visit) \in Seq(Named)
      BY <3>2, LiveType DEF FinShape, FinTypeOK
    <3>4. Fin!Live(visit) = << >> => to_finalize' = to_finalize
      BY <2>1, <3>3, ConcatEmptySeq
    <3> QED
      BY <2>1, <3>4 DEF DueInv
  <2>4. \A u \in Fin!Threads : fin_pc'[u] \in ExitSteps => exiting'
    BY <1>1, <2>1, <2>2
  <2> QED
    BY <2>1, <2>2, <2>3, <2>4 DEF DueInv
<1>4. CASE Fin!ClearList(t)
  <2>1. /\ fin_pc[t] = "clear" /\ UNCHANGED <<exiting, to_finalize, jl_gc_have_pending_finalizers, object, dropped>>
    BY <1>4 DEF Fin!ClearList, Fin!control, Fin!global, Fin!heap
  <2>2. exiting
    BY <1>1, <2>1 DEF DueInv
  <2> QED
    BY <2>1, <2>2 DEF DueInv
<1>5. CASE Fin!ScheduledAll(t)
  <2>1. /\ fin_pc[t] = "schedule" /\ UNCHANGED <<exiting, to_finalize, jl_gc_have_pending_finalizers, object, dropped>>
    BY <1>5 DEF Fin!ScheduledAll, Fin!control, Fin!heap
  <2>2. exiting
    BY <1>1, <2>1 DEF DueInv
  <2> QED
    BY <2>1, <2>2 DEF DueInv
<1>6. CASE Fin!Flush(t)
  BY <1>6, DueRun DEF Fin!Flush, Fin!control, FinShape
<1> QED
  BY <1>2, <1>3, <1>4, <1>5, <1>6 DEF Fin!Exits

\* What the registering and finalizing of a thread leaves to the schedule.
DueStill ==
  /\ UNCHANGED <<to_finalize, jl_gc_have_pending_finalizers, exiting, dropped>>
  /\ object' = object \/ (\E ob : object' = Append(object, ob))

LEMMA DueElsewhere ==
  ASSUME FinTypeOK, DueInv, DueStill, NEW t \in Fin!Threads, NEW to \in FinSteps \ ExitSteps,
         Fin!Goto(t, to) \/ fin_pc' = fin_pc
  PROVE  DueInv'
<1>1. exiting' = exiting /\ to_finalize' = to_finalize /\ dropped' = dropped
      /\ jl_gc_have_pending_finalizers' = jl_gc_have_pending_finalizers
      /\ (object' = object \/ (\E ob : object' = Append(object, ob)))
  BY DEF DueStill
<1>2. \A u \in Fin!Threads : fin_pc'[u] \in ExitSteps => exiting'
  <2>1. CASE Fin!Goto(t, to)
    BY <1>1, <2>1, ExitingStill
  <2>2. CASE fin_pc' = fin_pc
    BY <1>1, <2>2 DEF DueInv
  <2> QED
    BY <2>1, <2>2
<1> QED
  BY <1>1, <1>2, DueKept

LEMMA DueRegisters ==
  ASSUME FinTypeOK, DueInv, NEW t \in Fin!Threads, Fin!Registers(t)
  PROVE  DueInv'
<1>1. {"push", "publish", "user"} \subseteq FinSteps \ ExitSteps
  BY DEF FinSteps, Pushing, ExitSteps
<1>2. ASSUME NEW ob \in FinObjects, Fin!AddFinalizer(t, ob) PROVE DueInv'
  <2>1. DueStill /\ Fin!Goto(t, "push")
    BY <1>2 DEF Fin!AddFinalizer, DueStill, Fin!global, Fin!heap, Fin!control
  <2> QED
    BY <1>1, <2>1, DueElsewhere
<1>3. CASE Fin!PushItem(t)
  <2>1. DueStill /\ Fin!Goto(t, "publish")
    BY <1>3 DEF Fin!PushItem, DueStill, Fin!global, Fin!heap, Fin!control
  <2> QED
    BY <1>1, <2>1, DueElsewhere
<1>4. CASE Fin!PublishLen(t)
  <2>1. DueStill /\ Fin!Goto(t, "user")
    BY <1>4 DEF Fin!PublishLen, DueStill, Fin!global, Fin!heap, Fin!control
  <2> QED
    BY <1>1, <2>1, DueElsewhere
<1> QED
  BY <1>2, <1>3, <1>4 DEF Fin!Registers

LEMMA DueFinalizes ==
  ASSUME FinTypeOK, DueInv, NEW t \in Fin!Threads, Fin!Finalizes(t)
  PROVE  DueInv'
<1>1. {"visit", "cmpswap", "user"} \subseteq FinSteps \ ExitSteps
  BY DEF FinSteps, Holding, ExitSteps
<1>2. ASSUME NEW ob \in FinObjects, Fin!Finalize(t, ob) PROVE DueInv'
  <2>1. DueStill /\ Fin!Goto(t, "visit")
    BY <1>2 DEF Fin!Finalize, DueStill, Fin!heap, Fin!control
  <2> QED
    BY <1>1, <2>1, DueElsewhere
<1>3. CASE Fin!FinalizeObject(t)
  <2>1. DueStill
    BY <1>3 DEF Fin!FinalizeObject, DueStill, Fin!global, Fin!heap, Fin!control
  <2>2. Fin!Goto(t, "cmpswap") \/ fin_pc' = fin_pc
    BY <1>3 DEF Fin!FinalizeObject
  <2> QED
    BY <1>1, <2>1, <2>2, DueElsewhere
<1>4. CASE Fin!CmpswapLen(t)
  <2>1. DueStill /\ Fin!Goto(t, "visit")
    BY <1>4 DEF Fin!CmpswapLen, DueStill, Fin!global, Fin!heap, Fin!control
  <2> QED
    BY <1>1, <2>1, DueElsewhere
<1>5. CASE Fin!FinalizeMarked(t)
  <2>1. DueStill /\ Fin!Goto(t, "user")
    BY <1>5 DEF Fin!FinalizeMarked, DueStill, Fin!heap, Fin!control
  <2> QED
    BY <1>1, <2>1, DueElsewhere
<1>6. CASE Fin!RunFinalizer(t)
  <2>1. DueStill /\ fin_pc' = fin_pc
    BY <1>6 DEF Fin!RunFinalizer, DueStill, Fin!global, Fin!heap, Fin!control
  <2> QED
    BY <1>1, <2>1, DueElsewhere
<1> QED
  BY <1>2, <1>3, <1>4, <1>5, <1>6 DEF Fin!Finalizes

LEMMA DueSchedules ==
  ASSUME FinTypeOK, DueInv, NEW t \in Fin!Threads, Fin!Schedules(t) \/ Fin!Collected(t)
  PROVE  DueInv'
<1>1. "user" \in FinSteps \ ExitSteps
  BY DEF FinSteps, ExitSteps
<1>2. CASE Fin!RunPending(t)
  BY <1>2, DueRun DEF Fin!RunPending, Fin!control
<1>3. CASE Fin!Inhibit(t)
  <2>1. DueStill /\ fin_pc' = fin_pc
    BY <1>3 DEF Fin!Inhibit, DueStill, Fin!global, Fin!heap
  <2> QED
    BY <1>1, <2>1, DueElsewhere
<1>4. CASE Fin!Enable(t)
  <2>1. exiting' = exiting
    BY <1>4 DEF Fin!Enable
  <2>2. CASE Fin!RunFinalizers(t)
    BY <2>1, <2>2, DueRun
  <2>3. CASE ~Fin!RunFinalizers(t)
    <3>1. DueStill /\ fin_pc' = fin_pc
      BY <1>4, <2>1, <2>3 DEF Fin!Enable, DueStill, Fin!global, Fin!heap
    <3> QED
      BY <1>1, <3>1, DueElsewhere
  <2> QED
    BY <2>2, <2>3
<1>5. CASE Fin!Collected(t)
  <2>1. exiting' = exiting
    BY <1>5 DEF Fin!Collected, Fin!control
  <2>2. CASE Fin!RunFinalizers(t)
    BY <2>1, <2>2, DueRun
  <2>3. CASE ~Fin!RunFinalizers(t)
    <3>1. DueStill /\ Fin!Goto(t, "user")
      BY <1>5, <2>1, <2>3 DEF Fin!Collected, DueStill, Fin!global, Fin!heap
    <3> QED
      BY <1>1, <3>1, DueElsewhere
  <2> QED
    BY <2>2, <2>3
<1> QED
  BY <1>2, <1>3, <1>4, <1>5 DEF Fin!Schedules

LEMMA DueStep ==
  ASSUME Fin!Setting, FinShape, DueInv, [Fin!Next]_(Fin!vars)
  PROVE  DueInv'
<1>1. FinTypeOK
  BY DEF FinShape
<1>2. ASSUME NEW ob \in FinObjects, Fin!Drop(ob) PROVE DueInv'
  <2>1. /\ UNCHANGED <<fin_pc, object, to_finalize, jl_gc_have_pending_finalizers, exiting>>
        /\ dropped \subseteq dropped'
    BY <1>2 DEF Fin!Drop, Fin!global, Fin!control
  <2>2. \A u \in Fin!Threads : fin_pc'[u] \in ExitSteps => exiting'
    BY <2>1 DEF DueInv
  <2> QED
    BY <1>1, <2>1, <2>2, DueKept
<1>3. CASE Fin!Elsewhere \/ UNCHANGED Fin!vars
  <2>1. UNCHANGED <<fin_pc, object, to_finalize, jl_gc_have_pending_finalizers, exiting, dropped>>
    BY <1>3 DEF Fin!Elsewhere, Fin!vars, Fin!global, Fin!control, Fin!heap
  <2> QED
    BY <2>1 DEF DueInv
<1>4. ASSUME NEW t \in Fin!Threads, Fin!Collects(t) PROVE DueInv'
  BY <1>1, <1>4, DueSwept, DueSchedules DEF Fin!Collects
<1> QED
  BY <1>1, <1>2, <1>3, <1>4, DueRegisters, DueFinalizes, DueSchedules, DueExit DEF Fin!Next

\* The collector schedules a finalizer only for an object that nobody reaches, until the
\* program ends and all are run; and while finalizers are scheduled the flag that makes
\* the threads run them is set.
THEOREM PendingIsDueInvariant == Fin!Spec => []PendingIsDue
<1>1. Fin!Init => DueInv
  <2> SUFFICES ASSUME Fin!Init PROVE DueInv
    OBVIOUS
  <2>1. to_finalize = << >> /\ \A t \in Fin!Threads : fin_pc[t] = "user"
    BY DEF Fin!Init
  <2> QED
    BY <2>1 DEF DueInv, ExitSteps
<1>2. FinShape /\ DueInv /\ [Fin!Next]_(Fin!vars) => DueInv'
  BY DueStep, FinalizerSetting
<1>3. FinShape /\ DueInv => PendingIsDue
  <2> SUFFICES ASSUME FinShape, DueInv PROVE PendingIsDue
    OBVIOUS
  <2>1. \A n \in Fin!ToSet(to_finalize) : \E i \in 1..Len(to_finalize) : n = to_finalize[i]
    BY DEF Fin!ToSet, FinShape, FinTypeOK
  <2> QED
    BY <2>1 DEF DueInv, PendingIsDue, Fin!PendingIsDue
<1> QED
  BY <1>1, <1>2, <1>3, FinShapeInvariant, PTL DEF Fin!Spec

\* The list that is being emptied at the end of the program: its entries are scheduled,
\* and still below its length.
Emptied == {t \in Fin!Threads : visit = t /\ \E u \in Fin!Threads : fin_pc[u] = "clear"}

\* What a thread has read of its list, and then writes, stays right although others take
\* entries out: below the length that it read, what is not published is empty.
Registering(t) ==
  fin_pc[t] \in Pushing =>
    /\ len[t] <= oldlen[t] /\ \A i \in len[t] + 1..oldlen[t] : items[t][i] = 0
    /\ fin_pc[t] = "publish" => items[t][oldlen[t] + 1] = newentry[t]
    /\ ~exiting
    /\ \A u \in Fin!Threads : newentry[u] = newentry[t] => u = t

\* Who is about to shorten the list of another thread has emptied the slots above the new length.
Shortening(t) ==
  fin_pc[t] = "cmpswap" =>
    /\ visit # t /\ newlen <= oldlen[t] /\ oldlen[t] <= len[visit]
    /\ \A i \in newlen + 1..oldlen[t] : items[visit][i] = 0

\* What is copied is on its way to be run.
Copying == copied_list # << >> => \E t \in Fin!Threads : fin_pc[t] \in {"visit", "cmpswap"}

FinSlots == (\A t \in Fin!Threads : Registering(t) /\ Shortening(t)) /\ Copying

\* Where an entry may be, also within the critical sections.
Listed(t, n) == IF t \in Emptied THEN 0 ELSE InSlots(items[t], len[t], n)
Lists(n) == SumFunctionOnSet([t \in Fin!Threads |-> Listed(t, n)], Fin!Threads)
InBatch(bs, n) == SumFunctionOnSet([i \in 1..Len(bs) |-> Tally(bs[i].items, n)], 1..Len(bs))
Batched(n) == SumFunctionOnSet([t \in Fin!Threads |-> InBatch(batches[t], n)], Fin!Threads)
Weight(n) ==
  Lists(n) + Tally(copied_list, n) + Tally(finalizer_list_marked, n) + Tally(to_finalize, n)
    + Batched(n) + runs[n]

OneEach == \A n \in Fin!Entries : Weight(n) = IF n \in Fin!Registered THEN 1 ELSE 0

FinInv == FinShape /\ DueInv /\ FinSlots /\ OneEach

\* The program has not come to its end while other threads go on.
Orderly == exiting => ~ExitWhileRunning

-----------------------------------------------------------------------------
(* The slots of a list.                                                     *)

LEMMA SlotsType == ASSUME NEW s, NEW l \in Nat PROVE \A n : InSlots(s, l, n) \in Nat
<1> SUFFICES ASSUME NEW n PROVE InSlots(s, l, n) \in Nat
  OBVIOUS
<1>1. IsFiniteSet(1..l)
  BY FS_Interval
<1>2. {i \in 1..l : s[i] = n} \subseteq 1..l
  OBVIOUS
<1> QED
  BY <1>1, <1>2, FS_Subset, FS_CardinalityType DEF InSlots

LEMMA SlotsSame ==
  ASSUME NEW s, NEW r, NEW l \in Nat, \A i \in 1..l : s[i] = r[i]
  PROVE  \A n : InSlots(s, l, n) = InSlots(r, l, n)
<1>1. \A n : {i \in 1..l : s[i] = n} = {i \in 1..l : r[i] = n}
  OBVIOUS
<1> QED
  BY <1>1 DEF InSlots

\* Empty slots count for nothing.
LEMMA SlotsEmpty ==
  ASSUME NEW s, NEW l \in Nat, NEW m \in Nat, l <= m, \A i \in l + 1..m : s[i] = 0
  PROVE  \A n \in Fin!Entries : InSlots(s, m, n) = InSlots(s, l, n)
<1> SUFFICES ASSUME NEW n \in Fin!Entries PROVE InSlots(s, m, n) = InSlots(s, l, n)
  OBVIOUS
<1>1. n # 0
  BY DEF Fin!Entries
<1>2. \A i \in 1..m : i \in 1..l \/ i \in l + 1..m
  OBVIOUS
<1>3. 1..l \subseteq 1..m
  OBVIOUS
<1>4. {i \in 1..m : s[i] = n} = {i \in 1..l : s[i] = n}
  BY <1>1, <1>2, <1>3
<1> QED
  BY <1>4 DEF InSlots

LEMMA SlotsNone == ASSUME NEW s PROVE \A n : InSlots(s, 0, n) = 0
<1>1. \A n : {i \in 1..0 : s[i] = n} = {}
  OBVIOUS
<1> QED
  BY <1>1, FS_EmptySet DEF InSlots

LEMMA SlotsNext ==
  ASSUME NEW s, NEW l \in Nat
  PROVE  \A n : InSlots(s, l + 1, n) = InSlots(s, l, n) + IF s[l + 1] = n THEN 1 ELSE 0
<1> SUFFICES ASSUME NEW n PROVE InSlots(s, l + 1, n) = InSlots(s, l, n) + IF s[l + 1] = n THEN 1 ELSE 0
  OBVIOUS
<1> DEFINE A == {i \in 1..l : s[i] = n}
           B == {i \in 1..l + 1 : s[i] = n}
<1>1. IsFiniteSet(A) /\ l + 1 \notin A
  <2>1. IsFiniteSet(1..l) /\ A \subseteq 1..l /\ l + 1 \notin 1..l
    BY FS_Interval
  <2> QED
    BY <2>1, FS_Subset
<1>2. \A i \in 1..l + 1 : i \in 1..l \/ i = l + 1
  OBVIOUS
<1>3. 1..l \subseteq 1..l + 1 /\ l + 1 \in 1..l + 1
  OBVIOUS
<1>4. Cardinality(A) \in Nat
  BY <1>1, FS_CardinalityType
<1>5. CASE s[l + 1] = n
  <2>1. B = A \cup {l + 1}
    BY <1>2, <1>3, <1>5
  <2> HIDE DEF A, B
  <2>2. Cardinality(B) = Cardinality(A) + 1
    BY <1>1, <2>1, FS_AddElement
  <2> QED
    BY <1>5, <2>2 DEF InSlots, A, B
<1>6. CASE s[l + 1] # n
  <2>1. B = A
    BY <1>2, <1>3, <1>6
  <2> HIDE DEF A, B
  <2> QED
    BY <1>4, <1>6, <2>1 DEF InSlots, A, B
<1> QED
  BY <1>5, <1>6

\* A list whose slots hold the entries of `r`, and then none.
LEMMA SlotsHold ==
  ASSUME NEW T, NEW r \in Seq(T), NEW s, NEW l \in Nat, Len(r) <= l,
         \A i \in 1..Len(r) : s[i] = r[i], \A i \in Len(r) + 1..l : s[i] = 0
  PROVE  \A n \in Fin!Entries : InSlots(s, l, n) = Tally(r, n)
<1>1. Len(r) \in Nat /\ DOMAIN r = 1..Len(r)
  OBVIOUS
<1>2. \A n \in Fin!Entries : InSlots(s, l, n) = InSlots(s, Len(r), n)
  BY <1>1, SlotsEmpty
<1>3. \A n : InSlots(s, Len(r), n) = InSlots(r, Len(r), n)
  BY <1>1, SlotsSame
<1>4. \A n : InSlots(r, Len(r), n) = Tally(r, n)
  BY <1>1 DEF InSlots, Tally
<1> QED
  BY <1>2, <1>3, <1>4

-----------------------------------------------------------------------------
(* The lists that a thread runs.                                            *)

LEMMA ThreadsFinite == ASSUME Fin!Setting PROVE IsFiniteSet(Fin!Threads)
<1>1. nthreads \in Int /\ 1 \in Int
  BY DEF Fin!Setting
<1> QED
  BY <1>1, FS_Interval DEF Fin!Threads

LEMMA BatchTallies ==
  ASSUME NEW T, NEW bs \in Seq(Batch(T))
  PROVE  /\ \A n : \A i \in 1..Len(bs) : Tally(bs[i].items, n) \in Nat
         /\ \A n : InBatch(bs, n) \in Nat
         /\ IsFiniteSet(1..Len(bs))
<1>1. ASSUME NEW i \in 1..Len(bs) PROVE bs[i].items \in Seq(T)
  <2>1. bs[i] \in Batch(T)
    OBVIOUS
  <2> QED
    BY <2>1 DEF Batch
<1>2. \A n : \A i \in 1..Len(bs) : Tally(bs[i].items, n) \in Nat
  BY <1>1, TallyType
<1>3. IsFiniteSet(1..Len(bs))
  <2>1. Len(bs) \in Int /\ 1 \in Int
    OBVIOUS
  <2> QED
    BY <2>1, FS_Interval
<1>4. ASSUME NEW n PROVE InBatch(bs, n) \in Nat
  <2> DEFINE f == [i \in 1..Len(bs) |-> Tally(bs[i].items, n)]
  <2>1. ASSUME NEW i \in 1..Len(bs) PROVE f[i] \in Int /\ f[i] >= 0
    <3>1. f[i] = Tally(bs[i].items, n)
      OBVIOUS
    <3>2. Tally(bs[i].items, n) \in Nat
      BY <1>2
    <3> QED
      BY <3>1, <3>2
  <2> HIDE DEF f
  <2>2. SumFunctionOnSet(f, 1..Len(bs)) \in Int /\ SumFunctionOnSet(f, 1..Len(bs)) >= 0
    BY <1>3, <2>1, SumType
  <2> QED
    BY <2>2 DEF InBatch, f
<1> QED
  BY <1>2, <1>3, <1>4

LEMMA BatchAppended ==
  ASSUME NEW T, NEW bs \in Seq(Batch(T)), NEW b1 \in Batch(T)
  PROVE  \A n : InBatch(Append(bs, b1), n) = InBatch(bs, n) + Tally(b1.items, n)
<1> SUFFICES ASSUME NEW n PROVE InBatch(Append(bs, b1), n) = InBatch(bs, n) + Tally(b1.items, n)
  OBVIOUS
<1> DEFINE m == Len(bs)
           cs == Append(bs, b1)
           f == [i \in 1..m |-> Tally(bs[i].items, n)]
           g == [i \in 1..Len(cs) |-> Tally(cs[i].items, n)]
<1>1. /\ m \in Nat /\ cs \in Seq(Batch(T)) /\ Len(cs) = m + 1 /\ cs[m + 1] = b1
      /\ \A i \in 1..m : cs[i] = bs[i]
  OBVIOUS
<1>2. /\ IsFiniteSet(1..m) /\ \A i \in 1..m + 1 : Tally(cs[i].items, n) \in Nat
      /\ IsFiniteSet(1..m + 1)
  <2> HIDE DEF cs
  <2> QED
    BY <1>1, BatchTallies
<1> HIDE DEF cs
<1>3. /\ 1..m + 1 = (1..m) \cup {m + 1} /\ m + 1 \notin 1..m
      /\ \A i \in 1..m : f[i] = g[i] /\ g[m + 1] = Tally(b1.items, n)
      /\ \A i \in 1..m + 1 : g[i] \in Int
  <2>1. 1..m + 1 = (1..m) \cup {m + 1} /\ m + 1 \notin 1..m
    BY <1>1
  <2> HIDE DEF m
  <2> QED
    BY <1>1, <1>2, <2>1
<1>4. g[m + 1] = Tally(b1.items, n)
  <2>1. m + 1 \in 1..m + 1
    BY <1>1
  <2> HIDE DEF m
  <2> QED
    BY <1>1, <2>1
<1> HIDE DEF f, g
<1>5. SumFunctionOnSet(g, 1..m + 1) = SumFunctionOnSet(g, 1..m) + g[m + 1]
  <2> HIDE DEF m
  <2>1. \A i \in (1..m) \cup {m + 1} : g[i] \in Int
    BY <1>3
  <2>2. SumFunctionOnSet(g, (1..m) \cup {m + 1}) = SumFunctionOnSet(g, 1..m) + g[m + 1]
    BY <1>2, <1>3, <2>1, SumAdd
  <2> QED
    BY <1>3, <2>2
<1>6. SumFunctionOnSet(f, 1..m) = SumFunctionOnSet(g, 1..m)
  BY <1>2, <1>3, SumAgree
<1> QED
  BY <1>1, <1>4, <1>5, <1>6 DEF InBatch, f, g, cs

LEMMA WeightParts ==
  ASSUME Fin!Setting, FinTypeOK
  PROVE  /\ \A n : \A t \in Fin!Threads : Listed(t, n) \in Nat /\ InBatch(batches[t], n) \in Nat
         /\ \A n : Lists(n) \in Int /\ Batched(n) \in Int
         /\ \A n : /\ Tally(copied_list, n) \in Nat /\ Tally(finalizer_list_marked, n) \in Nat
                   /\ Tally(to_finalize, n) \in Nat
         /\ \A n \in Fin!Entries : runs[n] \in Nat
<1>1. \A n : \A t \in Fin!Threads : Listed(t, n) \in Nat
  <2> SUFFICES ASSUME NEW n, NEW t \in Fin!Threads PROVE Listed(t, n) \in Nat
    OBVIOUS
  <2>1. len[t] \in Nat
    BY DEF FinTypeOK
  <2> QED
    BY <2>1, SlotsType DEF Listed
<1>2. \A n : \A t \in Fin!Threads : InBatch(batches[t], n) \in Nat
  BY BatchTallies DEF FinTypeOK
<1>3. ASSUME NEW n PROVE Lists(n) \in Int /\ Batched(n) \in Int
  <2> DEFINE f == [t \in Fin!Threads |-> Listed(t, n)]
             g == [t \in Fin!Threads |-> InBatch(batches[t], n)]
  <2>1. \A t \in Fin!Threads : f[t] \in Int /\ g[t] \in Int
    BY <1>1, <1>2
  <2> HIDE DEF f, g
  <2> QED
    BY <2>1, ThreadsFinite, SumType DEF Lists, Batched, f, g
<1>4. \A n : /\ Tally(copied_list, n) \in Nat /\ Tally(finalizer_list_marked, n) \in Nat
             /\ Tally(to_finalize, n) \in Nat
  BY TallyType DEF FinTypeOK
<1>5. \A n \in Fin!Entries : runs[n] \in Nat
  BY DEF FinTypeOK
<1> QED
  BY <1>1, <1>2, <1>3, <1>4, <1>5

LEMMA ListsChanged ==
  ASSUME Fin!Setting, FinTypeOK, NEW t \in Fin!Threads, NEW n, NEW d \in Int,
         \A u \in Fin!Threads : Listed(u, n)' = Listed(u, n) + IF u = t THEN d ELSE 0
  PROVE  Lists(n)' = Lists(n) + d
<1> DEFINE f == [u \in Fin!Threads |-> Listed(u, n)]
           g == [u \in Fin!Threads |-> Listed(u, n)']
<1>1. Changed(g, f, Fin!Threads, t, d)
  <2>1. \A u \in Fin!Threads : Listed(u, n) \in Int
    BY WeightParts
  <2> QED
    BY <2>1 DEF Changed
<1> HIDE DEF f, g
<1>2. SumFunctionOnSet(g, Fin!Threads) = SumFunctionOnSet(f, Fin!Threads) + d
  BY <1>1, ThreadsFinite, SumChanged
<1> QED
  BY <1>2 DEF Lists, f, g

LEMMA BatchedChanged ==
  ASSUME Fin!Setting, FinTypeOK, NEW t \in Fin!Threads, NEW n, NEW d \in Int,
         \A u \in Fin!Threads : InBatch(batches'[u], n) = InBatch(batches[u], n) + IF u = t THEN d ELSE 0
  PROVE  Batched(n)' = Batched(n) + d
<1> DEFINE f == [u \in Fin!Threads |-> InBatch(batches[u], n)]
           g == [u \in Fin!Threads |-> InBatch(batches'[u], n)]
<1>1. Changed(g, f, Fin!Threads, t, d)
  <2>1. \A u \in Fin!Threads : InBatch(batches[u], n) \in Int
    BY WeightParts
  <2> QED
    BY <2>1 DEF Changed
<1> HIDE DEF f, g
<1>2. SumFunctionOnSet(g, Fin!Threads) = SumFunctionOnSet(f, Fin!Threads) + d
  BY <1>1, ThreadsFinite, SumChanged
<1> QED
  BY <1>2 DEF Batched, f, g

\* A step leaves the lists and the batches alone.
LEMMA ListsSame ==
  ASSUME \A u \in Fin!Threads : items'[u] = items[u] /\ len'[u] = len[u], Emptied' = Emptied
  PROVE  \A n : Lists(n)' = Lists(n)
BY DEF Lists, Listed

LEMMA BatchedSame == ASSUME batches' = batches PROVE \A n : Batched(n)' = Batched(n)
BY DEF Batched

LEMMA EmptiedSame ==
  ASSUME Fin!Setting, FinShape, NEW t \in Fin!Threads,
         \A u \in Fin!Threads \ {t} : fin_pc'[u] = fin_pc[u],
         fin_pc[t] # "clear", fin_pc'[t] # "clear",
         visit' = visit \/ finalizers_lock \in {0, t}
  PROVE  Emptied' = Emptied
<1>1. \A u \in Fin!Threads : fin_pc[u] = "clear" => finalizers_lock = u /\ u # 0
  BY StepsAre DEF FinShape, FinControl, Controls, Fin!Threads, Fin!Setting
<1>2. (\E u \in Fin!Threads : fin_pc[u] = "clear") <=> (\E u \in Fin!Threads : fin_pc'[u] = "clear")
  OBVIOUS
<1> QED
  BY <1>1, <1>2 DEF Emptied

LEMMA EmptiedNone ==
  ASSUME Fin!Setting, FinShape, \A u \in Fin!Threads : fin_pc[u] = "clear" => finalizers_lock # u
  PROVE  Emptied = {}
BY StepsAre DEF FinShape, FinControl, Controls, Emptied

LEMMA RegisteredSame ==
  ASSUME object' = object, newentry' = newentry PROVE Fin!Registered' = Fin!Registered
BY DEF Fin!Registered, Fin!used

LEMMA CopyingKept ==
  ASSUME FinSlots, NEW t \in Fin!Threads, copied_list' = copied_list,
         \A u \in Fin!Threads \ {t} : fin_pc'[u] = fin_pc[u],
         fin_pc[t] \notin {"visit", "cmpswap"} \/ fin_pc'[t] \in {"visit", "cmpswap"}
  PROVE  Copying'
BY DEF FinSlots, Copying

LEMMA CopiedNone ==
  ASSUME FinShape, FinSlots,
         \A u \in Fin!Threads : fin_pc[u] \in {"visit", "cmpswap"} => finalizers_lock # u
  PROVE  copied_list = << >>
BY StepsAre DEF FinShape, FinControl, Controls, FinSlots, Copying

\* What is read and will be written stays right when the lists are left alone.
LEMMA SlotsStill ==
  ASSUME Fin!Setting, FinShape, FinSlots, NEW t \in Fin!Threads,
         UNCHANGED <<items, len, oldlen, newentry, newlen>>,
         \A u \in Fin!Threads \ {t} : fin_pc'[u] = fin_pc[u],
         fin_pc'[t] \notin Pushing \cup {"cmpswap"},
         visit' = visit \/ finalizers_lock \in {0, t},
         exiting' = exiting \/ (\A u \in Fin!Threads : fin_pc[u] \notin Pushing),
         Copying'
  PROVE  FinSlots'
<1>1. \A u \in Fin!Threads : fin_pc[u] = "cmpswap" => finalizers_lock = u /\ u # 0
  BY StepsAre DEF FinShape, FinControl, Controls, Fin!Threads, Fin!Setting
<1>2. ASSUME NEW u \in Fin!Threads PROVE Registering(u)'
  BY DEF FinSlots, Registering
<1>3. ASSUME NEW u \in Fin!Threads PROVE Shortening(u)'
  BY <1>1 DEF FinSlots, Shortening
<1> QED
  BY <1>2, <1>3 DEF FinSlots

\* Nothing that is counted changes.
LEMMA StillParts ==
  ASSUME FinSlots, OneEach, FinStill, exiting' = exiting
  PROVE  FinSlots' /\ OneEach'
<1>1. Emptied' = Emptied /\ \A t \in Fin!Threads : Registering(t)' /\ Shortening(t)'
  BY DEF FinStill, FinSlots, Emptied, Registering, Shortening
<1>2. Copying'
  BY DEF FinStill, FinSlots, Copying
<1>3. \A n : Lists(n)' = Lists(n) /\ Batched(n)' = Batched(n)
  BY <1>1, ListsSame, BatchedSame DEF FinStill
<1>4. Fin!Registered' = Fin!Registered
  BY RegisteredSame DEF FinStill
<1>5. OneEach'
  BY <1>3, <1>4 DEF FinStill, OneEach, Weight
<1> QED
  BY <1>1, <1>2, <1>5 DEF FinSlots

-----------------------------------------------------------------------------
(* A thread registers a finalizer.                                          *)

LEMMA AddFinalizerParts ==
  ASSUME Fin!Setting, Orderly, FinInv, NEW t \in Fin!Threads, NEW ob \in FinObjects,
         Fin!AddFinalizer(t, ob)
  PROVE  FinSlots' /\ OneEach'
<1> DEFINE k == Len(object)
<1>1. /\ fin_pc[t] = "user" /\ ~exiting /\ exiting' = exiting /\ Fin!Goto(t, "push")
      /\ object' = Append(object, ob)
      /\ newentry' = [newentry EXCEPT ![t] = k + 1] /\ oldlen' = [oldlen EXCEPT ![t] = len[t]]
      /\ UNCHANGED <<items, len, finalizer_list_marked, to_finalize, finalizers_lock, visit, newlen,
                     copied_list, batches, runs>>
  BY DEF Orderly, Fin!AddFinalizer, Fin!used, Fin!lists, Fin!global, Fin!progress, Fin!control
<1>2. /\ fin_pc'[t] = "push" /\ \A u \in Fin!Threads : u # t => fin_pc'[u] = fin_pc[u]
  BY <1>1, StepsAre, FinGoto DEF FinInv, FinShape
<1>3. /\ k \in Nat /\ Len(object') = k + 1 /\ len[t] \in Nat
      /\ newentry'[t] = k + 1 /\ oldlen'[t] = len[t] /\ newentry[t] = 0
      /\ \A u \in Fin!Threads : newentry[u] \in 0..k
      /\ \A u \in Fin!Threads : u # t => newentry'[u] = newentry[u] /\ oldlen'[u] = oldlen[u]
  <2>1. /\ object \in Seq(FinObjects) /\ len \in [Fin!Threads -> 0..k] /\ k \in Nat
        /\ newentry \in [Fin!Threads -> 0..k] /\ oldlen \in [Fin!Threads -> 0..k]
    <3>1. FinTypeOK
      BY DEF FinInv, FinShape
    <3> QED
      BY <3>1 DEF FinTypeOK
  <2>2. newentry[t] = 0
    BY <1>1, StepsAre DEF FinInv, FinShape, FinControl, Controls
  <2>3. Len(object') = k + 1
    BY <1>1, <2>1
  <2> HIDE DEF k
  <2> QED
    BY <1>1, <2>1, <2>2, <2>3
<1> HIDE DEF k
<1>4. ASSUME NEW u \in Fin!Threads PROVE Registering(u)'
  <2>1. CASE u = t
    <3>1. \A v \in Fin!Threads : newentry'[v] = newentry'[t] => v = t
      BY <1>3
    <3>2. \A i \in len[t] + 1..len[t] : FALSE
      BY <1>3
    <3> QED
      BY <1>1, <1>2, <1>3, <2>1, <3>1, <3>2 DEF Registering
  <2>2. CASE u # t
    <3>1. newentry'[u] # newentry'[t]
      BY <1>3, <2>2
    <3>2. Registering(u)
      BY DEF FinInv, FinSlots
    <3> QED
      BY <1>1, <1>2, <1>3, <2>2, <3>1, <3>2 DEF Registering
  <2> QED
    BY <2>1, <2>2
<1>5. ASSUME NEW u \in Fin!Threads PROVE Shortening(u)'
  BY <1>1, <1>2, <1>3 DEF FinInv, FinSlots, Shortening
<1>6. Copying'
  BY <1>1, <1>2 DEF FinInv, FinSlots, Copying
<1>7. Fin!Registered' = Fin!Registered
  <2>1. ASSUME NEW n PROVE n \in Fin!Registered' <=> n \in Fin!Registered
    <3>1. n \in 1..k + 1 <=> n \in 1..k \/ n = k + 1
      BY <1>3
    <3>2. n \in 1..k => n # k + 1 /\ n # 0
      BY <1>3
    <3> QED
      BY <1>3, <3>1, <3>2 DEF Fin!Registered, Fin!used, k
  <2>2. Fin!Registered \subseteq 1..k /\ Fin!Registered' \subseteq 1..Len(object')
    BY DEF Fin!Registered, Fin!used, k
  <2> QED
    BY <2>1
<1>8. \A n : Lists(n)' = Lists(n) /\ Batched(n)' = Batched(n)
  <2>1. Emptied' = Emptied
    BY <1>1, <1>2, EmptiedSame DEF FinInv
  <2> QED
    BY <1>1, <2>1, ListsSame, BatchedSame
<1>9. OneEach'
  BY <1>1, <1>7, <1>8 DEF FinInv, OneEach, Weight
<1> QED
  BY <1>4, <1>5, <1>6, <1>9 DEF FinSlots

LEMMA PushItemParts ==
  ASSUME Fin!Setting, FinInv, NEW t \in Fin!Threads, Fin!PushItem(t)
  PROVE  FinSlots' /\ OneEach'
<1>1. /\ fin_pc[t] = "push" /\ Fin!Goto(t, "publish") /\ exiting' = exiting
      /\ UNCHANGED <<object, len, oldlen, newentry, finalizer_list_marked, to_finalize,
                     finalizers_lock, visit, newlen, copied_list, batches, runs>>
  BY DEF Fin!PushItem, Fin!global, Fin!locals, Fin!progress, Fin!control
<1>2. /\ fin_pc'[t] = "publish" /\ \A u \in Fin!Threads : u # t => fin_pc'[u] = fin_pc[u]
  BY <1>1, StepsAre, FinGoto DEF FinInv, FinShape
<1>3. /\ items'[t][oldlen[t] + 1] = newentry[t]
      /\ \A i \in Fin!Entries : i # oldlen[t] + 1 => items'[t][i] = items[t][i]
      /\ \A u \in Fin!Threads : u # t => items'[u] = items[u]
      /\ oldlen[t] + 1 \in Fin!Entries
  <2>1. /\ oldlen[t] + 1 \in Fin!Entries
        /\ items' = [items EXCEPT ![t] = [@ EXCEPT ![oldlen[t] + 1] = newentry[t]]]
    BY PushItemShape DEF FinInv
  <2>2. items \in [Fin!Threads -> [Fin!Entries -> 0..Len(object)]]
    BY DEF FinInv, FinShape, FinTypeOK
  <2> QED
    BY <2>1, <2>2
<1>4. Registering(t) /\ len[t] \in Nat /\ oldlen[t] \in Nat /\ len[t] <= oldlen[t]
  BY <1>1, StepsAre DEF FinInv, FinSlots, FinShape, FinTypeOK, Registering
<1>5. \A i \in 1..oldlen[t] : items'[t][i] = items[t][i]
  <2>1. \A i \in 1..oldlen[t] : i \in Fin!Entries /\ i # oldlen[t] + 1
    BY <1>3, <1>4 DEF Fin!Entries, Fin!Setting
  <2> QED
    BY <1>3, <2>1
<1>6. ASSUME NEW u \in Fin!Threads PROVE Registering(u)'
  <2>1. CASE u = t
    <3>1. \A i \in len[t] + 1..oldlen[t] : i \in 1..oldlen[t]
      BY <1>4
    <3> QED
      BY <1>1, <1>2, <1>3, <1>4, <1>5, <2>1, <3>1, StepsAre DEF Registering
  <2>2. CASE u # t
    BY <1>1, <1>2, <1>3, <2>2 DEF FinInv, FinSlots, Registering
  <2> QED
    BY <2>1, <2>2
<1>7. ASSUME NEW u \in Fin!Threads PROVE Shortening(u)'
  <2> SUFFICES ASSUME fin_pc'[u] = "cmpswap" PROVE Shortening(u)'
    BY DEF Shortening
  <2>1. u # t /\ fin_pc[u] = "cmpswap" /\ Shortening(u) /\ Controls(u)
    BY <1>2 DEF FinInv, FinSlots, FinShape, FinControl
  <2>2. /\ visit # u /\ newlen <= oldlen[u] /\ oldlen[u] <= len[visit]
        /\ \A i \in newlen + 1..oldlen[u] : items[visit][i] = 0
        /\ visit \in Fin!Threads /\ newlen \in Nat /\ oldlen[u] \in Nat
    BY <2>1 DEF Shortening, Controls, FinInv, FinShape, FinTypeOK
  <2>3. \A i \in newlen + 1..oldlen[u] : items'[visit][i] = items[visit][i]
    <3>1. CASE visit = t
      <4>1. \A i \in newlen + 1..oldlen[u] : i \in 1..oldlen[t]
        BY <1>4, <2>2, <3>1
      <4> QED
        BY <1>5, <3>1, <4>1
    <3>2. CASE visit # t
      BY <1>3, <2>2, <3>2
    <3> QED
      BY <3>1, <3>2
  <2> QED
    BY <1>1, <2>2, <2>3 DEF Shortening
<1>8. Copying'
  BY <1>1, <1>2 DEF FinInv, FinSlots, Copying
<1>9. \A n : \A u \in Fin!Threads : Listed(u, n)' = Listed(u, n)
  <2>1. Emptied' = Emptied
    BY <1>1, <1>2, EmptiedSame DEF FinInv
  <2>2. \A n : InSlots(items'[t], len[t], n) = InSlots(items[t], len[t], n)
    <3>1. \A i \in 1..len[t] : items'[t][i] = items[t][i]
      BY <1>4, <1>5
    <3> QED
      BY <1>4, <3>1, SlotsSame
  <2> QED
    BY <1>1, <1>3, <2>1, <2>2 DEF Listed
<1>10. \A n : Lists(n)' = Lists(n) /\ Batched(n)' = Batched(n)
  BY <1>1, <1>9, BatchedSame DEF Lists
<1>11. OneEach'
  BY <1>1, <1>10, RegisteredSame DEF FinInv, OneEach, Weight
<1> QED
  BY <1>6, <1>7, <1>8, <1>11 DEF FinSlots

LEMMA PublishLenParts ==
  ASSUME Fin!Setting, FinInv, NEW t \in Fin!Threads, Fin!PublishLen(t)
  PROVE  FinSlots' /\ OneEach'
<1>1. /\ fin_pc[t] = "publish" /\ Fin!Goto(t, "user") /\ exiting' = exiting
      /\ len' = [len EXCEPT ![t] = oldlen[t] + 1]
      /\ oldlen' = [oldlen EXCEPT ![t] = 0] /\ newentry' = [newentry EXCEPT ![t] = 0]
      /\ UNCHANGED <<object, items, finalizer_list_marked, to_finalize, finalizers_lock, visit,
                     newlen, copied_list, batches, runs>>
  BY DEF Fin!PublishLen, Fin!global, Fin!progress, Fin!control
<1>2. /\ fin_pc'[t] = "user" /\ \A u \in Fin!Threads : u # t => fin_pc'[u] = fin_pc[u]
  BY <1>1, StepsAre, FinGoto DEF FinInv, FinShape
<1> DEFINE m == newentry[t]
<1>3. /\ len[t] \in Nat /\ oldlen[t] \in Nat /\ len[t] <= oldlen[t] /\ ~exiting
      /\ \A i \in len[t] + 1..oldlen[t] : items[t][i] = 0
      /\ items[t][oldlen[t] + 1] = m /\ \A u \in Fin!Threads : newentry[u] = m => u = t
  BY <1>1, StepsAre DEF FinInv, FinSlots, FinShape, FinTypeOK, Registering
<1>4. m \in Named /\ Len(object) \in Nat /\ Len(object) <= MaxEntries
  <2>1. m \in 0..Len(object) /\ m # 0 /\ Len(object) \in Nat /\ Len(object) <= MaxEntries
    BY <1>1, StepsAre DEF FinInv, FinShape, FinTypeOK, FinControl, Controls
  <2> HIDE DEF m
  <2> QED
    BY <2>1 DEF Named
<1>5. /\ newentry'[t] = 0 /\ len'[t] = oldlen[t] + 1
      /\ \A u \in Fin!Threads : u # t =>
           newentry'[u] = newentry[u] /\ oldlen'[u] = oldlen[u] /\ len'[u] = len[u]
  BY <1>1 DEF FinInv, FinShape, FinTypeOK
<1>6. ASSUME NEW u \in Fin!Threads PROVE Registering(u)'
  <2> SUFFICES ASSUME fin_pc'[u] \in Pushing PROVE Registering(u)'
    BY DEF Registering
  <2>1. u # t /\ fin_pc[u] \in Pushing /\ Registering(u) /\ newentry[u] # 0
    BY <1>2, StepsAre DEF FinInv, FinSlots, FinShape, FinControl, Controls
  <2> QED
    BY <1>1, <1>2, <1>5, <2>1 DEF Registering
<1>7. ASSUME NEW u \in Fin!Threads PROVE Shortening(u)'
  <2> SUFFICES ASSUME fin_pc'[u] = "cmpswap" PROVE Shortening(u)'
    BY DEF Shortening
  <2>1. u # t /\ fin_pc[u] = "cmpswap" /\ Shortening(u) /\ Controls(u)
    BY <1>2 DEF FinInv, FinSlots, FinShape, FinControl
  <2>2. /\ visit # u /\ newlen <= oldlen[u] /\ oldlen[u] <= len[visit]
        /\ \A i \in newlen + 1..oldlen[u] : items[visit][i] = 0
        /\ visit \in Fin!Threads /\ len[visit] \in Nat /\ oldlen[u] \in Nat
    BY <2>1 DEF Shortening, Controls, FinInv, FinShape, FinTypeOK
  <2>3. oldlen[u] <= len'[visit]
    BY <1>3, <1>5, <2>2
  <2> QED
    BY <1>1, <1>5, <2>1, <2>2, <2>3 DEF Shortening
<1>8. Copying'
  BY <1>1, <1>2 DEF FinInv, FinSlots, Copying
<1>9. Fin!Registered' = Fin!Registered \cup {m} /\ m \notin Fin!Registered
  <2>1. ASSUME NEW n \in 1..Len(object)
        PROVE  n \in Fin!Registered' <=> n \in Fin!Registered \cup {m}
    <3>1. n # 0
      OBVIOUS
    <3> QED
      BY <1>1, <1>3, <1>5, <3>1 DEF Fin!Registered, Fin!used
  <2>2. Fin!Registered \subseteq 1..Len(object) /\ Fin!Registered' \subseteq 1..Len(object)
    BY <1>1 DEF Fin!Registered, Fin!used
  <2>3. m \in 1..Len(object) /\ m \notin Fin!Registered
    BY <1>4 DEF Fin!Registered, Named
  <2> HIDE DEF m
  <2> QED
    BY <2>1, <2>2, <2>3
<1>10. Emptied = {} /\ Emptied' = {}
  <2>1. \A u \in Fin!Threads : fin_pc[u] # "clear"
    BY <1>3 DEF FinInv, DueInv, ExitSteps
  <2> QED
    BY <1>2, <2>1 DEF Emptied
<1>11. ASSUME NEW n \in Fin!Entries
       PROVE  Lists(n)' = Lists(n) + IF n = m THEN 1 ELSE 0
  <2> DEFINE d == IF n = m THEN 1 ELSE 0
  <2>1. InSlots(items[t], oldlen[t] + 1, n) = InSlots(items[t], len[t], n) + d
    <3>1. InSlots(items[t], oldlen[t], n) = InSlots(items[t], len[t], n)
      BY <1>3, SlotsEmpty
    <3>2. InSlots(items[t], oldlen[t] + 1, n)
            = InSlots(items[t], oldlen[t], n) + IF items[t][oldlen[t] + 1] = n THEN 1 ELSE 0
      BY <1>3, SlotsNext
    <3> QED
      BY <1>3, <3>1, <3>2
  <2>2. \A u \in Fin!Threads : InSlots(items[u], len[u], n) \in Nat
    <3>1. \A u \in Fin!Threads : len[u] \in Nat
      BY DEF FinInv, FinShape, FinTypeOK
    <3> QED
      BY <3>1, SlotsType
  <2>3. d \in Int
    OBVIOUS
  <2> HIDE DEF d
  <2>4. \A u \in Fin!Threads : Listed(u, n)' = Listed(u, n) + IF u = t THEN d ELSE 0
    BY <1>1, <1>5, <1>10, <2>1, <2>2 DEF Listed
  <2>5. Lists(n)' = Lists(n) + d
    BY <2>3, <2>4, ListsChanged DEF FinInv, FinShape
  <2> QED
    BY <2>5 DEF d
<1>12. ASSUME NEW n \in Fin!Entries
       PROVE  Weight(n)' = IF n \in Fin!Registered' THEN 1 ELSE 0
  <2>1. Weight(n) = IF n \in Fin!Registered THEN 1 ELSE 0
    BY DEF FinInv, OneEach
  <2>2. /\ Lists(n) \in Int /\ Batched(n) \in Int /\ Tally(copied_list, n) \in Int
        /\ Tally(finalizer_list_marked, n) \in Int /\ Tally(to_finalize, n) \in Int /\ runs[n] \in Int
    BY WeightParts DEF FinInv, FinShape
  <2>3. Weight(n)' = Weight(n) + IF n = m THEN 1 ELSE 0
    BY <1>1, <1>11, <2>2, BatchedSame DEF Weight
  <2> HIDE DEF m
  <2> QED
    BY <1>9, <2>1, <2>3
<1>13. OneEach'
  BY <1>12 DEF OneEach
<1> QED
  BY <1>6, <1>7, <1>8, <1>13 DEF FinSlots

-----------------------------------------------------------------------------
(* A thread finalizes an object.                                            *)

LEMMA FinalizeParts ==
  ASSUME Fin!Setting, FinInv, NEW t \in Fin!Threads, NEW ob \in FinObjects, Fin!Finalize(t, ob)
  PROVE  FinSlots' /\ OneEach'
<1>1. /\ fin_pc[t] = "user" /\ finalizers_lock = 0 /\ Fin!Goto(t, "visit")
      /\ visit' = 1 /\ copied_list' = << >> /\ exiting' = exiting
      /\ UNCHANGED <<object, items, len, oldlen, newentry, finalizer_list_marked, to_finalize,
                     newlen, batches, runs>>
  BY DEF Fin!Finalize, Fin!lists, Fin!progress, Fin!NoOwner, Fin!control
<1>2. /\ fin_pc'[t] = "visit" /\ \A u \in Fin!Threads : u # t => fin_pc'[u] = fin_pc[u]
  BY <1>1, StepsAre, FinGoto DEF FinInv, FinShape
<1>3. copied_list = << >>
  <2>1. \A u \in Fin!Threads : finalizers_lock # u
    BY <1>1 DEF Fin!Threads
  <2> QED
    BY <2>1, CopiedNone DEF FinInv
<1>4. Copying'
  BY <1>1 DEF Copying
<1>5. FinSlots'
  BY <1>1, <1>2, <1>4, StepsAre, SlotsStill DEF FinInv
<1>6. Emptied' = Emptied
  BY <1>1, <1>2, EmptiedSame DEF FinInv
<1>7. \A n : Lists(n)' = Lists(n) /\ Batched(n)' = Batched(n)
  BY <1>1, <1>6, ListsSame, BatchedSame
<1>8. Fin!Registered' = Fin!Registered
  BY <1>1, RegisteredSame
<1>9. OneEach'
  BY <1>1, <1>3, <1>7, <1>8 DEF FinInv, OneEach, Weight
<1> QED
  BY <1>5, <1>9

\* A list of entries splits in those of an object and the others.
LEMMA SplitTally ==
  ASSUME NEW s \in Seq(Named), NEW ob
  PROVE  /\ \A n : Tally(s, n) = Tally(Fin!Except(s, ob), n) + Tally(Fin!Of(s, ob), n)
         /\ Len(Fin!Except(s, ob)) = Len(s) => \A n : Tally(Fin!Of(s, ob), n) = 0
<1> DEFINE A == {n \in 1..Fin!used : object[n] # ob}
           B == {n \in 1..Fin!used : object[n] = ob}
<1>1. \A n : /\ Tally(Fin!Kept(s, A), n) = (IF n \in A THEN Tally(s, n) ELSE 0)
             /\ Tally(Fin!Kept(s, B), n) = (IF n \in B THEN Tally(s, n) ELSE 0)
  <2> HIDE DEF A, B
  <2> QED
    BY KeptElements
<1>2. Len(Fin!Kept(s, A)) = Len(s) => ToSet(s) \subseteq A
  <2> HIDE DEF A
  <2> QED
    BY KeptElements
<1>3. \A n : Tally(s, n) \in Nat /\ (Tally(s, n) = 0 <=> n \notin ToSet(s))
  BY TallyType
<1>4. ToSet(s) \subseteq Named
  BY DEF ToSet
<1>5. A \cup B = Named /\ A \cap B = {}
  BY DEF Fin!used, Named
<1>6. Fin!Except(s, ob) = Fin!Kept(s, A) /\ Fin!Of(s, ob) = Fin!Kept(s, B)
  BY DEF Fin!Except, Fin!Of
<1> HIDE DEF A, B
<1>7. \A n : Tally(s, n) = Tally(Fin!Kept(s, A), n) + Tally(Fin!Kept(s, B), n)
  <2> SUFFICES ASSUME NEW n PROVE Tally(s, n) = Tally(Fin!Kept(s, A), n) + Tally(Fin!Kept(s, B), n)
    OBVIOUS
  <2>1. Tally(s, n) \in Nat /\ (n \notin A \cup B => Tally(s, n) = 0)
    BY <1>3, <1>4, <1>5
  <2>2. /\ Tally(Fin!Kept(s, A), n) = (IF n \in A THEN Tally(s, n) ELSE 0)
        /\ Tally(Fin!Kept(s, B), n) = (IF n \in B THEN Tally(s, n) ELSE 0)
    BY <1>1
  <2>3. ~(n \in A /\ n \in B)
    BY <1>5
  <2> QED
    BY <2>1, <2>2, <2>3
<1>8. ASSUME Len(Fin!Kept(s, A)) = Len(s), NEW n PROVE Tally(Fin!Kept(s, B), n) = 0
  <2>1. n \in B => Tally(s, n) = 0
    BY <1>2, <1>3, <1>5, <1>8
  <2> QED
    BY <1>1, <2>1
<1> QED
  BY <1>6, <1>7, <1>8

\* The slots of a list that `r` is written over.
LEMMA OverwrittenSlots ==
  ASSUME Fin!Setting, NEW T, NEW r \in Seq(T), NEW s, NEW l \in 0..MaxEntries, Len(r) <= l
  PROVE  /\ \A i \in 1..Len(r) : Fin!kept_tail(s, r, l)[i] = r[i]
         /\ \A i \in 1..Len(r) : Fin!emptied_tail(s, r, l)[i] = r[i]
         /\ \A i \in Len(r) + 1..l : Fin!emptied_tail(s, r, l)[i] = 0
         /\ \A i \in Fin!Entries : i > l => Fin!emptied_tail(s, r, l)[i] = s[i]
<1>1. Len(r) \in Nat /\ MaxEntries \in Nat
  BY DEF Fin!Setting
<1>2. \A i \in 1..Len(r) : i \in Fin!Entries /\ i <= Len(r)
  BY <1>1 DEF Fin!Entries
<1>3. \A i \in Len(r) + 1..l : i \in Fin!Entries /\ ~(i <= Len(r)) /\ i <= l
  BY <1>1 DEF Fin!Entries
<1>4. \A i \in Fin!Entries : i > l => ~(i <= Len(r)) /\ ~(i <= l)
  BY <1>1 DEF Fin!Entries
<1> QED
  BY <1>2, <1>3, <1>4 DEF Fin!kept_tail, Fin!emptied_tail

LEMMA VisitedParts ==
  ASSUME Fin!Setting, FinInv, NEW t \in Fin!Threads, NEW ob, Visited(t, ob)
  PROVE  FinSlots' /\ OneEach'
<1> DEFINE live == Fin!Live(visit)
           kept == Fin!Except(live, ob)
           taken == Fin!Of(live, ob)
           l == len[visit]
<1>1. /\ fin_pc[t] = "visit" /\ visit \in Fin!Threads /\ finalizers_lock = t
      /\ copied_list' = copied_list \o taken
      /\ UNCHANGED <<object, newentry, finalizer_list_marked, to_finalize, finalizers_lock,
                     batches, runs, exiting>>
  BY DEF Visited
<1>2. FinShape /\ FinSlots /\ FinTypeOK /\ FinControl
  BY DEF FinInv, FinShape
<1>3. /\ live \in Seq(Named) /\ Len(live) \in 0..l /\ l \in 0..MaxEntries
      /\ \A n \in Fin!Entries : Tally(live, n) = InSlots(items[visit], l, n)
  <2>1. l \in 0..MaxEntries
    BY <1>1, <1>2 DEF FinTypeOK, Fin!Setting
  <2> QED
    BY <1>1, <1>2, <2>1, LiveType
<1> HIDE DEF live
<1>4. kept \in Seq(Named) /\ Len(kept) \in 0..Len(live) /\ taken \in Seq(Named)
  BY <1>3, SelectedType DEF Fin!Except, Fin!Of
<1>5. /\ \A n : Tally(live, n) = Tally(kept, n) + Tally(taken, n)
      /\ Len(kept) = Len(live) => \A n : Tally(taken, n) = 0
  BY <1>3, SplitTally
<1>6. \/ /\ Len(kept) = l /\ visit' = visit + 1
         /\ UNCHANGED <<fin_pc, items, len, oldlen, newlen>>
      \/ /\ visit = t /\ visit' = visit + 1
         /\ items' = [items EXCEPT ![t] = Fin!kept_tail(items[t], kept, l)]
         /\ len' = [len EXCEPT ![t] = Len(kept)]
         /\ UNCHANGED <<fin_pc, oldlen, newlen>>
      \/ /\ visit # t /\ Fin!Goto(t, "cmpswap")
         /\ items' = [items EXCEPT ![visit] = Fin!emptied_tail(items[visit], kept, l)]
         /\ oldlen' = [oldlen EXCEPT ![t] = l]
         /\ newlen' = Len(kept)
         /\ UNCHANGED <<len, visit>>
  BY DEF Visited, live
<1> HIDE DEF kept, taken
<1>7. /\ fin_pc'[t] \in {"visit", "cmpswap"}
      /\ \A u \in Fin!Threads : u # t => fin_pc'[u] = fin_pc[u] /\ oldlen'[u] = oldlen[u]
  BY <1>1, <1>2, <1>6 DEF FinTypeOK, Fin!Goto
<1>8. Copying'
  BY <1>7 DEF Copying
<1>9. \A u \in Fin!Threads : u # t => fin_pc[u] # "cmpswap"
  BY <1>1, <1>2, StepsAre DEF FinControl, Controls
<1>10. /\ \A i \in 1..Len(kept) : Fin!kept_tail(items[visit], kept, l)[i] = kept[i]
       /\ \A i \in 1..Len(kept) : Fin!emptied_tail(items[visit], kept, l)[i] = kept[i]
       /\ \A i \in Len(kept) + 1..l : Fin!emptied_tail(items[visit], kept, l)[i] = 0
       /\ \A i \in Fin!Entries : i > l => Fin!emptied_tail(items[visit], kept, l)[i] = items[visit][i]
  BY <1>3, <1>4, OverwrittenSlots
<1>11. FinSlots'
  <2>1. CASE visit' = visit + 1 /\ UNCHANGED <<fin_pc, items, len, oldlen, newlen>>
    BY <1>1, <1>2, <1>8, <2>1, StepsAre, SlotsStill
  <2>2. CASE /\ visit = t
             /\ items' = [items EXCEPT ![t] = Fin!kept_tail(items[t], kept, l)]
             /\ len' = [len EXCEPT ![t] = Len(kept)]
             /\ UNCHANGED <<fin_pc, oldlen, newlen>>
    <3>1. \A u \in Fin!Threads : u # t => items'[u] = items[u] /\ len'[u] = len[u]
      BY <1>2, <2>2 DEF FinTypeOK
    <3>2. ASSUME NEW u \in Fin!Threads PROVE Registering(u)' /\ Shortening(u)'
      BY <1>1, <1>2, <1>9, <2>2, <3>1, StepsAre DEF FinSlots, Registering, Shortening
    <3> QED
      BY <1>8, <3>2 DEF FinSlots
  <2>3. CASE /\ visit # t /\ Fin!Goto(t, "cmpswap")
             /\ items' = [items EXCEPT ![visit] = Fin!emptied_tail(items[visit], kept, l)]
             /\ oldlen' = [oldlen EXCEPT ![t] = l]
             /\ newlen' = Len(kept)
             /\ UNCHANGED <<len, visit>>
    <3>1. /\ fin_pc'[t] = "cmpswap" /\ oldlen'[t] = l
          /\ items'[visit] = Fin!emptied_tail(items[visit], kept, l)
          /\ \A u \in Fin!Threads : u # visit => items'[u] = items[u]
      BY <1>1, <1>2, <2>3 DEF FinTypeOK, Fin!Goto
    <3>2. ASSUME NEW u \in Fin!Threads PROVE Registering(u)'
      <4> SUFFICES ASSUME fin_pc'[u] \in Pushing PROVE Registering(u)'
        BY DEF Registering
      <4>1. u # t /\ fin_pc[u] \in Pushing /\ fin_pc'[u] = fin_pc[u] /\ oldlen'[u] = oldlen[u]
        BY <1>7, <3>1, StepsAre
      <4>2. CASE u # visit
        BY <1>1, <1>2, <2>3, <3>1, <4>1, <4>2 DEF FinSlots, Registering
      <4>3. CASE u = visit
        <5>1. /\ l <= oldlen[u] /\ \A i \in l + 1..oldlen[u] : items[u][i] = 0
              /\ fin_pc[u] = "publish" => items[u][oldlen[u] + 1] = newentry[u]
              /\ ~exiting /\ \A v \in Fin!Threads : newentry[v] = newentry[u] => v = u
          BY <1>2, <4>1, <4>3 DEF FinSlots, Registering
        <5>2. oldlen[u] \in Nat /\ oldlen[u] + 1 <= MaxEntries
          <6>1. oldlen[u] \in Nat /\ newentry[u] \in 0..Len(object) /\ Len(object) <= MaxEntries
                /\ oldlen[u] < newentry[u] /\ Len(object) \in Nat /\ MaxEntries \in Nat
            BY <1>2, <4>1 DEF FinTypeOK, FinControl, Controls, Fin!Setting
          <6> QED
            BY <6>1
        <5>3. \A i \in l + 1..oldlen[u] + 1 : i \in Fin!Entries /\ i > l
          BY <1>3, <5>2 DEF Fin!Entries, Fin!Setting
        <5>4. \A i \in l + 1..oldlen[u] + 1 : items'[u][i] = items[u][i]
          BY <1>10, <3>1, <4>3, <5>3
        <5>5. /\ \A i \in l + 1..oldlen[u] : i \in l + 1..oldlen[u] + 1
              /\ oldlen[u] + 1 \in l + 1..oldlen[u] + 1
          BY <1>3, <5>1, <5>2
        <5>6. \A i \in l + 1..oldlen[u] : items'[u][i] = 0
          BY <5>1, <5>4, <5>5
        <5>7. fin_pc[u] = "publish" => items'[u][oldlen[u] + 1] = newentry[u]
          BY <5>1, <5>4, <5>5
        <5> QED
          BY <1>1, <2>3, <4>1, <4>3, <5>1, <5>6, <5>7 DEF Registering
      <4> QED
        BY <4>2, <4>3
    <3>3. ASSUME NEW u \in Fin!Threads PROVE Shortening(u)'
      <4>1. CASE u # t
        BY <1>7, <1>9, <4>1 DEF Shortening
      <4>2. CASE u = t
        <5>1. visit' = visit /\ len' = len /\ newlen' = Len(kept)
          BY <2>3
        <5>2. Len(kept) <= l /\ l <= l
          BY <1>3, <1>4
        <5> QED
          BY <1>10, <2>3, <3>1, <4>2, <5>1, <5>2 DEF Shortening
      <4> QED
        BY <4>1, <4>2
    <3> QED
      BY <1>8, <3>2, <3>3 DEF FinSlots
  <2> QED
    BY <1>6, <2>1, <2>2, <2>3
<1>12. Emptied = {} /\ Emptied' = {}
  <2>1. \A u \in Fin!Threads : fin_pc[u] # "clear"
    BY <1>1, <1>2, StepsAre DEF FinControl, Controls
  <2> QED
    BY <1>7, <2>1 DEF Emptied
<1>13. ASSUME NEW n \in Fin!Entries
       PROVE  Lists(n)' = Lists(n) - Tally(taken, n)
  <2>1. Tally(taken, n) \in Nat /\ Tally(kept, n) \in Nat
    BY <1>4, TallyType
  <2>2. /\ \A u \in Fin!Threads : u # visit => items'[u] = items[u] /\ len'[u] = len[u]
        /\ InSlots(items'[visit], len'[visit], n) = Tally(kept, n)
    <3>1. CASE Len(kept) = l /\ UNCHANGED <<items, len>>
      <4>1. Len(kept) = Len(live)
        BY <1>3, <1>4, <3>1
      <4>2. InSlots(items[visit], l, n) = Tally(kept, n)
        BY <1>3, <1>5, <2>1, <4>1
      <4> QED
        BY <3>1, <4>2
    <3>2. CASE /\ visit = t
               /\ items' = [items EXCEPT ![t] = Fin!kept_tail(items[t], kept, l)]
               /\ len' = [len EXCEPT ![t] = Len(kept)]
      <4>1. /\ items'[visit] = Fin!kept_tail(items[visit], kept, l) /\ len'[visit] = Len(kept)
            /\ \A u \in Fin!Threads : u # visit => items'[u] = items[u] /\ len'[u] = len[u]
        BY <1>2, <3>2 DEF FinTypeOK
      <4>2. Len(kept) \in Nat /\ Len(kept) <= Len(kept) /\ \A i \in Len(kept) + 1..Len(kept) : FALSE
        BY <1>4
      <4>3. \A i \in 1..Len(kept) : items'[visit][i] = kept[i]
        BY <1>10, <4>1
      <4>4. InSlots(items'[visit], Len(kept), n) = Tally(kept, n)
        <5>1. \A i \in Len(kept) + 1..Len(kept) : items'[visit][i] = 0
          BY <4>2
        <5> QED
          BY <1>4, <4>2, <4>3, <5>1, SlotsHold
      <4> QED
        BY <4>1, <4>4
    <3>3. CASE /\ items' = [items EXCEPT ![visit] = Fin!emptied_tail(items[visit], kept, l)]
               /\ len' = len
      <4>1. /\ items'[visit] = Fin!emptied_tail(items[visit], kept, l) /\ len'[visit] = l
            /\ \A u \in Fin!Threads : u # visit => items'[u] = items[u] /\ len'[u] = len[u]
        BY <1>1, <1>2, <3>3 DEF FinTypeOK
      <4>2. /\ \A i \in 1..Len(kept) : items'[visit][i] = kept[i]
            /\ \A i \in Len(kept) + 1..l : items'[visit][i] = 0
        BY <1>10, <4>1
      <4>3. l \in Nat /\ Len(kept) <= l
        BY <1>3, <1>4
      <4>4. InSlots(items'[visit], l, n) = Tally(kept, n)
        BY <1>4, <4>2, <4>3, SlotsHold
      <4> QED
        BY <4>1, <4>4
    <3> QED
      BY <1>6, <3>1, <3>2, <3>3
  <2>3. InSlots(items[visit], l, n) = Tally(kept, n) + Tally(taken, n)
    BY <1>3, <1>5
  <2>4. \A u \in Fin!Threads : InSlots(items[u], len[u], n) \in Nat
    <3>1. \A u \in Fin!Threads : len[u] \in Nat
      BY <1>2 DEF FinTypeOK
    <3> QED
      BY <3>1, SlotsType
  <2>5. \A u \in Fin!Threads : Listed(u, n)' = Listed(u, n) + IF u = visit THEN - Tally(taken, n) ELSE 0
    BY <1>12, <2>1, <2>2, <2>3, <2>4 DEF Listed
  <2>6. - Tally(taken, n) \in Int
    BY <2>1
  <2> DEFINE d == - Tally(taken, n)
  <2> HIDE DEF d
  <2>7. Lists(n)' = Lists(n) + d
    BY <1>1, <1>2, <2>5, <2>6, ListsChanged DEF d
  <2>8. Lists(n) \in Int
    BY <1>2, WeightParts
  <2> QED
    BY <2>1, <2>7, <2>8 DEF d
<1>14. OneEach'
  <2>1. ASSUME NEW n \in Fin!Entries PROVE Weight(n)' = Weight(n)
    <3>1. Tally(copied_list', n) = Tally(copied_list, n) + Tally(taken, n)
      BY <1>1, <1>2, <1>4, TallyConcat DEF FinTypeOK
    <3>2. /\ Lists(n) \in Int /\ Batched(n) \in Int /\ Tally(copied_list, n) \in Int
          /\ Tally(finalizer_list_marked, n) \in Int /\ Tally(to_finalize, n) \in Int /\ runs[n] \in Int
      BY <1>2, WeightParts
    <3>3. Tally(taken, n) \in Int
      BY <1>4, TallyType
    <3> QED
      BY <1>1, <1>13, <3>1, <3>2, <3>3, BatchedSame DEF Weight
  <2> QED
    BY <1>1, <2>1, RegisteredSame DEF FinInv, OneEach
<1> QED
  BY <1>11, <1>14

LEMMA CmpswapLenParts ==
  ASSUME Fin!Setting, FinInv, NEW t \in Fin!Threads, Fin!CmpswapLen(t)
  PROVE  FinSlots' /\ OneEach'
<1>1. /\ fin_pc[t] = "cmpswap" /\ Fin!Goto(t, "visit") /\ exiting' = exiting
      /\ visit' = visit + 1 /\ oldlen' = [oldlen EXCEPT ![t] = 0] /\ newlen' = 0
      /\ UNCHANGED <<object, items, newentry, finalizer_list_marked, to_finalize, finalizers_lock,
                     copied_list, batches, runs>>
  BY DEF Fin!CmpswapLen, Fin!global, Fin!progress, Fin!control
<1>2. FinShape /\ FinSlots /\ FinTypeOK /\ FinControl
  BY DEF FinInv, FinShape
<1>3. /\ visit \in Fin!Threads
      /\ len' = [len EXCEPT ![visit] = IF len[visit] = oldlen[t] THEN newlen ELSE len[visit]]
  BY <1>2, CmpswapLenShape
<1>4. /\ fin_pc'[t] = "visit" /\ \A u \in Fin!Threads : u # t => fin_pc'[u] = fin_pc[u]
  BY <1>1, <1>2, StepsAre, FinGoto
<1>5. /\ visit # t /\ newlen <= oldlen[t] /\ \A i \in newlen + 1..oldlen[t] : items[visit][i] = 0
      /\ newlen \in Nat /\ oldlen[t] \in Nat /\ \A u \in Fin!Threads : len[u] \in Nat
  BY <1>1, <1>2 DEF FinSlots, Shortening, FinTypeOK
<1>6. /\ len'[visit] = IF len[visit] = oldlen[t] THEN newlen ELSE len[visit]
      /\ \A u \in Fin!Threads : u # visit => len'[u] = len[u]
      /\ \A u \in Fin!Threads : u # t => oldlen'[u] = oldlen[u]
  BY <1>1, <1>2, <1>3 DEF FinTypeOK
\* The slots between the new length and the old one are empty.
<1>7. /\ len'[visit] \in Nat /\ len'[visit] <= len[visit]
      /\ \A i \in len'[visit] + 1..len[visit] : items[visit][i] = 0
  <2>1. CASE len[visit] = oldlen[t]
    BY <1>5, <1>6, <2>1
  <2>2. CASE len[visit] # oldlen[t]
    <3>1. \A i \in len[visit] + 1..len[visit] : FALSE
      BY <1>3, <1>5
    <3> QED
      BY <1>3, <1>5, <1>6, <2>2, <3>1
  <2> QED
    BY <2>1, <2>2
<1>8. ASSUME NEW u \in Fin!Threads PROVE Registering(u)'
  <2> SUFFICES ASSUME fin_pc'[u] \in Pushing PROVE Registering(u)'
    BY DEF Registering
  <2>1. u # t /\ fin_pc[u] \in Pushing /\ fin_pc'[u] = fin_pc[u] /\ oldlen'[u] = oldlen[u]
    BY <1>4, <1>6, StepsAre
  <2>2. CASE u # visit
    BY <1>1, <1>2, <1>6, <2>1, <2>2 DEF FinSlots, Registering
  <2>3. CASE u = visit
    <3>1. /\ len[u] <= oldlen[u] /\ \A i \in len[u] + 1..oldlen[u] : items[u][i] = 0
          /\ fin_pc[u] = "publish" => items[u][oldlen[u] + 1] = newentry[u]
          /\ ~exiting /\ \A v \in Fin!Threads : newentry[v] = newentry[u] => v = u
          /\ oldlen[u] \in Nat /\ len[u] \in Nat
      <4>1. Registering(u)
        BY <1>2, <2>1 DEF FinSlots
      <4>2. oldlen[u] \in Nat /\ len[u] \in Nat
        BY <1>2 DEF FinTypeOK
      <4> QED
        BY <2>1, <4>1, <4>2 DEF Registering
    <3>2. \A i \in len'[u] + 1..oldlen[u] : i \in len'[u] + 1..len[u] \/ i \in len[u] + 1..oldlen[u]
      BY <1>7, <2>3, <3>1
    <3>3. len'[u] <= oldlen[u] /\ \A i \in len'[u] + 1..oldlen[u] : items[u][i] = 0
      BY <1>7, <2>3, <3>1, <3>2
    <3> QED
      BY <1>1, <2>1, <3>1, <3>3 DEF Registering
  <2> QED
    BY <2>2, <2>3
<1>9. ASSUME NEW u \in Fin!Threads PROVE Shortening(u)'
  <2>1. fin_pc'[u] # "cmpswap"
    <3>1. finalizers_lock = t
      BY <1>1, <1>2, StepsAre DEF FinControl, Controls
    <3>2. u # t => fin_pc[u] # "cmpswap"
      BY <1>2, <3>1, StepsAre DEF FinControl, Controls
    <3> QED
      BY <1>4, <3>2
  <2> QED
    BY <2>1 DEF Shortening
<1>10. Copying'
  BY <1>1, <1>2, <1>4, CopyingKept
<1>11. Emptied = {} /\ Emptied' = {}
  <2>1. \A u \in Fin!Threads : fin_pc[u] # "clear"
    BY <1>1, <1>2, StepsAre DEF FinControl, Controls
  <2> QED
    BY <1>4, <2>1 DEF Emptied
<1>12. \A n \in Fin!Entries : Lists(n)' = Lists(n)
  <2> SUFFICES ASSUME NEW n \in Fin!Entries PROVE Lists(n)' = Lists(n)
    OBVIOUS
  <2>1. InSlots(items[visit], len'[visit], n) = InSlots(items[visit], len[visit], n)
    <3> DEFINE l1 == len'[visit]
    <3>1. /\ l1 \in Nat /\ len[visit] \in Nat /\ l1 <= len[visit]
          /\ \A i \in l1 + 1..len[visit] : items[visit][i] = 0
      BY <1>3, <1>5, <1>7
    <3> HIDE DEF l1
    <3>2. InSlots(items[visit], len[visit], n) = InSlots(items[visit], l1, n)
      BY <3>1, SlotsEmpty
    <3> QED
      BY <3>2 DEF l1
  <2>2. \A u \in Fin!Threads : Listed(u, n)' = Listed(u, n)
    BY <1>1, <1>6, <1>11, <2>1 DEF Listed
  <2> QED
    BY <2>2 DEF Lists
<1>13. OneEach'
  BY <1>1, <1>12, RegisteredSame, BatchedSame DEF FinInv, OneEach, Weight
<1> QED
  BY <1>8, <1>9, <1>10, <1>13 DEF FinSlots

\* A thread gets a list to run.
LEMMA BatchesGiven ==
  ASSUME Fin!Setting, FinTypeOK, NEW t \in Fin!Threads, NEW s \in Seq(Named), NEW p \in BOOLEAN,
         Runs(t, s, p)
  PROVE  \A n : Batched(n)' = Batched(n) + Tally(s, n)
<1> SUFFICES ASSUME NEW n PROVE Batched(n)' = Batched(n) + Tally(s, n)
  OBVIOUS
<1>1. /\ batches \in [Fin!Threads -> Seq(Batch(Named))]
      /\ batches' = [batches EXCEPT ![t] = IF s = << >> THEN batches[t]
                                           ELSE Append(batches[t], [pending |-> p, items |-> s])]
  BY DEF Runs, FinTypeOK
<1>2. Tally(s, n) \in Int
  BY TallyType
<1>3. ASSUME NEW u \in Fin!Threads PROVE InBatch(batches[u], n) \in Int
  <2>1. InBatch(batches[u], n) \in Nat
    BY WeightParts
  <2> QED
    BY <2>1
<1>4. InBatch(batches'[t], n) = InBatch(batches[t], n) + Tally(s, n)
  <2>1. CASE s = << >>
    BY <1>1, <1>3, <2>1, TallySingle
  <2>2. CASE s # << >>
    <3> DEFINE b1 == [pending |-> p, items |-> s]
    <3>1. b1 \in Batch(Named) /\ b1.items = s
      BY <2>2 DEF Batch
    <3>2. batches'[t] = Append(batches[t], b1) /\ batches[t] \in Seq(Batch(Named))
      BY <1>1, <2>2
    <3> HIDE DEF b1
    <3> QED
      BY <3>1, <3>2, BatchAppended
  <2> QED
    BY <2>1, <2>2
<1>5. \A u \in Fin!Threads : InBatch(batches'[u], n) = InBatch(batches[u], n) + IF u = t THEN Tally(s, n) ELSE 0
  <2>1. \A u \in Fin!Threads : u # t => batches'[u] = batches[u]
    BY <1>1
  <2> QED
    BY <1>3, <1>4, <2>1
<1> QED
  BY <1>2, <1>5, BatchedChanged

LEMMA FinalizeMarkedParts ==
  ASSUME Fin!Setting, FinInv, NEW t \in Fin!Threads, Fin!FinalizeMarked(t)
  PROVE  FinSlots' /\ OneEach'
<1>1. /\ fin_pc[t] = "visit" /\ Fin!Goto(t, "user") /\ exiting' = exiting
      /\ visit' = 0 /\ copied_list' = << >>
      /\ UNCHANGED <<object, items, len, oldlen, newentry, newlen, to_finalize, runs>>
  BY DEF Fin!FinalizeMarked, Fin!lists, Fin!control
<1>2. FinShape /\ FinSlots /\ FinTypeOK /\ FinControl
  BY DEF FinInv, FinShape
<1>3. /\ fin_pc'[t] = "user" /\ \A u \in Fin!Threads : u # t => fin_pc'[u] = fin_pc[u]
  BY <1>1, <1>2, StepsAre, FinGoto
<1>4. finalizers_lock = t
  BY <1>1, <1>2, StepsAre DEF FinControl, Controls
<1>5. PICK ob : /\ finalizer_list_marked' = Fin!Except(finalizer_list_marked, ob)
                /\ Runs(t, copied_list \o Fin!Of(finalizer_list_marked, ob), FALSE)
  BY FinalizeMarkedIs
<1> DEFINE taken == Fin!Of(finalizer_list_marked, ob)
           kept == Fin!Except(finalizer_list_marked, ob)
<1>6. /\ copied_list \in Seq(Named) /\ finalizer_list_marked \in Seq(Named)
      /\ taken \in Seq(Named) /\ kept \in Seq(Named)
      /\ \A n : Tally(finalizer_list_marked, n) = Tally(kept, n) + Tally(taken, n)
  <2>1. copied_list \in Seq(Named) /\ finalizer_list_marked \in Seq(Named)
    BY <1>2 DEF FinTypeOK
  <2>2. taken \in Seq(Named) /\ kept \in Seq(Named)
    BY <2>1, SelectedType DEF Fin!Except, Fin!Of
  <2> QED
    BY <2>1, <2>2, SplitTally
<1> HIDE DEF taken, kept
<1>7. Copying'
  BY <1>1 DEF Copying
<1>8. FinSlots'
  BY <1>1, <1>2, <1>3, <1>4, <1>7, StepsAre, SlotsStill
<1>9. Emptied' = Emptied
  BY <1>1, <1>2, <1>3, <1>4, EmptiedSame
<1>10. \A n : Lists(n)' = Lists(n)
  BY <1>1, <1>9, ListsSame
<1>11. ASSUME NEW n \in Fin!Entries PROVE Weight(n)' = Weight(n)
  <2> DEFINE all == copied_list \o taken
  <2>1. all \in Seq(Named) /\ Tally(all, n) = Tally(copied_list, n) + Tally(taken, n)
    BY <1>6, TallyConcat
  <2>2. Runs(t, all, FALSE) /\ finalizer_list_marked' = kept
    BY <1>5 DEF taken, kept
  <2> HIDE DEF all
  <2>3. Batched(n)' = Batched(n) + Tally(all, n)
    BY <1>2, <2>1, <2>2, BatchesGiven
  <2>4. Tally(copied_list', n) = 0
    BY <1>1, TallySingle
  <2>5. Tally(finalizer_list_marked, n) = Tally(finalizer_list_marked', n) + Tally(taken, n)
    BY <1>6, <2>2
  <2>6. /\ Lists(n) \in Int /\ Batched(n) \in Int /\ Tally(copied_list, n) \in Int
        /\ Tally(finalizer_list_marked, n) \in Int /\ Tally(to_finalize, n) \in Int /\ runs[n] \in Int
    BY <1>2, WeightParts
  <2>7. Tally(taken, n) \in Int /\ Tally(finalizer_list_marked', n) \in Int
    BY <1>6, <2>2, TallyType
  <2> QED
    BY <1>1, <1>10, <2>1, <2>3, <2>4, <2>5, <2>6, <2>7 DEF Weight
<1>12. OneEach'
  BY <1>1, <1>11, RegisteredSame DEF FinInv, OneEach
<1> QED
  BY <1>8, <1>12

LEMMA RunFinalizerParts ==
  ASSUME Fin!Setting, FinInv, NEW t \in Fin!Threads, Fin!RunFinalizer(t)
  PROVE  FinSlots' /\ OneEach'
<1>1. /\ fin_pc[t] = "user"
      /\ UNCHANGED <<fin_pc, object, items, len, oldlen, newentry, newlen, copied_list, visit,
                     finalizer_list_marked, to_finalize, finalizers_lock, exiting>>
  BY DEF Fin!RunFinalizer, Fin!lists, Fin!global, Fin!locals, Fin!control
<1>2. FinShape /\ FinSlots /\ FinTypeOK
  BY DEF FinInv, FinShape
<1>3. Copying'
  BY <1>1, <1>2 DEF FinSlots, Copying
<1>4. FinSlots'
  BY <1>1, <1>2, <1>3, StepsAre, SlotsStill
<1>5. \A n : Lists(n)' = Lists(n)
  <2>1. Emptied' = Emptied
    BY <1>1 DEF Emptied
  <2> QED
    BY <1>1, <2>1, ListsSame
<1> DEFINE batch == Fin!Last(batches[t])
           left == Fin!Front(batch.items)
           outer == Fin!Front(batches[t])
           m == Fin!Last(batch.items)
<1>6. batches[t] # << >> /\ RunsLast(t) /\ m \in Fin!Entries
  BY <1>2, RunFinalizerIs, RunsLastType
<1>7. batch \in Batch(Named) /\ outer \in Seq(Batch(Named)) /\ batches[t] = Append(outer, batch)
  BY <1>2, <1>6, EndOf DEF FinTypeOK
<1> HIDE DEF batch, outer
<1>8. batch.pending \in BOOLEAN /\ batch.items \in Seq(Named) /\ batch.items # << >>
  BY <1>7 DEF Batch
<1>9. left \in Seq(Named) /\ m \in Named /\ batch.items = Append(left, m)
  BY <1>8, EndOf
<1>10. /\ runs' = [runs EXCEPT ![m] = @ + 1]
       /\ batches' = [batches EXCEPT ![t] =
            IF left = << >> THEN outer ELSE Append(outer, [pending |-> batch.pending, items |-> left])]
  BY <1>6 DEF RunsLast, batch, outer
<1> HIDE DEF left, m
<1>11. ASSUME NEW n \in Fin!Entries PROVE Weight(n)' = Weight(n)
  <2> DEFINE d == IF m = n THEN 1 ELSE 0
  <2>1. d \in Int /\ - d \in Int
    OBVIOUS
  <2>2. Tally(batch.items, n) = Tally(left, n) + d
    <3>1. batch.items = left \o <<m>> /\ <<m>> \in Seq(Named)
      BY <1>9
    <3>2. Tally(left \o <<m>>, n) = Tally(left, n) + Tally(<<m>>, n)
      BY <1>9, <3>1, TallyConcat
    <3> QED
      BY <3>1, <3>2, TallySingle
  <2> HIDE DEF d
  <2>3. InBatch(batches[t], n) = InBatch(outer, n) + Tally(left, n) + d
    <3>1. InBatch(batches[t], n) = InBatch(outer, n) + Tally(batch.items, n)
      BY <1>7, BatchAppended
    <3>2. InBatch(outer, n) \in Int /\ Tally(left, n) \in Int
      BY <1>7, <1>9, BatchTallies, TallyType
    <3> QED
      BY <2>1, <2>2, <3>1, <3>2
  <2>4. InBatch(batches'[t], n) = InBatch(outer, n) + Tally(left, n)
    <3>1. batches \in [Fin!Threads -> Seq(Batch(Named))] /\ InBatch(outer, n) \in Int
      <4>1. batches \in [Fin!Threads -> Seq(Batch(Named))]
        BY <1>2 DEF FinTypeOK
      <4>2. InBatch(outer, n) \in Nat
        BY <1>7, BatchTallies
      <4> QED
        BY <4>1, <4>2
    <3>2. CASE left = << >>
      <4>1. batches'[t] = outer /\ Tally(left, n) = 0
        BY <1>10, <3>1, <3>2, TallySingle
      <4> QED
        BY <3>1, <4>1
    <3>3. CASE left # << >>
      <4> DEFINE b1 == [pending |-> batch.pending, items |-> left]
      <4>1. b1 \in Batch(Named) /\ b1.items = left
        BY <1>8, <1>9, <3>3 DEF Batch
      <4>2. batches'[t] = Append(outer, b1)
        BY <1>10, <3>1, <3>3
      <4> HIDE DEF b1
      <4> QED
        BY <1>7, <4>1, <4>2, BatchAppended
    <3> QED
      BY <3>2, <3>3
  <2>5. \A u \in Fin!Threads : InBatch(batches'[u], n) = InBatch(batches[u], n) + IF u = t THEN - d ELSE 0
    <3>1. \A u \in Fin!Threads : u # t => batches'[u] = batches[u]
      BY <1>2, <1>10 DEF FinTypeOK
    <3>2. \A u \in Fin!Threads : InBatch(batches[u], n) \in Int
      BY <1>2, WeightParts
    <3>3. InBatch(outer, n) \in Int /\ Tally(left, n) \in Int
      BY <1>7, <1>9, BatchTallies, TallyType
    <3>4. InBatch(batches'[t], n) = InBatch(batches[t], n) + (- d)
      BY <2>1, <2>3, <2>4, <3>3
    <3> QED
      BY <2>1, <3>1, <3>2, <3>4
  <2> DEFINE c == - d
  <2>6. c \in Int
    BY <2>1
  <2> HIDE DEF c
  <2>7. Batched(n)' = Batched(n) + c
    BY <1>2, <2>5, <2>6, BatchedChanged DEF c
  <2>8. runs'[n] = runs[n] + d
    <3>1. runs \in [Fin!Entries -> Nat]
      BY <1>2 DEF FinTypeOK
    <3>2. runs[n] \in Nat /\ runs'[n] = IF n = m THEN runs[n] + 1 ELSE runs[n]
      BY <1>6, <1>10, <3>1
    <3> QED
      BY <3>2 DEF d
  <2>9. /\ Lists(n) \in Int /\ Batched(n) \in Int /\ Tally(copied_list, n) \in Int
        /\ Tally(finalizer_list_marked, n) \in Int /\ Tally(to_finalize, n) \in Int /\ runs[n] \in Int
    BY <1>2, WeightParts
  <2> QED
    BY <1>1, <1>5, <2>1, <2>7, <2>8, <2>9 DEF Weight, c
<1>12. OneEach'
  BY <1>1, <1>11, RegisteredSame DEF FinInv, OneEach
<1> QED
  BY <1>4, <1>12

-----------------------------------------------------------------------------
(* The scheduled finalizers are run.                                        *)

LEMMA RunFinalizersParts ==
  ASSUME Fin!Setting, FinInv, NEW t \in Fin!Threads,
         fin_pc[t] \in {"user", "collected", "flush"}, Fin!RunFinalizers(t), exiting' = exiting
  PROVE  FinSlots' /\ OneEach'
<1>1. /\ Fin!Goto(t, "user") /\ to_finalize' = << >> /\ Runs(t, to_finalize, TRUE)
      /\ UNCHANGED <<object, items, len, oldlen, newentry, newlen, copied_list, visit,
                     finalizer_list_marked, finalizers_lock, runs>>
  BY DEF Fin!RunFinalizers, Runs, Fin!lists, Fin!locals, Fin!NoOwner
<1>2. FinShape /\ FinSlots /\ FinTypeOK
  BY DEF FinInv, FinShape
<1>3. /\ fin_pc'[t] = "user" /\ \A u \in Fin!Threads : u # t => fin_pc'[u] = fin_pc[u]
  BY <1>1, <1>2, StepsAre, FinGoto
<1>4. Copying'
  BY <1>1, <1>2, <1>3, CopyingKept
<1>5. FinSlots'
  BY <1>1, <1>2, <1>3, <1>4, StepsAre, SlotsStill
<1>6. Emptied' = Emptied
  BY <1>1, <1>2, <1>3, EmptiedSame
<1>7. \A n : Lists(n)' = Lists(n)
  BY <1>1, <1>6, ListsSame
<1>8. to_finalize \in Seq(Named)
  BY <1>2 DEF FinTypeOK
<1>9. ASSUME NEW n \in Fin!Entries PROVE Weight(n)' = Weight(n)
  <2>1. Batched(n)' = Batched(n) + Tally(to_finalize, n)
    BY <1>1, <1>2, <1>8, BatchesGiven
  <2>2. Tally(to_finalize', n) = 0
    BY <1>1, TallySingle
  <2>3. /\ Lists(n) \in Int /\ Batched(n) \in Int /\ Tally(copied_list, n) \in Int
        /\ Tally(finalizer_list_marked, n) \in Int /\ Tally(to_finalize, n) \in Int /\ runs[n] \in Int
    BY <1>2, WeightParts
  <2> QED
    BY <1>1, <1>7, <2>1, <2>2, <2>3 DEF Weight
<1>10. OneEach'
  BY <1>1, <1>9, RegisteredSame DEF FinInv, OneEach
<1> QED
  BY <1>5, <1>10

LEMMA SchedulesParts ==
  ASSUME Fin!Setting, FinInv, NEW t \in Fin!Threads,
         Fin!Schedules(t) \/ Fin!Collected(t) \/ Fin!Flush(t)
  PROVE  FinSlots' /\ OneEach'
<1>1. CASE Fin!RunPending(t)
  BY <1>1, RunFinalizersParts DEF Fin!RunPending, Fin!control
<1>2. CASE Fin!Flush(t)
  BY <1>2, RunFinalizersParts DEF Fin!Flush, Fin!control
<1>3. CASE Fin!Inhibit(t)
  BY <1>3, StillParts DEF Fin!Inhibit, FinStill, Fin!lists, Fin!global, Fin!locals, Fin!progress, FinInv
<1>4. CASE Fin!Enable(t)
  <2>1. CASE Fin!RunFinalizers(t)
    BY <1>4, <2>1, RunFinalizersParts DEF Fin!Enable
  <2>2. CASE ~Fin!RunFinalizers(t)
    BY <1>4, <2>2, StillParts
    DEF Fin!Enable, FinStill, Fin!lists, Fin!global, Fin!locals, Fin!progress, FinInv
  <2> QED
    BY <2>1, <2>2
<1>5. CASE Fin!Collected(t)
  <2>1. CASE Fin!RunFinalizers(t)
    BY <1>5, <2>1, RunFinalizersParts DEF Fin!Collected, Fin!control
  <2>2. CASE ~Fin!RunFinalizers(t)
    <3>1. /\ fin_pc[t] = "collected" /\ Fin!Goto(t, "user") /\ exiting' = exiting
          /\ UNCHANGED <<object, items, len, oldlen, newentry, newlen, copied_list, visit,
                         finalizer_list_marked, to_finalize, finalizers_lock, batches, runs>>
      BY <1>5, <2>2 DEF Fin!Collected, Fin!lists, Fin!global, Fin!locals, Fin!progress, Fin!control
    <3>2. FinShape /\ FinSlots
      BY DEF FinInv
    <3>3. /\ fin_pc'[t] = "user" /\ \A u \in Fin!Threads : u # t => fin_pc'[u] = fin_pc[u]
      BY <3>1, <3>2, StepsAre, FinGoto DEF FinShape
    <3>4. Copying'
      BY <3>1, <3>2, <3>3, CopyingKept
    <3>5. FinSlots'
      BY <3>1, <3>2, <3>3, <3>4, StepsAre, SlotsStill
    <3>6. Emptied' = Emptied
      BY <3>1, <3>2, <3>3, EmptiedSame
    <3>7. \A n : Lists(n)' = Lists(n) /\ Batched(n)' = Batched(n)
      BY <3>1, <3>6, ListsSame, BatchedSame
    <3>8. OneEach'
      BY <3>1, <3>7, RegisteredSame DEF FinInv, OneEach, Weight
    <3> QED
      BY <3>5, <3>8
  <2> QED
    BY <2>1, <2>2
<1> QED
  BY <1>1, <1>2, <1>3, <1>4, <1>5 DEF Fin!Schedules

-----------------------------------------------------------------------------
(* The collector sweeps the lists.                                          *)

\* Every entry of a list is due, stays or moves on.
LEMMA SweptTally ==
  ASSUME NEW s \in Seq(Named), NEW aged
  PROVE  /\ \A n : Tally(s, n) = Tally(Fin!Freed(s), n) + Tally(Fin!Stays(s, aged), n) + Tally(Fin!Moves(s, aged), n)
         /\ \A n : Tally(s, n) = Tally(Fin!Freed(s), n) + Tally(Fin!Stays(s, {}), n)
         /\ \A n : /\ Tally(Fin!Freed(s), n) \in Nat /\ Tally(Fin!Stays(s, aged), n) \in Nat
                   /\ Tally(Fin!Moves(s, aged), n) \in Nat
<1> DEFINE F == Fin!freed
           G == (1..Fin!used) \ (F \cup aged)
           M == aged \ F
           H == (1..Fin!used) \ (F \cup {})
<1>1. Fin!Freed(s) = Fin!Kept(s, F) /\ Fin!Stays(s, aged) = Fin!Kept(s, G)
      /\ Fin!Moves(s, aged) = Fin!Kept(s, M) /\ Fin!Stays(s, {}) = Fin!Kept(s, H)
  BY DEF Fin!Freed, Fin!Stays, Fin!Moves
<1>2. \A n \in Named : /\ n \in F => n \notin G \cup M \cup H
                       /\ n \in G => n \notin F \cup M
                       /\ n \in M => n \notin F \cup G
                       /\ n \in F \cup G \cup M /\ n \in F \cup H
  BY DEF Fin!used, Named
<1> HIDE DEF F, G, M, H
<1>3. \A S : \A n : Tally(Fin!Kept(s, S), n) = IF n \in S THEN Tally(s, n) ELSE 0
  BY KeptElements
<1>4. \A n : Tally(s, n) \in Nat /\ (n \notin Named => Tally(s, n) = 0)
  <2>1. \A n : Tally(s, n) \in Nat /\ (Tally(s, n) = 0 <=> n \notin ToSet(s))
    BY TallyType
  <2>2. ToSet(s) \subseteq Named
    BY DEF ToSet
  <2> QED
    BY <2>1, <2>2
<1>5. ASSUME NEW n
      PROVE  /\ Tally(s, n) = Tally(Fin!Kept(s, F), n) + Tally(Fin!Kept(s, G), n) + Tally(Fin!Kept(s, M), n)
             /\ Tally(s, n) = Tally(Fin!Kept(s, F), n) + Tally(Fin!Kept(s, H), n)
             /\ Tally(Fin!Kept(s, F), n) \in Nat /\ Tally(Fin!Kept(s, G), n) \in Nat
             /\ Tally(Fin!Kept(s, M), n) \in Nat
  <2>1. /\ Tally(Fin!Kept(s, F), n) = IF n \in F THEN Tally(s, n) ELSE 0
        /\ Tally(Fin!Kept(s, G), n) = IF n \in G THEN Tally(s, n) ELSE 0
        /\ Tally(Fin!Kept(s, M), n) = IF n \in M THEN Tally(s, n) ELSE 0
        /\ Tally(Fin!Kept(s, H), n) = IF n \in H THEN Tally(s, n) ELSE 0
    BY <1>3
  <2>2. CASE n \in Named
    BY <1>2, <1>4, <2>1, <2>2
  <2>3. CASE n \notin Named
    BY <1>4, <2>1, <2>3
  <2> QED
    BY <2>2, <2>3
<1> QED
  BY <1>1, <1>5

LEMMA SweptLists ==
  ASSUME Fin!Setting, FinTypeOK, NEW aged, NEW psf, Sweeps(aged, psf), Emptied = {}, Emptied' = {},
         NEW n \in Fin!Entries
  PROVE  Lists(n) = Lists(n)'
           + Tally(Fin!FlattenSeq([u \in Fin!Threads |-> Fin!Freed(Fin!Live(u))]), n)
           + Tally(Fin!FlattenSeq([u \in Fin!Threads |-> Fin!Moves(Fin!Live(u), aged)]), n)
<1> DEFINE f == [u \in Fin!Threads |-> Tally(Fin!Freed(Fin!Live(u)), n)]
           g == [u \in Fin!Threads |-> Tally(Fin!Stays(Fin!Live(u), aged), n)]
           h == [u \in Fin!Threads |-> Tally(Fin!Moves(Fin!Live(u), aged), n)]
           k == [u \in Fin!Threads |-> f[u] + h[u]]
           all == [u \in Fin!Threads |-> Listed(u, n)]
           ff == [u \in Fin!Threads |-> Fin!Freed(Fin!Live(u))]
           fm == [u \in Fin!Threads |-> Fin!Moves(Fin!Live(u), aged)]
<1>1. \A u \in Fin!Threads : Fin!Live(u) \in Seq(Named)
  BY LiveType
<1>2. \A u \in Fin!Threads :
        /\ Tally(Fin!Live(u), n) = Tally(Fin!Freed(Fin!Live(u)), n) + Tally(Fin!Stays(Fin!Live(u), aged), n)
                                     + Tally(Fin!Moves(Fin!Live(u), aged), n)
        /\ Tally(Fin!Freed(Fin!Live(u)), n) \in Nat /\ Tally(Fin!Stays(Fin!Live(u), aged), n) \in Nat
        /\ Tally(Fin!Moves(Fin!Live(u), aged), n) \in Nat
  BY <1>1, SweptTally
<1>3. \A u \in Fin!Threads : Listed(u, n) = Tally(Fin!Live(u), n)
  BY LiveType DEF Listed
<1>4. /\ \A u \in Fin!Threads : f[u] \in Int /\ g[u] \in Int /\ h[u] \in Int /\ k[u] \in Int
      /\ \A u \in Fin!Threads : k[u] = f[u] + h[u] /\ all[u] = g[u] + k[u]
  BY <1>2, <1>3
\* The lists afterwards.
<1>5. ASSUME NEW u \in Fin!Threads PROVE Listed(u, n)' = Tally(Fin!Stays(Fin!Live(u), aged), n)
  <2> DEFINE r == Fin!Stays(Fin!Live(u), aged)
  <2>1. r \in Seq(1..Len(object)) /\ Len(object) \in Nat /\ Len(r) \in 0..MaxEntries
    <3>1. r \in Seq(Named) /\ Len(r) \in 0..Len(Fin!Live(u))
      BY <1>1, SelectedType DEF Fin!Stays
    <3>2. Len(Fin!Live(u)) \in 0..len[u] /\ len[u] \in 0..Len(object)
      BY LiveType DEF FinTypeOK
    <3>3. Len(object) \in Nat /\ Len(object) <= MaxEntries /\ MaxEntries \in Nat
      BY DEF FinTypeOK, Fin!Setting
    <3> HIDE DEF r
    <3> QED
      BY <3>1, <3>2, <3>3 DEF Named
  <2>2. items'[u] = Fin!Padded(r) /\ len'[u] = Len(r)
    BY DEF Sweeps
  <2> HIDE DEF r
  <2>3. \A i \in Fin!Entries : Fin!Padded(r)[i] = IF i <= Len(r) THEN r[i] ELSE 0
    BY <2>1, PaddedType
  <2>4. /\ \A i \in 1..Len(r) : i \in Fin!Entries /\ i <= Len(r)
        /\ Len(r) \in Nat /\ Len(r) <= Len(r) /\ \A i \in Len(r) + 1..Len(r) : FALSE
    BY <2>1 DEF Fin!Entries, Fin!Setting
  <2>5. \A i \in 1..Len(r) : Fin!Padded(r)[i] = r[i]
    BY <2>3, <2>4
  <2>6. InSlots(Fin!Padded(r), Len(r), n) = Tally(r, n)
    <3>1. \A i \in Len(r) + 1..Len(r) : Fin!Padded(r)[i] = 0
      BY <2>4
    <3> QED
      BY <2>1, <2>4, <2>5, <3>1, SlotsHold
  <2>7. Listed(u, n)' = InSlots(items'[u], len'[u], n)
    BY DEF Listed
  <2> QED
    BY <2>2, <2>6, <2>7 DEF r
<1>6. Lists(n)' = SumFunctionOnSet(g, Fin!Threads) /\ Lists(n) = SumFunctionOnSet(all, Fin!Threads)
  <2>1. g = [u \in Fin!Threads |-> Listed(u, n)']
    BY <1>5
  <2> QED
    BY <2>1 DEF Lists
<1>7. ff \in [Fin!Threads -> Seq(Named)] /\ fm \in [Fin!Threads -> Seq(Named)]
  <2>1. \A u \in Fin!Threads : Fin!Freed(Fin!Live(u)) \in Seq(Named) /\ Fin!Moves(Fin!Live(u), aged) \in Seq(Named)
    BY <1>1, SelectedType DEF Fin!Freed, Fin!Moves
  <2> QED
    BY <2>1
<1>8. f = [u \in Fin!Threads |-> Tally(ff[u], n)] /\ h = [u \in Fin!Threads |-> Tally(fm[u], n)]
  OBVIOUS
<1> HIDE DEF f, g, h, k, all, ff, fm
<1>9. /\ Tally(Fin!FlattenSeq(ff), n) = SumFunctionOnSet(f, Fin!Threads)
      /\ Tally(Fin!FlattenSeq(fm), n) = SumFunctionOnSet(h, Fin!Threads)
  BY <1>7, <1>8, ListsTogether
<1>10. SumFunctionOnSet(k, Fin!Threads) = SumFunctionOnSet(f, Fin!Threads) + SumFunctionOnSet(h, Fin!Threads)
  BY <1>4, ThreadsFinite, SumPlus
<1>11. SumFunctionOnSet(all, Fin!Threads) = SumFunctionOnSet(g, Fin!Threads) + SumFunctionOnSet(k, Fin!Threads)
  BY <1>4, ThreadsFinite, SumPlus
<1>12. /\ SumFunctionOnSet(f, Fin!Threads) \in Int /\ SumFunctionOnSet(g, Fin!Threads) \in Int
       /\ SumFunctionOnSet(h, Fin!Threads) \in Int
  BY <1>4, ThreadsFinite, SumType
<1>13. Lists(n) = Lists(n)' + Tally(Fin!FlattenSeq(ff), n) + Tally(Fin!FlattenSeq(fm), n)
  BY <1>6, <1>9, <1>10, <1>11, <1>12
<1> QED
  BY <1>13 DEF ff, fm

LEMMA CollectParts ==
  ASSUME Fin!Setting, FinInv, NEW t \in Fin!Threads,
         NEW full, NEW objects, NEW functions, Fin!Collect(t, full, objects, functions)
  PROVE  FinSlots' /\ OneEach'
<1>1. /\ fin_pc[t] = "user" /\ Fin!Goto(t, "collected") /\ exiting' = exiting
      /\ \A u \in Fin!Threads : fin_pc[u] \in {"user", "collected"}
      /\ UNCHANGED <<object, finalizers_lock, oldlen, newentry, newlen, copied_list, visit, batches, runs>>
  BY DEF Fin!Collect, Fin!locals, Fin!progress, Fin!control
<1>2. FinShape /\ FinSlots /\ FinTypeOK
  BY DEF FinInv, FinShape
<1>3. \A u \in Fin!Threads : fin_pc'[u] \in {"user", "collected"}
  BY <1>1, <1>2, StepsAre, FinGoto
<1>4. ASSUME NEW u \in Fin!Threads PROVE Registering(u)' /\ Shortening(u)'
  BY <1>3, StepsAre DEF Registering, Shortening
<1>5. Copying'
  BY <1>1, <1>2 DEF FinSlots, Copying
<1>6. Emptied = {} /\ Emptied' = {}
  BY <1>1, <1>3 DEF Emptied
<1>7. PICK aged : Sweeps(aged, prev_sweep_full)
  BY <1>1, CollectIs
<1>8. ASSUME NEW n \in Fin!Entries PROVE Weight(n)' = Weight(n)
  <2> DEFINE due == Fin!FlattenSeq([u \in Fin!Threads |-> Fin!Freed(Fin!Live(u))])
             moved == Fin!FlattenSeq([u \in Fin!Threads |-> Fin!Moves(Fin!Live(u), aged)])
             swept == IF prev_sweep_full THEN finalizer_list_marked ELSE << >>
             left == IF prev_sweep_full THEN Fin!Stays(finalizer_list_marked, {}) ELSE finalizer_list_marked
             dead == Fin!Freed(swept)
  <2>1. due \in Seq(Named) /\ moved \in Seq(Named)
    BY <1>2, <1>7, SweepsShape
  <2>2. Lists(n) = Lists(n)' + Tally(due, n) + Tally(moved, n)
    BY <1>2, <1>6, <1>7, SweptLists
  <2>3. /\ finalizer_list_marked' = left \o moved
        /\ to_finalize' = to_finalize \o (due \o dead)
    BY <1>7 DEF Sweeps
  <2> HIDE DEF due, moved
  <2>4. to_finalize \in Seq(Named) /\ finalizer_list_marked \in Seq(Named)
    BY <1>2 DEF FinTypeOK
  <2>5. /\ left \in Seq(Named) /\ dead \in Seq(Named)
        /\ Tally(finalizer_list_marked, n) = Tally(left, n) + Tally(dead, n)
    <3>1. << >> \in Seq(Named) /\ Tally(<< >>, n) = 0
      BY TallySingle
    <3>2. \A s \in Seq(Named) : Fin!Freed(s) \in Seq(Named) /\ Fin!Stays(s, {}) \in Seq(Named)
      BY SelectedType DEF Fin!Freed, Fin!Stays
    <3>3. /\ Tally(<< >>, n) = Tally(Fin!Freed(<< >>), n) + Tally(Fin!Stays(<< >>, {}), n)
          /\ Tally(Fin!Freed(<< >>), n) \in Nat
      BY <3>1, SweptTally
    <3>4. Tally(Fin!Stays(<< >>, {}), n) \in Nat
      BY <3>1, <3>2, TallyType
    <3>5. Tally(finalizer_list_marked, n)
            = Tally(Fin!Freed(finalizer_list_marked), n) + Tally(Fin!Stays(finalizer_list_marked, {}), n)
      BY <2>4, SweptTally
    <3>6. /\ Tally(Fin!Freed(finalizer_list_marked), n) \in Int
          /\ Tally(Fin!Stays(finalizer_list_marked, {}), n) \in Int
          /\ Tally(finalizer_list_marked, n) \in Int
      BY <2>4, <3>2, TallyType
    <3>7. CASE prev_sweep_full
      <4>1. left = Fin!Stays(finalizer_list_marked, {}) /\ dead = Fin!Freed(finalizer_list_marked)
        BY <3>7
      <4> HIDE DEF left, dead
      <4> QED
        BY <2>4, <3>2, <3>5, <3>6, <4>1
    <3>8. CASE ~prev_sweep_full
      <4>1. left = finalizer_list_marked /\ dead = Fin!Freed(<< >>)
        BY <3>8
      <4> HIDE DEF left, dead
      <4>2. Tally(dead, n) = 0
        BY <3>1, <3>3, <3>4, <4>1
      <4>3. left \in Seq(Named) /\ dead \in Seq(Named)
        BY <2>4, <3>1, <3>2, <4>1
      <4>4. Tally(finalizer_list_marked, n) = Tally(left, n) + Tally(dead, n)
        BY <3>6, <4>1, <4>2
      <4> QED
        BY <4>3, <4>4
    <3> QED
      BY <3>7, <3>8
  <2> HIDE DEF left, dead, swept
  <2>6. Tally(finalizer_list_marked', n) = Tally(left, n) + Tally(moved, n)
    BY <2>1, <2>3, <2>5, TallyConcat
  <2>7. Tally(to_finalize', n) = Tally(to_finalize, n) + (Tally(due, n) + Tally(dead, n))
    <3>1. due \o dead \in Seq(Named) /\ Tally(due \o dead, n) = Tally(due, n) + Tally(dead, n)
      BY <2>1, <2>5, TallyConcat
    <3> DEFINE e == due \o dead
    <3>2. to_finalize' = to_finalize \o e
      BY <2>3
    <3> HIDE DEF e
    <3>3. e \in Seq(Named) /\ to_finalize \in Seq(Named)
      <4>1. e \in Seq(Named)
        BY <3>1 DEF e
      <4> QED
        BY <2>4, <4>1
    <3>4. Tally(to_finalize \o e, n) = Tally(to_finalize, n) + Tally(e, n)
      BY <3>3, TallyConcat
    <3>5. Tally(e, n) = Tally(due, n) + Tally(dead, n)
      BY <3>1 DEF e
    <3> QED
      BY <3>2, <3>4, <3>5
  <2>8. /\ Tally(due, n) \in Int /\ Tally(moved, n) \in Int /\ Tally(left, n) \in Int /\ Tally(dead, n) \in Int
    BY <2>1, <2>5, TallyType
  <2>9. /\ Lists(n) \in Int /\ Batched(n) \in Int /\ Tally(copied_list, n) \in Int
        /\ Tally(finalizer_list_marked, n) \in Int /\ Tally(to_finalize, n) \in Int /\ runs[n] \in Int
    BY <1>2, WeightParts
  <2>10. Lists(n)' \in Int
    <3>1. FinTypeOK'
      BY CollectShape, FinalizerSetting DEF FinInv, FinShape
    <3> DEFINE f == [u \in Fin!Threads |-> Listed(u, n)']
    <3>2. \A u \in Fin!Threads : f[u] \in Int
      <4>1. \A u \in Fin!Threads : len'[u] \in Nat
        BY <3>1 DEF FinTypeOK
      <4>2. \A u \in Fin!Threads : InSlots(items'[u], len'[u], n) \in Nat
        BY <4>1, SlotsType
      <4> QED
        BY <1>6, <4>2 DEF Listed
    <3> HIDE DEF f
    <3>3. SumFunctionOnSet(f, Fin!Threads) \in Int
      BY <3>2, ThreadsFinite, SumType
    <3> QED
      BY <3>3 DEF Lists, f
  <2>11. Batched(n)' = Batched(n) /\ copied_list' = copied_list /\ runs' = runs
    BY <1>1, BatchedSame
  <2>12. Weight(n)' = Lists(n)' + Tally(copied_list, n) + Tally(finalizer_list_marked', n)
                        + Tally(to_finalize', n) + Batched(n) + runs[n]
    BY <2>11 DEF Weight
  <2>13. Weight(n)' = Lists(n)' + Tally(copied_list, n) + (Tally(left, n) + Tally(moved, n))
                        + (Tally(to_finalize, n) + (Tally(due, n) + Tally(dead, n))) + Batched(n) + runs[n]
    BY <2>6, <2>7, <2>12
  <2>14. Weight(n) = (Lists(n)' + Tally(due, n) + Tally(moved, n)) + Tally(copied_list, n)
                      + (Tally(left, n) + Tally(dead, n)) + Tally(to_finalize, n) + Batched(n) + runs[n]
    BY <2>2, <2>5 DEF Weight
  <2> QED
    BY <2>8, <2>9, <2>10, <2>13, <2>14
<1>9. OneEach'
  BY <1>1, <1>8, RegisteredSame DEF FinInv, OneEach
<1> QED
  BY <1>4, <1>5, <1>9 DEF FinSlots

-----------------------------------------------------------------------------
(* The end of the program.                                                  *)

LEMMA ExitParts ==
  ASSUME Fin!Setting, Orderly', FinInv, NEW t \in Fin!Threads, Fin!Exit(t)
  PROVE  FinSlots' /\ OneEach'
<1>1. /\ fin_pc[t] = "user" /\ finalizers_lock = 0 /\ Fin!Goto(t, "schedule")
      /\ \A u \in Fin!Threads : fin_pc[u] = "user"
      /\ finalizer_list_marked' = << >> /\ to_finalize' = to_finalize \o finalizer_list_marked
      /\ UNCHANGED <<object, items, len, oldlen, newentry, newlen, copied_list, batches, runs>>
  BY DEF Orderly, Fin!Exit, Fin!lists, Fin!progress, Fin!NoOwner
<1>2. FinShape /\ FinSlots /\ FinTypeOK
  BY DEF FinInv, FinShape
<1>3. /\ fin_pc'[t] = "schedule" /\ \A u \in Fin!Threads : u # t => fin_pc'[u] = fin_pc[u]
  BY <1>1, <1>2, StepsAre, FinGoto
<1>4. Copying'
  BY <1>1, <1>2, <1>3, CopyingKept
<1>5. FinSlots'
  BY <1>1, <1>2, <1>3, <1>4, StepsAre, SlotsStill
<1>6. Emptied' = Emptied
  BY <1>1, <1>2, <1>3, EmptiedSame
<1>7. \A n : Lists(n)' = Lists(n) /\ Batched(n)' = Batched(n)
  BY <1>1, <1>6, ListsSame, BatchedSame
<1>8. ASSUME NEW n \in Fin!Entries PROVE Weight(n)' = Weight(n)
  <2>1. Tally(to_finalize', n) = Tally(to_finalize, n) + Tally(finalizer_list_marked, n)
    BY <1>1, <1>2, TallyConcat DEF FinTypeOK
  <2>2. Tally(finalizer_list_marked', n) = 0
    BY <1>1, TallySingle
  <2>3. /\ Lists(n) \in Int /\ Batched(n) \in Int /\ Tally(copied_list, n) \in Int
        /\ Tally(finalizer_list_marked, n) \in Int /\ Tally(to_finalize, n) \in Int /\ runs[n] \in Int
    BY <1>2, WeightParts
  <2> QED
    BY <1>1, <1>7, <2>1, <2>2, <2>3 DEF Weight
<1>9. OneEach'
  BY <1>1, <1>8, RegisteredSame DEF FinInv, OneEach
<1> QED
  BY <1>5, <1>9

LEMMA ScheduleAllParts ==
  ASSUME Fin!Setting, FinInv, NEW t \in Fin!Threads, Fin!ScheduleAll(t)
  PROVE  FinSlots' /\ OneEach'
<1>1. /\ fin_pc[t] = "schedule" /\ visit <= nthreads /\ Fin!Goto(t, "clear") /\ exiting' = exiting
      /\ to_finalize' = to_finalize \o Fin!Live(visit)
      /\ UNCHANGED <<object, items, len, oldlen, newentry, newlen, copied_list, visit,
                     finalizer_list_marked, finalizers_lock, batches, runs>>
  BY DEF Fin!ScheduleAll, Fin!lists, Fin!locals, Fin!progress, Fin!control
<1>2. FinShape /\ FinSlots /\ FinTypeOK /\ Controls(t)
  BY DEF FinInv, FinShape, FinControl
<1>3. /\ fin_pc'[t] = "clear" /\ \A u \in Fin!Threads : u # t => fin_pc'[u] = fin_pc[u]
  BY <1>1, <1>2, StepsAre, FinGoto
<1>4. visit \in Fin!Threads
  BY <1>1, <1>2 DEF Controls, Fin!Threads, Fin!Setting
<1>5. Copying'
  BY <1>1, <1>2, <1>3, CopyingKept
<1>6. FinSlots'
  BY <1>1, <1>2, <1>3, <1>5, StepsAre, SlotsStill
<1>7. Emptied = {} /\ Emptied' = {visit}
  <2>1. Emptied = {}
    BY <1>1, <1>2, StepsAre DEF FinShape, FinControl, Controls, Emptied
  <2> QED
    BY <1>1, <1>3, <1>4, <2>1 DEF Emptied
<1>8. ASSUME NEW n \in Fin!Entries PROVE Weight(n)' = Weight(n)
  <2> DEFINE k == InSlots(items[visit], len[visit], n)
             d == - k
  <2>1. \A u \in Fin!Threads : InSlots(items[u], len[u], n) \in Nat
    <3>1. \A u \in Fin!Threads : len[u] \in Nat
      BY <1>2 DEF FinTypeOK
    <3> QED
      BY <3>1, SlotsType
  <2>2. k \in Nat /\ d \in Int
    BY <1>4, <2>1
  <2>3. \A u \in Fin!Threads : Listed(u, n)' = Listed(u, n) + IF u = visit THEN d ELSE 0
    <3> SUFFICES ASSUME NEW u \in Fin!Threads
                 PROVE  Listed(u, n)' = Listed(u, n) + IF u = visit THEN d ELSE 0
      OBVIOUS
    <3>1. Listed(u, n) = InSlots(items[u], len[u], n)
      BY <1>7 DEF Listed
    <3>2. Listed(u, n)' = IF u = visit THEN 0 ELSE InSlots(items[u], len[u], n)
      BY <1>1, <1>7 DEF Listed
    <3>3. InSlots(items[u], len[u], n) \in Nat
      BY <2>1
    <3>4. CASE u = visit
      BY <2>2, <3>1, <3>2, <3>3, <3>4
    <3>5. CASE u # visit
      BY <3>1, <3>2, <3>3, <3>5
    <3> QED
      BY <3>4, <3>5
  <2>4. Tally(to_finalize', n) = Tally(to_finalize, n) + k
    <3>1. Fin!Live(visit) \in Seq(Named) /\ Tally(Fin!Live(visit), n) = k /\ to_finalize \in Seq(Named)
      BY <1>2, <1>4, LiveType DEF FinTypeOK
    <3> QED
      BY <1>1, <3>1, TallyConcat
  <2> HIDE DEF k, d
  <2>5. Lists(n)' = Lists(n) + d
    BY <1>2, <1>4, <2>2, <2>3, ListsChanged
  <2>6. /\ Lists(n) \in Int /\ Batched(n) \in Int /\ Tally(copied_list, n) \in Int
        /\ Tally(finalizer_list_marked, n) \in Int /\ Tally(to_finalize, n) \in Int /\ runs[n] \in Int
    BY <1>2, WeightParts
  <2> QED
    BY <1>1, <2>2, <2>4, <2>5, <2>6, BatchedSame DEF Weight, d
<1>9. OneEach'
  BY <1>1, <1>8, RegisteredSame DEF FinInv, OneEach
<1> QED
  BY <1>6, <1>9

LEMMA ClearListParts ==
  ASSUME Fin!Setting, FinInv, NEW t \in Fin!Threads, Fin!ClearList(t)
  PROVE  FinSlots' /\ OneEach'
<1>1. /\ fin_pc[t] = "clear" /\ Fin!Goto(t, "schedule") /\ exiting' = exiting
      /\ len' = [len EXCEPT ![visit] = 0] /\ visit' = visit + 1
      /\ UNCHANGED <<object, items, oldlen, newentry, newlen, copied_list, to_finalize,
                     finalizer_list_marked, finalizers_lock, batches, runs>>
  BY DEF Fin!ClearList, Fin!global, Fin!progress, Fin!control
<1>2. FinShape /\ FinSlots /\ FinTypeOK /\ FinControl
  BY DEF FinInv, FinShape
<1>3. /\ fin_pc'[t] = "schedule" /\ \A u \in Fin!Threads : u # t => fin_pc'[u] = fin_pc[u]
  BY <1>1, <1>2, StepsAre, FinGoto
<1>4. visit \in Fin!Threads /\ \A u \in Fin!Threads : u # t => fin_pc[u] \notin Holding
  BY <1>1, <1>2, StepsAre DEF FinControl, Controls
<1>5. \A u \in Fin!Threads : fin_pc[u] \notin Pushing
  <2>1. exiting
    BY <1>1 DEF FinInv, DueInv, ExitSteps
  <2> QED
    BY <1>2, <2>1 DEF FinSlots, Registering
<1>6. ASSUME NEW u \in Fin!Threads PROVE Registering(u)' /\ Shortening(u)'
  BY <1>3, <1>4, <1>5, StepsAre DEF Registering, Shortening
<1>7. Copying'
  BY <1>1, <1>2, <1>3, CopyingKept
<1>8. Emptied = {visit} /\ Emptied' = {}
  <2>1. \A u \in Fin!Threads : fin_pc'[u] # "clear"
    BY <1>3, <1>4, StepsAre
  <2> QED
    BY <1>1, <1>4, <2>1 DEF Emptied
<1>9. \A n : Lists(n)' = Lists(n)
  <2>1. /\ len'[visit] = 0 /\ \A u \in Fin!Threads : u # visit => len'[u] = len[u]
    BY <1>1, <1>2, <1>4 DEF FinTypeOK
  <2>2. \A n : \A u \in Fin!Threads : Listed(u, n)' = Listed(u, n)
    BY <1>1, <1>8, <2>1, SlotsNone DEF Listed
  <2> QED
    BY <2>2 DEF Lists
<1>10. OneEach'
  BY <1>1, <1>9, RegisteredSame, BatchedSame DEF FinInv, OneEach, Weight
<1> QED
  BY <1>6, <1>7, <1>10 DEF FinSlots

LEMMA ScheduledAllParts ==
  ASSUME Fin!Setting, FinInv, NEW t \in Fin!Threads, Fin!ScheduledAll(t)
  PROVE  FinSlots' /\ OneEach'
<1>1. /\ fin_pc[t] = "schedule" /\ Fin!Goto(t, "flush") /\ exiting' = exiting
      /\ UNCHANGED <<object, items, len, oldlen, newentry, newlen, copied_list, to_finalize,
                     finalizer_list_marked, batches, runs>>
  BY DEF Fin!ScheduledAll, Fin!lists, Fin!progress, Fin!control
<1>2. FinShape /\ FinSlots /\ FinTypeOK /\ Controls(t)
  BY DEF FinInv, FinShape, FinControl
<1>3. /\ fin_pc'[t] = "flush" /\ \A u \in Fin!Threads : u # t => fin_pc'[u] = fin_pc[u]
  BY <1>1, <1>2, StepsAre, FinGoto
<1>4. finalizers_lock = t
  BY <1>1, <1>2, StepsAre DEF Controls
<1>5. Copying'
  BY <1>1, <1>2, <1>3, CopyingKept
<1>6. FinSlots'
  BY <1>1, <1>2, <1>3, <1>4, <1>5, StepsAre, SlotsStill
<1>7. Emptied' = Emptied
  BY <1>1, <1>2, <1>3, <1>4, EmptiedSame
<1>8. \A n : Lists(n)' = Lists(n) /\ Batched(n)' = Batched(n)
  BY <1>1, <1>7, ListsSame, BatchedSame
<1>9. OneEach'
  BY <1>1, <1>8, RegisteredSame DEF FinInv, OneEach, Weight
<1> QED
  BY <1>6, <1>9

-----------------------------------------------------------------------------
(* No finalizer is lost and none is run twice.                              *)

\* Nothing undoes the end of the program.
LEMMA OrderlyBefore == ASSUME [Fin!Next]_(Fin!vars), Orderly' PROVE Orderly
<1> SUFFICES ASSUME exiting PROVE exiting'
  BY DEF Orderly
<1>1. ASSUME NEW t \in Fin!Threads, Fin!Registers(t) PROVE exiting'
  BY <1>1 DEF Fin!Registers, Fin!AddFinalizer, Fin!PushItem, Fin!PublishLen, Fin!control
<1>2. ASSUME NEW t \in Fin!Threads, Fin!Finalizes(t) PROVE exiting'
  BY <1>2 DEF Fin!Finalizes, Fin!Finalize, Fin!FinalizeObject, Fin!CmpswapLen, Fin!FinalizeMarked,
              Fin!RunFinalizer, Fin!control
<1>3. ASSUME NEW t \in Fin!Threads, Fin!Schedules(t) PROVE exiting'
  BY <1>3 DEF Fin!Schedules, Fin!RunPending, Fin!Inhibit, Fin!Enable, Fin!control
<1>4. ASSUME NEW t \in Fin!Threads, Fin!Collects(t) PROVE exiting'
  BY <1>4 DEF Fin!Collects, Fin!Collect, Fin!Collected, Fin!control
<1>5. ASSUME NEW t \in Fin!Threads, Fin!Exits(t) PROVE exiting'
  BY <1>5 DEF Fin!Exits, Fin!Exit, Fin!ScheduleAll, Fin!ClearList, Fin!ScheduledAll, Fin!Flush,
              Fin!control
<1>6. CASE (\E ob \in FinObjects : Fin!Drop(ob)) \/ Fin!Elsewhere \/ UNCHANGED Fin!vars
  BY <1>6 DEF Fin!Drop, Fin!Elsewhere, Fin!vars, Fin!control
<1> QED
  BY <1>1, <1>2, <1>3, <1>4, <1>5, <1>6 DEF Fin!Next

LEMMA PartsStep ==
  ASSUME Fin!Setting, Orderly', FinInv, [Fin!Next]_(Fin!vars)
  PROVE  FinSlots' /\ OneEach'
<1>1. ASSUME NEW t \in Fin!Threads, Fin!Registers(t) PROVE FinSlots' /\ OneEach'
  BY <1>1, OrderlyBefore, AddFinalizerParts, PushItemParts, PublishLenParts DEF Fin!Registers
<1>2. ASSUME NEW t \in Fin!Threads, Fin!Finalizes(t) PROVE FinSlots' /\ OneEach'
  BY <1>2, FinalizeParts, FinalizeObjectIs, VisitedParts, CmpswapLenParts, FinalizeMarkedParts,
     RunFinalizerParts DEF Fin!Finalizes, FinInv
<1>3. ASSUME NEW t \in Fin!Threads, Fin!Schedules(t) PROVE FinSlots' /\ OneEach'
  BY <1>3, SchedulesParts
<1>4. ASSUME NEW t \in Fin!Threads, Fin!Collects(t) PROVE FinSlots' /\ OneEach'
  BY <1>4, SchedulesParts, CollectParts DEF Fin!Collects
<1>5. ASSUME NEW t \in Fin!Threads, Fin!Exits(t) PROVE FinSlots' /\ OneEach'
  BY <1>5, ExitParts, ScheduleAllParts, ClearListParts, ScheduledAllParts, SchedulesParts DEF Fin!Exits
<1>6. ASSUME NEW ob \in FinObjects, Fin!Drop(ob) PROVE FinSlots' /\ OneEach'
  BY <1>6, StillParts
  DEF Fin!Drop, FinStill, Fin!lists, Fin!global, Fin!locals, Fin!progress, Fin!control, FinInv
<1>7. CASE Fin!Elsewhere \/ UNCHANGED Fin!vars
  BY <1>7, StillParts
  DEF Fin!Elsewhere, Fin!vars, FinStill, Fin!lists, Fin!global, Fin!locals, Fin!progress, Fin!control, FinInv
<1> QED
  BY <1>1, <1>2, <1>3, <1>4, <1>5, <1>6, <1>7 DEF Fin!Next

LEMMA PartsInit == ASSUME Fin!Setting, Fin!Init PROVE FinSlots /\ OneEach
<1>1. /\ \A t \in Fin!Threads : fin_pc[t] = "user" /\ len[t] = 0 /\ batches[t] = << >>
      /\ object = << >> /\ copied_list = << >> /\ finalizer_list_marked = << >> /\ to_finalize = << >>
      /\ \A n \in Fin!Entries : runs[n] = 0
  BY DEF Fin!Init
<1>2. FinSlots
  BY <1>1, StepsAre DEF FinSlots, Registering, Shortening, Copying
<1>3. \A n : InBatch(<< >>, n) = 0
  <2>1. 1..Len(<< >>) = {}
    OBVIOUS
  <2> QED
    BY <2>1, SumEmpty DEF InBatch
<1>4. \A n : \A t \in Fin!Threads : Listed(t, n) = 0 /\ InBatch(batches[t], n) = 0
  BY <1>1, <1>3, SlotsNone DEF Listed
<1>5. ASSUME NEW n \in Fin!Entries PROVE Weight(n) = 0
  <2> DEFINE f == [t \in Fin!Threads |-> Listed(t, n)]
             g == [t \in Fin!Threads |-> InBatch(batches[t], n)]
  <2>1. \A t \in Fin!Threads : f[t] = 0 /\ g[t] = 0
    BY <1>4
  <2> HIDE DEF f, g
  <2>2. SumFunctionOnSet(f, Fin!Threads) = 0 /\ SumFunctionOnSet(g, Fin!Threads) = 0
    BY <2>1, ThreadsFinite, SumZeros, SumEmpty
  <2>3. Lists(n) = 0 /\ Batched(n) = 0
    BY <2>2 DEF Lists, Batched, f, g
  <2> QED
    BY <1>1, <2>3, TallySingle DEF Weight
<1>6. Fin!Registered = {}
  BY <1>1 DEF Fin!Registered, Fin!used
<1> QED
  BY <1>2, <1>5, <1>6 DEF OneEach

\* Between the critical sections the places of an entry are those that are counted.
LEMMA PlacesAreWeight ==
  ASSUME Fin!Setting, FinShape, FinSlots, finalizers_lock = 0, NEW n \in Fin!Entries
  PROVE  Fin!Places(n) = Weight(n)
<1>1. FinTypeOK
  BY DEF FinShape
<1>2. \A u \in Fin!Threads : finalizers_lock # u
  BY DEF Fin!Threads
<1>3. Emptied = {} /\ copied_list = << >>
  BY <1>2, EmptiedNone, CopiedNone
<1> DEFINE fl == [t \in Fin!Threads |-> Fin!Live(t)]
           fb == [t \in Fin!Threads |-> Fin!FlattenSeq([i \in DOMAIN batches[t] |-> batches[t][i].items])]
           L == Fin!FlattenSeq(fl)
           B == Fin!FlattenSeq(fb)
<1>4. L \in Seq(Named) /\ Tally(L, n) = Lists(n)
  <2>1. fl \in [Fin!Threads -> Seq(Named)]
    BY <1>1, LiveType
  <2>2. [t \in Fin!Threads |-> Tally(fl[t], n)] = [t \in Fin!Threads |-> Listed(t, n)]
    BY <1>1, <1>3, LiveType DEF Listed
  <2> HIDE DEF fl
  <2> QED
    BY <2>1, <2>2, ListsTogether DEF Lists
<1>5. \A t \in Fin!Threads : fb[t] \in Seq(Named) /\ Tally(fb[t], n) = InBatch(batches[t], n)
  <2> SUFFICES ASSUME NEW t \in Fin!Threads
               PROVE  fb[t] \in Seq(Named) /\ Tally(fb[t], n) = InBatch(batches[t], n)
    OBVIOUS
  <2> DEFINE bs == batches[t]
             ss == [i \in DOMAIN bs |-> bs[i].items]
  <2>1. bs \in Seq(Batch(Named))
    BY <1>1 DEF FinTypeOK
  <2>2. ASSUME NEW i \in 1..Len(bs) PROVE bs[i].items \in Seq(Named)
    <3>1. bs[i] \in Batch(Named)
      BY <2>1
    <3> QED
      BY <3>1 DEF Batch
  <2>3. DOMAIN bs = 1..Len(bs) /\ Len(bs) \in Nat
    BY <2>1
  <2>4. ss \in Seq(Seq(Named)) /\ Len(ss) = Len(bs) /\ \A i \in 1..Len(bs) : ss[i] = bs[i].items
    <3>1. \A i \in 1..Len(bs) : ss[i] = bs[i].items
      BY <2>3
    <3>2. ss \in [1..Len(bs) -> Seq(Named)]
      BY <2>2, <2>3
    <3> HIDE DEF ss
    <3> QED
      BY <2>3, <3>1, <3>2
  <2>5. fb[t] = Fin!FlattenSeq(ss)
    OBVIOUS
  <2> HIDE DEF ss, fb
  <2>6. Fin!FlattenSeq(ss) \in Seq(Named) /\ Tally(Fin!FlattenSeq(ss), n) = SumFunctionOnSet(Tallies(ss, n), 1..Len(ss))
    BY <2>4, FlatElements
  <2>7. Tallies(ss, n) = [i \in 1..Len(bs) |-> Tally(bs[i].items, n)]
    BY <2>4 DEF Tallies
  <2> QED
    BY <2>4, <2>5, <2>6, <2>7 DEF InBatch
<1>6. B \in Seq(Named) /\ Tally(B, n) = Batched(n)
  <2>1. fb \in [Fin!Threads -> Seq(Named)]
    BY <1>5
  <2>2. [t \in Fin!Threads |-> Tally(fb[t], n)] = [t \in Fin!Threads |-> InBatch(batches[t], n)]
    BY <1>5
  <2> HIDE DEF fb
  <2> QED
    BY <2>1, <2>2, ListsTogether DEF Batched
<1>7. Fin!Places(n) = Tally(L \o finalizer_list_marked \o to_finalize \o B, n) + runs[n]
  BY CountIsTally DEF Fin!Places, Fin!all_lists, Fin!InBatches
<1> HIDE DEF L, B
<1>8. finalizer_list_marked \in Seq(Named) /\ to_finalize \in Seq(Named)
  BY <1>1 DEF FinTypeOK
<1>9. Tally(L \o finalizer_list_marked \o to_finalize \o B, n)
        = Tally(L, n) + Tally(finalizer_list_marked, n) + Tally(to_finalize, n) + Tally(B, n)
  <2> DEFINE s1 == L \o finalizer_list_marked
             s2 == s1 \o to_finalize
  <2>1. s1 \in Seq(Named) /\ Tally(s1, n) = Tally(L, n) + Tally(finalizer_list_marked, n)
    BY <1>4, <1>8, TallyConcat
  <2> HIDE DEF s1
  <2>2. s2 \in Seq(Named) /\ Tally(s2, n) = Tally(s1, n) + Tally(to_finalize, n)
    BY <1>8, <2>1, TallyConcat
  <2> HIDE DEF s2
  <2>3. Tally(s2 \o B, n) = Tally(s2, n) + Tally(B, n)
    BY <1>6, <2>2, TallyConcat
  <2> QED
    BY <2>1, <2>2, <2>3 DEF s1, s2
<1>10. Tally(copied_list, n) = 0
  BY <1>3, TallySingle
<1>11. /\ Lists(n) \in Int /\ Batched(n) \in Int /\ Tally(finalizer_list_marked, n) \in Int
       /\ Tally(to_finalize, n) \in Int /\ runs[n] \in Int
  BY <1>1, WeightParts
<1> QED
  BY <1>4, <1>6, <1>7, <1>9, <1>10, <1>11 DEF Weight

LEMMA OnceFromParts ==
  ASSUME Fin!Setting, FinShape, FinSlots, OneEach PROVE OnceInOnePlace
<1> SUFFICES ASSUME finalizers_lock = 0, NEW n \in Fin!Registered PROVE Fin!Places(n) = 1
  BY DEF OnceInOnePlace, Fin!OnceInOnePlace, Fin!NoOwner
<1>1. n \in Fin!Entries
  <2>1. n \in 1..Len(object) /\ Len(object) \in Nat /\ Len(object) <= MaxEntries
    BY DEF Fin!Registered, Fin!used, FinShape, FinTypeOK
  <2> QED
    BY <2>1 DEF Fin!Entries, Fin!Setting
<1> QED
  BY <1>1, PlacesAreWeight DEF OneEach

\* No finalizer is lost and none is run twice: between the critical sections every
\* registered entry is in one list, in one batch that is about to be run, or was run,
\* once.  This holds of any number of threads and entries until the program comes to
\* its end while other threads go on (jl_gc_run_all_finalizers takes the entries of a
\* list whose owner may be registering; the run finalizer_exit shows what happens then).
THEOREM OnceUntilExit == Fin!Spec => [](~(exiting /\ ExitWhileRunning) => OnceInOnePlace)
<1> DEFINE Inv == FinShape /\ DueInv /\ (Orderly => FinInv)
<1>1. Fin!Init => Inv
  <2> SUFFICES ASSUME Fin!Init PROVE Inv
    OBVIOUS
  <2>1. DueInv
    BY DEF Fin!Init, DueInv, ExitSteps
  <2> QED
    BY <2>1, FinInitShape, PartsInit, FinalizerSetting DEF FinInv
<1>2. Inv /\ [Fin!Next]_(Fin!vars) => Inv'
  <2> SUFFICES ASSUME Inv, [Fin!Next]_(Fin!vars) PROVE Inv'
    OBVIOUS
  <2>1. FinShape' /\ DueInv'
    BY FinShapeStep, DueStep, FinalizerSetting
  <2>2. ASSUME Orderly' PROVE FinSlots' /\ OneEach'
    <3>1. FinInv
      BY <2>2, OrderlyBefore
    <3> QED
      BY <2>2, <3>1, PartsStep, FinalizerSetting
  <2> QED
    BY <2>1, <2>2 DEF FinInv
<1>3. Inv => (~(exiting /\ ExitWhileRunning) => OnceInOnePlace)
  BY OnceFromParts, FinalizerSetting DEF FinInv, Orderly
<1> QED
  BY <1>1, <1>2, <1>3, PTL DEF Fin!Spec

\* A program that ends when its other threads are done loses no finalizer at all, also
\* while it ends: every registered entry stays in one place, and is run once at most.
THEOREM OnceInOnePlaceInvariant ==
  ASSUME ~ExitWhileRunning PROVE Fin!Spec => []OnceInOnePlace
<1>1. (~(exiting /\ ExitWhileRunning) => OnceInOnePlace) => OnceInOnePlace
  OBVIOUS
<1> QED
  BY <1>1, OnceUntilExit, PTL


-----------------------------------------------------------------------------
(* Queues of objects.                                                       *)

\* A set put in some order has the same elements.
LEMMA SetToSeqElements ==
  ASSUME NEW S, IsFiniteSet(S), NEW T, S \subseteq T
  PROVE  SetToSeq(S) \in Seq(T) /\ ToSet(SetToSeq(S)) = S
<1> DEFINE n == Cardinality(S)
           f == SetToSeq(S)
<1>1. n \in Nat /\ ExistsBijection(1..n, S)
  BY FS_CardinalityType
<1>2. \E g \in [1..n -> S] : IsInjective(g)
  BY <1>1 DEF ExistsBijection, Bijection, Injection, IsInjective
<1>3. f \in [1..n -> S] /\ IsInjective(f)
  BY <1>2 DEF SetToSeq
<1>4. f \in Injection(1..n, S)
  BY <1>3 DEF Injection, IsInjective
<1>5. Cardinality(1..n) = n
  BY <1>1, FS_Interval
<1>6. f \in Surjection(1..n, S)
  BY <1>4, <1>5, FS_Injection
<1> HIDE DEF f
<1>7. ToSet(f) = S
  BY <1>3, <1>6 DEF ToSet, Surjection
<1>8. f \in Seq(T)
  <2>1. f \in [1..n -> T]
    BY <1>3
  <2> QED
    BY <1>1, <2>1
<1> QED
  BY <1>7, <1>8 DEF f

LEMMA QueuedElements ==
  ASSUME NEW S \in SUBSET Objects
  PROVE  queued(S) \in Seq(Objects) /\ ToSet(queued(S)) = S \ marked
<1>1. Fresh(S) \subseteq Objects /\ IsFiniteSet(Fresh(S)) /\ Fresh(S) = S \ marked
  BY MarkingAssumption, FS_Subset DEF Fresh
<1> QED
  BY <1>1, SetToSeqElements DEF queued

LEMMA AppendedElements ==
  ASSUME NEW s \in Seq(Objects), NEW r \in Seq(Objects)
  PROVE  /\ s \o r \in Seq(Objects)
         /\ ToSet(s \o r) = ToSet(s) \cup ToSet(r)
         /\ s # << >> => s \o r # << >> /\ Head(s \o r) = Head(s)
<1>1. /\ s \o r \in Seq(Objects) /\ Len(s \o r) = Len(s) + Len(r)
      /\ \A i \in 1..Len(s) : (s \o r)[i] = s[i]
      /\ \A i \in 1..Len(r) : (s \o r)[Len(s) + i] = r[i]
  OBVIOUS
<1>2. ToSet(s \o r) \subseteq ToSet(s) \cup ToSet(r)
  <2> SUFFICES ASSUME NEW i \in 1..Len(s) + Len(r)
               PROVE  (s \o r)[i] \in ToSet(s) \cup ToSet(r)
    BY <1>1 DEF ToSet
  <2>1. CASE i <= Len(s)
    BY <1>1, <2>1 DEF ToSet
  <2>2. CASE i > Len(s)
    <3>1. i - Len(s) \in 1..Len(r) /\ i = Len(s) + (i - Len(s))
      BY <2>2
    <3> QED
      BY <1>1, <3>1 DEF ToSet
  <2> QED
    BY <2>1, <2>2
<1>3. ToSet(s) \subseteq ToSet(s \o r)
  BY <1>1 DEF ToSet
<1>4. ToSet(r) \subseteq ToSet(s \o r)
  <2> SUFFICES ASSUME NEW i \in 1..Len(r) PROVE r[i] \in ToSet(s \o r)
    BY DEF ToSet
  <2>1. Len(s) + i \in DOMAIN (s \o r)
    BY <1>1
  <2> QED
    BY <1>1, <2>1 DEF ToSet
<1> QED
  BY <1>1, <1>2, <1>3, <1>4

LEMMA FrontElements ==
  ASSUME NEW s \in Seq(Objects), s # << >>
  PROVE  /\ Front(s) \in Seq(Objects) /\ Last(s) \in Objects
         /\ ToSet(s) = ToSet(Front(s)) \cup {Last(s)}
         /\ Front(s) # << >> => Head(Front(s)) = Head(s)
<1>0. Len(s) \in Nat \ {0}
  OBVIOUS
<1>1. /\ Front(s) \in Seq(Objects) /\ Len(Front(s)) = Len(s) - 1
      /\ \A i \in 1..Len(s) - 1 : Front(s)[i] = s[i]
      /\ Len(s) \in Nat \ {0}
  <2>1. Front(s) = SubSeq(s, 1, Len(s) - 1)
    BY DEF Front
  <2>2. Front(s) = [i \in 1..Len(s) - 1 |-> s[i]]
    BY <1>0, <2>1, SubSeqProperties
  <2> QED
    BY <1>0, <2>2
<1>2. Last(s) = s[Len(s)] /\ Last(s) \in Objects
  BY <1>1 DEF Last
<1>3. ToSet(s) \subseteq ToSet(Front(s)) \cup {Last(s)}
  <2> SUFFICES ASSUME NEW i \in 1..Len(s) PROVE s[i] \in ToSet(Front(s)) \cup {Last(s)}
    BY DEF ToSet
  <2> QED
    BY <1>1, <1>2 DEF ToSet
<1>4. ToSet(Front(s)) \subseteq ToSet(s)
  BY <1>1 DEF ToSet
<1>5. Last(s) \in ToSet(s)
  BY <1>1, <1>2 DEF ToSet
<1>6. Front(s) # << >> => Head(Front(s)) = Head(s)
  BY <1>1
<1> QED
  BY <1>1, <1>2, <1>3, <1>4, <1>5, <1>6

LEMMA TailElements ==
  ASSUME NEW s \in Seq(Objects), s # << >>
  PROVE  /\ Tail(s) \in Seq(Objects) /\ Head(s) \in Objects
         /\ ToSet(s) = ToSet(Tail(s)) \cup {Head(s)}
<1>1. /\ Tail(s) \in Seq(Objects) /\ Len(Tail(s)) = Len(s) - 1
      /\ \A i \in 1..Len(s) - 1 : Tail(s)[i] = s[i + 1]
      /\ Len(s) \in Nat \ {0} /\ Head(s) = s[1]
      /\ DOMAIN Tail(s) = 1..Len(s) - 1
  OBVIOUS
<1>2. ToSet(s) \subseteq ToSet(Tail(s)) \cup {Head(s)}
  <2> SUFFICES ASSUME NEW i \in 1..Len(s), i # 1 PROVE s[i] \in ToSet(Tail(s))
    BY <1>1 DEF ToSet
  <2>1. i - 1 \in 1..Len(s) - 1 /\ s[i] = Tail(s)[i - 1]
    BY <1>1
  <2> QED
    BY <1>1, <2>1 DEF ToSet
<1>3. ToSet(Tail(s)) \subseteq ToSet(s)
  <2> SUFFICES ASSUME NEW i \in 1..Len(s) - 1 PROVE Tail(s)[i] \in ToSet(s)
    BY <1>1 DEF ToSet
  <2>1. i + 1 \in 1..Len(s)
    BY <1>1
  <2> QED
    BY <1>1, <2>1 DEF ToSet
<1> QED
  BY <1>1, <1>2, <1>3 DEF ToSet

-----------------------------------------------------------------------------
(* The marking: what no step of any thread disturbs.                        *)

MarkerSteps == {"pop", "mark", "steal", "claim"}
SharedSteps == MarkerSteps \cup {"observe", "estimate"}
MasterSteps == SharedSteps \cup {"mutate", "announce", "wake", "left", "alone", "serial"}

\* Every variable has its type, and a thread that scans or claims has an object.
MarkTypeOK ==
  /\ pc \in [Threads -> MasterSteps \cup {"check"}]
  /\ pc[Master] \in MasterSteps
  /\ \A t \in MarkThreads : pc[t] \in SharedSteps \cup {"check"}
  /\ queue \in [Threads -> Seq(Objects)]
  /\ hand \in [Threads -> Objects \cup {Nothing}]
  /\ victim \in [Threads -> Threads \cup {Nobody}]
  /\ untried \in [Threads -> SUBSET Threads]
  /\ marked \subseteq Objects
  /\ gc_n_threads_marking \in Nat
  /\ gc_queue_observer_lock \in Threads \cup {Nobody}
  /\ \A t \in Threads : /\ pc[t] \in {"mark", "claim"} => hand[t] \in Objects
                        /\ pc[t] = "claim" => victim[t] \in Threads

\* gc_n_threads_marking counts the threads in gc_mark_and_steal, and the master from
\* its announcement on.
Counted == {t \in Threads : pc[t] \in MarkerSteps \cup {"wake"}}
CountRight == gc_n_threads_marking = Cardinality(Counted)

\* The lock is held while a thread estimates, and at no other time.
LockRight ==
  \A t \in Threads : pc[t] = "estimate" <=> gc_queue_observer_lock = t

\* Outside the mark loop nobody marks, and nobody is about to.
MasterAlone ==
  pc[Master] \in {"left", "alone", "serial", "mutate", "announce"} =>
    Counted = {} /\ gc_queue_observer_lock = Nobody

\* While the master is in the mark loop, some thread will still look into each
\* queue that is not empty.  A thief that is about to lose does not count.
WillLookInto(t, v) ==
  \/ pc[t] \in {"announce", "wake", "pop", "mark"}
  \/ pc[t] = "steal" /\ v \in untried[t]
  \/ pc[t] = "claim" /\ v \in untried[t] /\ (victim[t] = v => still_there(t))

InLoop == pc[Master] \notin {"serial", "mutate"}

QueuesCovered ==
  InLoop => \A v \in Threads : queue[v] # << >> => \E t \in Threads : WillLookInto(t, v)

\* A marked object has its references marked, or waits in a queue or in a hand.
Waiting(x) ==
  \/ \E v \in Threads : x \in ToSet(queue[v])
  \/ \E t \in Threads : pc[t] = "mark" /\ hand[t] = x

ScannedOrWaiting ==
  InLoop => /\ Roots \subseteq marked
            /\ \A x \in marked : Refs[x] \subseteq marked \/ Waiting(x)

MarkInv ==
  MarkTypeOK /\ CountRight /\ LockRight /\ MasterAlone /\ QueuesCovered /\ ScannedOrWaiting

LEMMA MarkInitInv == Init => MarkInv
<1> SUFFICES ASSUME Init PROVE MarkInv
  OBVIOUS
<1> USE MarkingAssumption DEF Init, Threads
<1>1. MarkTypeOK /\ LockRight /\ QueuesCovered /\ ScannedOrWaiting
  BY DEF MarkTypeOK, MasterSteps, SharedSteps, MarkerSteps, LockRight, QueuesCovered,
     ScannedOrWaiting, InLoop
<1>2. Counted = {}
  BY DEF Counted, MarkerSteps
<1>3. CountRight /\ MasterAlone
  BY <1>2, FS_EmptySet DEF CountRight, MasterAlone
<1> QED
  BY <1>1, <1>3 DEF MarkInv

LEMMA CountedFinite == IsFiniteSet(Threads) /\ Counted \subseteq Threads /\ IsFiniteSet(Counted)
<1>1. IsFiniteSet(Threads)
  BY MarkingAssumption, FS_AddElement DEF Threads
<1>2. Counted \subseteq Threads
  BY DEF Counted
<1> QED
  BY <1>1, <1>2, FS_Subset

LEMMA MarkTypeStep == MarkTypeOK /\ CountRight /\ [Next]_vars => MarkTypeOK'
<1> SUFFICES ASSUME MarkTypeOK, CountRight, [Next]_vars PROVE MarkTypeOK'
  OBVIOUS
<1> USE MarkingAssumption
    DEF MarkTypeOK, MasterSteps, SharedSteps, MarkerSteps, Threads, protocol, Goto
<1>0. ASSUME NEW S \in SUBSET Objects
      PROVE  queued(S) \in Seq(Objects)
  BY <1>0, QueuedElements
<1>1. CASE QueueRoots
  <2>1. PICK dest \in [Roots -> Threads] :
          queue' = [v \in Threads |-> SetToSeq({x \in Roots : dest[x] = v})]
    BY <1>1 DEF QueueRoots
  <2>2. \A v \in Threads : SetToSeq({x \in Roots : dest[x] = v}) \in Seq(Objects)
    <3> TAKE v \in Threads
    <3>1. {x \in Roots : dest[x] = v} \subseteq Objects /\ IsFiniteSet({x \in Roots : dest[x] = v})
      BY FS_Subset
    <3> QED
      BY <3>1, SetToSeqElements
  <2>3. queue' \in [Threads -> Seq(Objects)]
    BY <2>1, <2>2
  <2> QED
    BY <1>1, <2>3 DEF QueueRoots
<1>2. CASE Announce \/ WakeAll \/ Barrier \/ FinishCollection
  <2>1. CASE Announce
    BY <2>1 DEF Announce
  <2>2. CASE WakeAll
    BY <2>2 DEF WakeAll
  <2>3. CASE Barrier
    BY <2>3 DEF Barrier
  <2>4. CASE FinishCollection
    BY <2>4 DEF FinishCollection
  <2> QED
    BY <1>2, <2>1, <2>2, <2>3, <2>4
<1>3. CASE MarkFinList
  <2>1. queue[Master] \o queued(FinRoots) \in Seq(Objects)
    BY <1>0, AppendedElements
  <2> QED
    BY <1>3, <2>1 DEF MarkFinList
<1>4. CASE MarkSerial
  <2>1. PICK x \in Objects : x = Last(queue[Master]) /\ Front(queue[Master]) \in Seq(Objects)
    BY <1>4, FrontElements DEF MarkSerial
  <2>2. /\ queue' = [queue EXCEPT ![Master] = Front(@) \o queued(Refs[x])]
        /\ marked' = marked \cup Refs[x]
    BY <1>4, <2>1 DEF MarkSerial
  <2>3. Refs[x] \in SUBSET Objects
    OBVIOUS
  <2>4. Front(queue[Master]) \o queued(Refs[x]) \in Seq(Objects)
    BY <1>0, <2>1, <2>3, AppendedElements
  <2>5. queue' \in [Threads -> Seq(Objects)] /\ marked' \subseteq Objects
    BY <2>2, <2>3, <2>4
  <2> QED
    BY <1>4, <2>5 DEF MarkSerial
<1>5. CASE Idle
  BY <1>5 DEF Idle, vars
<1>6. ASSUME NEW u \in Threads, Check(u) \/ ObserveZero(u) \/ ObserveMarking(u) \/ Join(u) \/ EstimateZero(u)
      PROVE  MarkTypeOK'
  <2>1. CASE Check(u)
    <3>1. /\ u \in MarkThreads /\ u # Master
          /\ pc' = pc \/ pc' = [pc EXCEPT ![u] = "observe"]
          /\ UNCHANGED <<queue, hand, victim, untried, marked, gc_n_threads_marking,
                         gc_queue_observer_lock>>
      BY <2>1 DEF Check
    <3>2. CASE pc' = pc
      BY <3>1, <3>2
    <3>3. CASE pc' = [pc EXCEPT ![u] = "observe"]
      BY <2>1, <3>1, <3>3 DEF Check
    <3> QED
      BY <3>1, <3>2, <3>3
  <2>2. CASE ObserveZero(u)
    BY <2>2 DEF ObserveZero
  <2>3. CASE ObserveMarking(u)
    BY <2>3 DEF ObserveMarking
  <2>4. CASE Join(u)
    BY <2>4 DEF Join
  <2>5. CASE EstimateZero(u)
    BY <2>5 DEF EstimateZero
  <2> QED
    BY <1>6, <2>1, <2>2, <2>3, <2>4, <2>5
<1>7. ASSUME NEW u \in Threads, Pop(u)
      PROVE  MarkTypeOK'
  <2>1. Last(queue[u]) \in Objects /\ Front(queue[u]) \in Seq(Objects)
    BY <1>7, FrontElements DEF Pop
  <2> QED
    BY <1>7, <2>1 DEF Pop
<1>8. ASSUME NEW u \in Threads, PopNothing(u)
      PROVE  MarkTypeOK'
  BY <1>8 DEF PopNothing
<1>9. ASSUME NEW u \in Threads, Mark(u)
      PROVE  MarkTypeOK'
  <2>1. Refs[hand[u]] \in SUBSET Objects
    BY <1>9 DEF Mark
  <2>2. queue[u] \o queued(Refs[hand[u]]) \in Seq(Objects)
    BY <1>0, <2>1, AppendedElements
  <2>3. queue' \in [Threads -> Seq(Objects)] /\ marked' \subseteq Objects
    BY <1>9, <2>1, <2>2 DEF Mark
  <2> QED
    BY <1>9, <2>3 DEF Mark
<1>10. ASSUME NEW u \in Threads, NEW v \in Threads, StealNothing(u, v)
       PROVE  MarkTypeOK'
  BY <1>10 DEF StealNothing
<1>11. ASSUME NEW u \in Threads, NEW v \in Threads, StealRead(u, v)
       PROVE  MarkTypeOK'
  <2>1. Head(queue[v]) \in Objects
    BY <1>11, TailElements DEF StealRead
  <2> QED
    BY <1>11, <2>1 DEF StealRead
<1>12. ASSUME NEW u \in Threads, StealWins(u)
       PROVE  MarkTypeOK'
  <2>1. victim[u] \in Threads /\ Tail(queue[victim[u]]) \in Seq(Objects)
    BY <1>12, TailElements DEF StealWins, still_there
  <2> QED
    BY <1>12, <2>1 DEF StealWins
<1>13. ASSUME NEW u \in Threads, StealLoses(u)
       PROVE  MarkTypeOK'
  <2>1. untried' = untried \/ untried' = [untried EXCEPT ![u] = @ \ {victim[u]}]
    BY <1>13 DEF StealLoses
  <2>2. untried' \in [Threads -> SUBSET Threads]
    <3>1. untried \in [Threads -> SUBSET Threads]
      OBVIOUS
    <3> HIDE DEF MarkTypeOK
    <3> QED
      BY ONLY <2>1, <3>1
  <2> QED
    BY <1>13, <2>2 DEF StealLoses
<1>14. ASSUME NEW u \in Threads, StopMarking(u)
       PROVE  MarkTypeOK'
  <2>1. u \in Counted /\ IsFiniteSet(Counted)
    BY <1>14, CountedFinite DEF StopMarking, Counted
  <2>2. gc_n_threads_marking - 1 \in Nat
    BY <2>1, FS_EmptySet, FS_CardinalityType DEF CountRight
  <2> QED
    BY <1>14, <2>2 DEF StopMarking
<1>15. CASE UNCHANGED vars
  BY <1>15 DEF vars
<1> QED
  BY <1>1, <1>2, <1>3, <1>4, <1>5, <1>6, <1>7, <1>8, <1>9, <1>10, <1>11, <1>12, <1>13,
     <1>14, <1>15 DEF Next, Leads, Observes, Marks

-----------------------------------------------------------------------------
(* The count, the lock, and the master.                                     *)

CountedSteps == MarkerSteps \cup {"wake"}

MovesTo(u, to) == pc' = [pc EXCEPT ![u] = to]

LEMMA CountedChange ==
  ASSUME MarkTypeOK, NEW u \in Threads, NEW to, MovesTo(u, to)
  PROVE  /\ Counted' = IF to \in CountedSteps THEN Counted \cup {u} ELSE Counted \ {u}
         /\ Cardinality(Counted) \in Nat
         /\ Cardinality(Counted)' =
              Cardinality(Counted) + (IF to \in CountedSteps THEN 1 ELSE 0)
                                   - (IF pc[u] \in CountedSteps THEN 1 ELSE 0)
<1>1. /\ pc'[u] = to /\ \A v \in Threads : v # u => pc'[v] = pc[v]
      /\ u \in Counted <=> pc[u] \in CountedSteps
  BY DEF MarkTypeOK, Counted, CountedSteps, MovesTo
<1>2. Counted' = IF to \in CountedSteps THEN Counted \cup {u} ELSE Counted \ {u}
  BY <1>1 DEF Counted, CountedSteps
<1>3. IsFiniteSet(Counted) /\ Cardinality(Counted) \in Nat
  BY CountedFinite, FS_CardinalityType
<1>4. Cardinality(Counted \cup {u}) = IF u \in Counted THEN Cardinality(Counted)
                                                       ELSE Cardinality(Counted) + 1
  BY <1>3, FS_AddElement
<1>5. Cardinality(Counted \ {u}) = IF u \in Counted THEN Cardinality(Counted) - 1
                                                    ELSE Cardinality(Counted)
  BY <1>3, FS_RemoveElement
<1> QED
  BY <1>1, <1>2, <1>3, <1>4, <1>5

LEMMA ProtocolStep ==
  MarkTypeOK /\ CountRight /\ LockRight /\ MasterAlone /\ [Next]_vars
    => CountRight' /\ LockRight' /\ MasterAlone'
<1> SUFFICES ASSUME MarkTypeOK, CountRight, LockRight, MasterAlone, [Next]_vars
             PROVE  CountRight' /\ LockRight' /\ MasterAlone'
  OBVIOUS
<1> DEFINE Goal == CountRight' /\ LockRight' /\ MasterAlone'
           Outside == {"left", "alone", "serial", "mutate", "announce"}
           n == Cardinality(Counted)
<1>n. n \in Nat /\ gc_n_threads_marking = n /\ (n = 0 <=> Counted = {})
  BY CountedFinite, FS_CardinalityType, FS_EmptySet DEF CountRight
<1>m. Master \in Threads /\ Nobody \notin Threads
  BY MarkingAssumption DEF Threads
\* The marking threads are the same ones, and nobody takes or releases the lock.
<1>same. ASSUME NEW u \in Threads, NEW to, pc' = [pc EXCEPT ![u] = to],
                pc[u] \in CountedSteps <=> to \in CountedSteps,
                pc[u] # "estimate", to # "estimate",
                UNCHANGED <<gc_n_threads_marking, gc_queue_observer_lock>>,
                u = Master /\ to \in Outside =>
                  pc[u] \in Outside \/ (gc_n_threads_marking = 0 /\ gc_queue_observer_lock = Nobody)
         PROVE  Goal
  <2>1. Counted' = Counted /\ Cardinality(Counted)' = n
    BY <1>same, <1>n, CountedChange DEF Counted, CountedSteps, MovesTo
  <2>2. CountRight'
    BY <1>same, <1>n, <2>1 DEF CountRight
  <2>3. LockRight'
    BY <1>same DEF LockRight, MarkTypeOK
  <2>4. MasterAlone'
    <3>1. pc'[Master] = IF u = Master THEN to ELSE pc[Master]
      BY <1>same, <1>m DEF MarkTypeOK
    <3> QED
      BY <1>same, <1>n, <2>1, <3>1 DEF MasterAlone
  <2> QED
    BY <2>2, <2>3, <2>4
\* The variables of the protocol stay as they are.
<1>keep. ASSUME UNCHANGED <<pc, gc_n_threads_marking, gc_queue_observer_lock>>
         PROVE  Goal
  BY <1>keep DEF CountRight, LockRight, MasterAlone, Counted
<1> USE DEF protocol, Goto, MarkerSteps, CountedSteps
<1>1. CASE QueueRoots
  BY <1>1, <1>m, <1>same DEF QueueRoots
<1>2. CASE Announce
  <2>1. /\ pc' = [pc EXCEPT ![Master] = "wake"] /\ pc[Master] = "announce"
        /\ gc_n_threads_marking' = gc_n_threads_marking + 1
        /\ gc_queue_observer_lock' = gc_queue_observer_lock
    BY <1>2 DEF Announce
  <2>m. MovesTo(Master, "wake")
    BY <2>1 DEF MovesTo
  <2>2. Cardinality(Counted)' = n + 1
    BY <1>m, <1>n, <2>1, <2>m, CountedChange
  <2>3. CountRight'
    BY <1>n, <2>1, <2>2 DEF CountRight
  <2>4. LockRight' /\ pc'[Master] = "wake"
    BY <1>m, <2>1 DEF LockRight, MarkTypeOK
  <2> QED
    BY <2>3, <2>4 DEF MasterAlone
<1>3. CASE WakeAll
  BY <1>3, <1>m, <1>same DEF WakeAll
<1>4. CASE Barrier \/ MarkFinList \/ FinishCollection
  <2>1. CASE Barrier
    BY <2>1, <1>m, <1>same DEF Barrier
  <2>2. CASE MarkFinList
    BY <2>2, <1>m, <1>same DEF MarkFinList
  <2>3. CASE FinishCollection
    BY <2>3, <1>m, <1>same DEF FinishCollection
  <2> QED
    BY <1>4, <2>1, <2>2, <2>3
<1>5. CASE MarkSerial
  BY <1>5, <1>keep DEF MarkSerial
<1>6. CASE Idle \/ UNCHANGED vars
  BY <1>6, <1>keep DEF Idle, vars
<1>7. ASSUME NEW u \in Threads, Check(u) PROVE Goal
  <2>1. u # Master
    BY <1>7, MarkingAssumption DEF Check
  <2>2. CASE may_mark
    BY <1>7, <2>1, <2>2, <1>same DEF Check
  <2>3. CASE ~may_mark
    BY <1>7, <2>3, <1>keep DEF Check
  <2> QED
    BY <2>2, <2>3
<1>8. ASSUME NEW u \in Threads, ObserveZero(u) PROVE Goal
  BY <1>8, <1>same DEF ObserveZero
<1>9. ASSUME NEW u \in Threads, ObserveMarking(u) PROVE Goal
  <2>1. /\ pc' = [pc EXCEPT ![u] = "estimate"] /\ pc[u] = "observe"
        /\ gc_queue_observer_lock = Nobody /\ gc_queue_observer_lock' = u
        /\ gc_n_threads_marking > 0 /\ gc_n_threads_marking' = gc_n_threads_marking
    BY <1>9 DEF ObserveMarking
  <2>m. MovesTo(u, "estimate")
    BY <2>1 DEF MovesTo
  <2>2. Cardinality(Counted)' = n
    BY <1>n, <2>1, <2>m, CountedChange
  <2>3. CountRight'
    BY <1>n, <2>1, <2>2 DEF CountRight
  <2>4. LockRight'
    BY <1>m, <2>1 DEF LockRight, MarkTypeOK
  <2>5. pc'[Master] \notin Outside
    <3>1. pc[Master] \notin Outside
      BY <1>n, <2>1 DEF MasterAlone
    <3>2. pc'[Master] \in {pc[Master], "estimate"}
      BY <1>m, <2>1 DEF MarkTypeOK
    <3> QED
      BY <3>1, <3>2
  <2> QED
    BY <2>3, <2>4, <2>5 DEF MasterAlone
<1>10. ASSUME NEW u \in Threads, Join(u) PROVE Goal
  <2>1. /\ pc' = [pc EXCEPT ![u] = "pop"] /\ pc[u] = "estimate"
        /\ gc_queue_observer_lock' = Nobody
        /\ gc_n_threads_marking' = gc_n_threads_marking + 1
    BY <1>10 DEF Join
  <2>m. MovesTo(u, "pop")
    BY <2>1 DEF MovesTo
  <2>2. Cardinality(Counted)' = n + 1
    BY <1>n, <2>1, <2>m, CountedChange
  <2>3. CountRight'
    BY <1>n, <2>1, <2>2 DEF CountRight
  <2>4. LockRight'
    BY <1>m, <2>1 DEF LockRight, MarkTypeOK
  <2>5. pc'[Master] \notin Outside
    <3>1. gc_queue_observer_lock = u
      BY <2>1 DEF LockRight
    <3>2. pc[Master] \notin Outside
      BY <1>m, <3>1 DEF MasterAlone
    <3>3. pc'[Master] \in {pc[Master], "pop"}
      BY <1>m, <2>1 DEF MarkTypeOK
    <3> QED
      BY <3>2, <3>3
  <2> QED
    BY <2>3, <2>4, <2>5 DEF MasterAlone
<1>11. ASSUME NEW u \in Threads, EstimateZero(u) PROVE Goal
  <2>1. PICK to \in {"left", "check"} :
          /\ pc' = [pc EXCEPT ![u] = to] /\ pc[u] = "estimate"
          /\ gc_queue_observer_lock' = Nobody
          /\ gc_n_threads_marking = 0 /\ gc_n_threads_marking' = gc_n_threads_marking
    BY <1>11 DEF EstimateZero
  <2>m. MovesTo(u, to)
    BY <2>1 DEF MovesTo
  <2>2. Cardinality(Counted)' = n
    BY <1>n, <2>1, <2>m, CountedChange
  <2>3. CountRight'
    BY <1>n, <2>1, <2>2 DEF CountRight
  <2>4. LockRight'
    BY <1>m, <2>1 DEF LockRight, MarkTypeOK
  <2>5. Counted' = {}
    BY <1>n, <2>1, <2>m, CountedChange
  <2> QED
    BY <2>1, <2>3, <2>4, <2>5 DEF MasterAlone
<1>12. ASSUME NEW u \in Threads, Pop(u) \/ PopNothing(u) \/ Mark(u) PROVE Goal
  <2>1. CASE Pop(u)
    BY <2>1, <1>same DEF Pop
  <2>2. CASE PopNothing(u)
    BY <2>2, <1>same DEF PopNothing
  <2>3. CASE Mark(u)
    BY <2>3, <1>same DEF Mark
  <2> QED
    BY <1>12, <2>1, <2>2, <2>3
<1>13. ASSUME NEW u \in Threads, NEW v \in Threads, StealNothing(u, v) \/ StealRead(u, v)
       PROVE  Goal
  <2>1. CASE StealNothing(u, v)
    BY <2>1, <1>keep DEF StealNothing
  <2>2. CASE StealRead(u, v)
    BY <2>2, <1>same DEF StealRead
  <2> QED
    BY <1>13, <2>1, <2>2
<1>14. ASSUME NEW u \in Threads, StealWins(u) \/ StealLoses(u) PROVE Goal
  <2>1. CASE StealWins(u)
    BY <2>1, <1>same DEF StealWins
  <2>2. CASE StealLoses(u)
    BY <2>2, <1>same DEF StealLoses
  <2> QED
    BY <1>14, <2>1, <2>2
<1>15. ASSUME NEW u \in Threads, StopMarking(u) PROVE Goal
  <2>1. /\ pc' = [pc EXCEPT ![u] = "observe"] /\ pc[u] = "steal"
        /\ gc_queue_observer_lock' = gc_queue_observer_lock
        /\ gc_n_threads_marking' = gc_n_threads_marking - 1
    BY <1>15 DEF StopMarking
  <2>m. MovesTo(u, "observe")
    BY <2>1 DEF MovesTo
  <2>2. Cardinality(Counted)' = n - 1 /\ Counted' = Counted \ {u}
    BY <1>n, <2>1, <2>m, CountedChange
  <2>3. CountRight'
    BY <1>n, <2>1, <2>2 DEF CountRight
  <2>4. LockRight'
    BY <1>m, <2>1 DEF LockRight, MarkTypeOK
  <2>5. pc'[Master] \notin Outside
    <3>1. u \in Counted
      BY <2>1 DEF Counted
    <3>2. pc[Master] \notin Outside
      BY <3>1 DEF MasterAlone
    <3>3. pc'[Master] \in {pc[Master], "observe"}
      BY <1>m, <2>1 DEF MarkTypeOK
    <3> QED
      BY <3>2, <3>3
  <2> QED
    BY <2>3, <2>4, <2>5 DEF MasterAlone
<1> HIDE DEF Goal
<1> QED
  BY <1>1, <1>2, <1>3, <1>4, <1>5, <1>6, <1>7, <1>8, <1>9, <1>10, <1>11, <1>12, <1>13,
     <1>14, <1>15 DEF Goal, Next, Leads, Observes, Marks

-----------------------------------------------------------------------------
(* Who looks into the queues.                                               *)

\* Outside the mark loop nobody would look into a queue.
LEMMA NobodyLooks ==
  ASSUME MarkTypeOK, MasterAlone, pc[Master] \in {"left", "alone"}
  PROVE  \A u, v \in Threads : ~WillLookInto(u, v)
<1>1. Counted = {} /\ pc[Master] # "announce"
  BY DEF MasterAlone
<1>2. \A u \in Threads : pc[u] \notin MarkerSteps \cup {"wake", "announce"}
  BY <1>1, MarkingAssumption DEF Counted, MarkTypeOK, Threads, SharedSteps, MarkerSteps
<1> QED
  BY <1>2 DEF WillLookInto, MarkerSteps

\* Who is not moved, and finds the head of the queue where it was, will still look.
Unmoved(u) == /\ pc'[u] = pc[u] /\ hand'[u] = hand[u] /\ victim'[u] = victim[u]
              /\ untried'[u] = untried[u]

LEMMA StillLooks ==
  ASSUME NEW u \in Threads, NEW v \in Threads, Unmoved(u), WillLookInto(u, v),
         queue[v] # << >> => queue'[v] # << >> /\ Head(queue'[v]) = Head(queue[v])
  PROVE  WillLookInto(u, v)'
BY DEF Unmoved, WillLookInto, still_there

LEMMA CoverStep ==
  MarkTypeOK /\ MasterAlone /\ QueuesCovered /\ [Next]_vars => QueuesCovered'
<1> SUFFICES ASSUME MarkTypeOK, MasterAlone, QueuesCovered, [Next]_vars
             PROVE  QueuesCovered'
  OBVIOUS
<1> USE DEF protocol, Goto
<1>m. Master \in Threads
  BY DEF Threads
<1>all. ASSUME NEW u \in Threads, pc'[u] \in {"announce", "wake", "pop", "mark"}
        PROVE  QueuesCovered'
  BY <1>all DEF QueuesCovered, WillLookInto
<1>out. ASSUME pc'[Master] \in {"serial", "mutate"}
        PROVE  QueuesCovered'
  BY <1>out DEF QueuesCovered, InLoop
\* The queues stay as they are, and u covers what it covered.
<1>keep. ASSUME NEW u \in Threads, queue' = queue, InLoop' => InLoop,
                \A w \in Threads : w # u => Unmoved(w),
                \A v \in Threads : queue[v] # << >> /\ WillLookInto(u, v) => WillLookInto(u, v)'
         PROVE  QueuesCovered'
  <2> SUFFICES ASSUME InLoop, NEW v \in Threads, queue[v] # << >>
               PROVE  \E w \in Threads : WillLookInto(w, v)'
    BY <1>keep DEF QueuesCovered
  <2>1. PICK w \in Threads : WillLookInto(w, v)
    BY DEF QueuesCovered
  <2>2. CASE w = u
    BY <1>keep, <2>1, <2>2
  <2>3. CASE w # u
    <3>1. WillLookInto(w, v)'
      BY <1>keep, <2>1, <2>3, StillLooks
    <3> QED
      BY <3>1
  <2> QED
    BY <2>2, <2>3
<1>1. CASE QueueRoots
  BY <1>1, <1>m, <1>all DEF QueueRoots, MarkTypeOK
<1>2. CASE Announce
  BY <1>2, <1>m, <1>all DEF Announce, MarkTypeOK
<1>3. CASE WakeAll
  BY <1>3, <1>m, <1>all DEF WakeAll, MarkTypeOK
<1>4. CASE Barrier
  <2>1. pc[Master] = "left" /\ queue' = queue
    BY <1>4 DEF Barrier
  <2>2. \A v \in Threads : queue[v] = << >>
    BY <2>1, NobodyLooks DEF QueuesCovered, InLoop
  <2> QED
    BY <2>1, <2>2 DEF QueuesCovered
<1>5. CASE MarkFinList \/ MarkSerial \/ FinishCollection \/ Idle
  <2>1. pc'[Master] \in {"serial", "mutate"}
    BY <1>5, <1>m DEF MarkFinList, MarkSerial, FinishCollection, Idle, MarkTypeOK, vars
  <2> QED
    BY <2>1, <1>out
<1>6. CASE UNCHANGED vars
  BY <1>6 DEF vars, QueuesCovered, InLoop, WillLookInto, still_there
<1>7. ASSUME NEW u \in Threads,
             Check(u) \/ ObserveZero(u) \/ ObserveMarking(u) \/ EstimateZero(u)
      PROVE  QueuesCovered'
  <2>1. /\ pc[u] \in {"check", "observe", "estimate"} /\ UNCHANGED <<queue, hand, victim, untried>>
        /\ \A w \in Threads : w # u => pc'[w] = pc[w]
    BY <1>7 DEF Check, ObserveZero, ObserveMarking, EstimateZero, MarkTypeOK
  <2>2. InLoop' => InLoop
    BY <1>m, <2>1 DEF InLoop
  <2>3. \A v \in Threads : ~WillLookInto(u, v)
    BY <2>1 DEF WillLookInto
  <2>4. \A w \in Threads : w # u => Unmoved(w)
    BY <2>1 DEF Unmoved
  <2> QED
    BY <2>1, <2>2, <2>3, <2>4, <1>keep
<1>8. ASSUME NEW u \in Threads, Join(u) \/ Pop(u) \/ Mark(u) \/ StealWins(u)
      PROVE  QueuesCovered'
  <2>1. pc'[u] \in {"pop", "mark"}
    BY <1>8 DEF Join, Pop, Mark, StealWins, MarkTypeOK
  <2> QED
    BY <2>1, <1>all
<1>9. ASSUME NEW u \in Threads, PopNothing(u) PROVE QueuesCovered'
  <2>1. pc'[u] = "steal" /\ untried'[u] = Threads
    BY <1>9 DEF PopNothing, MarkTypeOK
  <2> QED
    BY <2>1 DEF QueuesCovered, WillLookInto
<1>10. ASSUME NEW u \in Threads, NEW v \in Threads, StealNothing(u, v) PROVE QueuesCovered'
  <2>1. /\ pc[u] = "steal" /\ UNCHANGED <<pc, queue, hand, victim>> /\ queue[v] = << >>
        /\ untried' = [untried EXCEPT ![u] = @ \ {v}]
    BY <1>10 DEF StealNothing
  <2>2. \A w \in Threads : w # u => Unmoved(w)
    BY <2>1 DEF Unmoved, MarkTypeOK
  <2>3. \A x \in Threads : queue[x] # << >> /\ WillLookInto(u, x) => WillLookInto(u, x)'
    BY <2>1 DEF WillLookInto, MarkTypeOK
  <2> QED
    BY <2>1, <2>2, <2>3, <1>keep DEF InLoop
<1>11. ASSUME NEW u \in Threads, NEW v \in Threads, StealRead(u, v) PROVE QueuesCovered'
  <2>1. /\ pc[u] = "steal" /\ UNCHANGED <<queue, untried>> /\ queue[v] # << >>
        /\ pc' = [pc EXCEPT ![u] = "claim"]
        /\ hand' = [hand EXCEPT ![u] = Head(queue[v])] /\ victim' = [victim EXCEPT ![u] = v]
    BY <1>11 DEF StealRead
  <2>2. \A w \in Threads : w # u => Unmoved(w)
    BY <2>1 DEF Unmoved, MarkTypeOK
  <2>3. \A x \in Threads : WillLookInto(u, x) => WillLookInto(u, x)'
    <3>1. pc'[u] = "claim" /\ hand'[u] = Head(queue[v]) /\ victim'[u] = v
      BY <2>1 DEF MarkTypeOK
    <3> QED
      BY <2>1, <3>1 DEF WillLookInto, still_there
  <2>4. InLoop' => InLoop
    BY <1>m, <2>1 DEF InLoop, MarkTypeOK
  <2> QED
    BY <2>1, <2>2, <2>3, <2>4, <1>keep
<1>12. ASSUME NEW u \in Threads, StealLoses(u) PROVE QueuesCovered'
  <2>1. /\ pc[u] = "claim" /\ queue' = queue /\ ~still_there(u)
        /\ pc' = [pc EXCEPT ![u] = "steal"]
        /\ hand' = [hand EXCEPT ![u] = Nothing] /\ victim' = [victim EXCEPT ![u] = Nobody]
        /\ untried' \in {untried, [untried EXCEPT ![u] = @ \ {victim[u]}]}
    BY <1>12 DEF StealLoses
  <2>2. \A w \in Threads : w # u => Unmoved(w)
    BY <2>1 DEF Unmoved, MarkTypeOK
  <2>3. \A x \in Threads : WillLookInto(u, x) => WillLookInto(u, x)'
    <3>1. pc'[u] = "steal" /\ (untried'[u] = untried[u] \/ untried'[u] = untried[u] \ {victim[u]})
      BY <2>1 DEF MarkTypeOK
    <3> QED
      BY <2>1, <3>1 DEF WillLookInto
  <2>4. InLoop' => InLoop
    BY <1>m, <2>1 DEF InLoop, MarkTypeOK
  <2> QED
    BY <2>1, <2>2, <2>3, <2>4, <1>keep
<1>13. ASSUME NEW u \in Threads, StopMarking(u) PROVE QueuesCovered'
  <2>1. /\ pc[u] = "steal" /\ UNCHANGED <<queue, hand, victim, untried>> /\ untried[u] = {}
        /\ pc' = [pc EXCEPT ![u] = "observe"]
    BY <1>13 DEF StopMarking, tried_all
  <2>2. \A w \in Threads : w # u => Unmoved(w)
    BY <2>1 DEF Unmoved, MarkTypeOK
  <2>3. \A x \in Threads : ~WillLookInto(u, x)
    BY <2>1 DEF WillLookInto
  <2>4. InLoop' => InLoop
    BY <1>m, <2>1 DEF InLoop, MarkTypeOK
  <2> QED
    BY <2>1, <2>2, <2>3, <2>4, <1>keep
<1> QED
  BY <1>1, <1>2, <1>3, <1>4, <1>5, <1>6, <1>7, <1>8, <1>9, <1>10, <1>11, <1>12, <1>13
     DEF Next, Leads, Observes, Marks

-----------------------------------------------------------------------------
(* What is marked is scanned or waits to be.                                *)

LEMMA ScanStep ==
  MarkTypeOK /\ ScannedOrWaiting /\ [Next]_vars => ScannedOrWaiting'
<1> SUFFICES ASSUME MarkTypeOK, ScannedOrWaiting, [Next]_vars
             PROVE  ScannedOrWaiting'
  OBVIOUS
<1> USE DEF protocol, Goto
<1>m. Master \in Threads
  BY DEF Threads
<1>keep. ASSUME InLoop' => InLoop, marked' = marked,
                \A x \in marked : Waiting(x) => Waiting(x)'
         PROVE  ScannedOrWaiting'
  BY <1>keep DEF ScannedOrWaiting
\* The queues stay, and a thread that does not scan moves.
<1>move. ASSUME NEW u \in Threads, pc[u] \notin {"mark", "serial", "mutate"}, marked' = marked,
                queue' = queue, \A w \in Threads : w # u => pc'[w] = pc[w] /\ hand'[w] = hand[w]
         PROVE  ScannedOrWaiting'
  <2>1. InLoop' => InLoop
    BY <1>m, <1>move DEF InLoop
  <2>2. \A x \in marked : Waiting(x) => Waiting(x)'
    BY <1>move DEF Waiting
  <2> QED
    BY <1>move, <2>1, <2>2, <1>keep
<1>1. CASE QueueRoots
  <2>1. PICK dest \in [Roots -> Threads] :
          queue' = [v \in Threads |-> SetToSeq({x \in Roots : dest[x] = v})]
    BY <1>1 DEF QueueRoots
  <2>2. marked' = Roots
    BY <1>1 DEF QueueRoots
  <2>3. \A x \in Roots : x \in ToSet(queue'[dest[x]])
    <3> TAKE x \in Roots
    <3>1. {y \in Roots : dest[y] = dest[x]} \subseteq Objects
          /\ IsFiniteSet({y \in Roots : dest[y] = dest[x]})
      BY MarkingAssumption, FS_Subset
    <3>2. ToSet(SetToSeq({y \in Roots : dest[y] = dest[x]})) = {y \in Roots : dest[y] = dest[x]}
      BY <3>1, SetToSeqElements
    <3>3. queue'[dest[x]] = SetToSeq({y \in Roots : dest[y] = dest[x]})
      BY <2>1
    <3> QED
      BY <3>2, <3>3
  <2>4. \A x \in Roots : Waiting(x)'
    BY <2>3 DEF Waiting
  <2> QED
    BY <2>2, <2>4 DEF ScannedOrWaiting
<1>2. CASE Announce \/ WakeAll \/ Barrier
  <2>1. CASE Announce
    BY <2>1, <1>m, <1>move DEF Announce, MarkTypeOK
  <2>2. CASE WakeAll
    BY <2>2, <1>m, <1>move DEF WakeAll, MarkTypeOK
  <2>3. CASE Barrier
    BY <2>3, <1>m, <1>move DEF Barrier, MarkTypeOK
  <2> QED
    BY <1>2, <2>1, <2>2, <2>3
<1>3. CASE MarkFinList \/ MarkSerial \/ FinishCollection \/ Idle
  <2>1. pc'[Master] \in {"serial", "mutate"}
    BY <1>3, <1>m DEF MarkFinList, MarkSerial, FinishCollection, Idle, MarkTypeOK, vars
  <2> QED
    BY <2>1 DEF ScannedOrWaiting, InLoop
<1>4. CASE UNCHANGED vars
  BY <1>4 DEF vars, ScannedOrWaiting, InLoop, Waiting
<1>5. ASSUME NEW u \in Threads,
             Check(u) \/ ObserveZero(u) \/ ObserveMarking(u) \/ Join(u) \/ EstimateZero(u)
      PROVE  ScannedOrWaiting'
  <2>1. /\ pc[u] \in {"check", "observe", "estimate"} /\ UNCHANGED <<queue, hand, marked>>
        /\ \A w \in Threads : w # u => pc'[w] = pc[w]
    BY <1>5 DEF Check, ObserveZero, ObserveMarking, Join, EstimateZero, MarkTypeOK
  <2> QED
    BY <2>1, <1>move
<1>6. ASSUME NEW u \in Threads, PopNothing(u) \/ StealLoses(u) \/ StopMarking(u)
      PROVE  ScannedOrWaiting'
  <2>1. /\ pc[u] \in {"pop", "steal", "claim"} /\ UNCHANGED <<queue, marked>>
        /\ \A w \in Threads : w # u => pc'[w] = pc[w] /\ hand'[w] = hand[w]
    BY <1>6 DEF PopNothing, StealLoses, StopMarking, MarkTypeOK
  <2> QED
    BY <2>1, <1>move
<1>7. ASSUME NEW u \in Threads, NEW v \in Threads, StealNothing(u, v) \/ StealRead(u, v)
      PROVE  ScannedOrWaiting'
  <2>1. /\ pc[u] = "steal" /\ UNCHANGED <<queue, marked>>
        /\ \A w \in Threads : w # u => pc'[w] = pc[w] /\ hand'[w] = hand[w]
    BY <1>7 DEF StealNothing, StealRead, MarkTypeOK
  <2> QED
    BY <2>1, <1>move
<1>8. ASSUME NEW u \in Threads, Pop(u) PROVE ScannedOrWaiting'
  <2>1. /\ pc[u] = "pop" /\ queue[u] # << >> /\ marked' = marked
        /\ hand'[u] = Last(queue[u]) /\ pc'[u] = "mark" /\ queue'[u] = Front(queue[u])
        /\ \A w \in Threads : w # u => /\ pc'[w] = pc[w] /\ hand'[w] = hand[w]
                                       /\ queue'[w] = queue[w]
    BY <1>8 DEF Pop, MarkTypeOK
  <2>2. ToSet(queue[u]) = ToSet(queue'[u]) \cup {hand'[u]}
    BY <2>1, FrontElements DEF MarkTypeOK
  <2>3. InLoop' => InLoop
    BY <1>m, <2>1 DEF InLoop
  <2>4. \A x \in marked : Waiting(x) => Waiting(x)'
    BY <2>1, <2>2 DEF Waiting
  <2> QED
    BY <2>1, <2>3, <2>4, <1>keep
<1>9. ASSUME NEW u \in Threads, StealWins(u) PROVE ScannedOrWaiting'
  <2> DEFINE v == victim[u]
  <2>1. /\ pc[u] = "claim" /\ v \in Threads /\ queue[v] # << >> /\ Head(queue[v]) = hand[u]
        /\ marked' = marked /\ hand' = hand /\ pc'[u] = "mark" /\ queue'[v] = Tail(queue[v])
        /\ \A w \in Threads : w # u => pc'[w] = pc[w]
        /\ \A w \in Threads : w # v => queue'[w] = queue[w]
    BY <1>9 DEF StealWins, still_there, MarkTypeOK
  <2>2. ToSet(queue[v]) = ToSet(queue'[v]) \cup {hand[u]}
    BY <2>1, TailElements DEF MarkTypeOK
  <2>3. InLoop' => InLoop
    BY <1>m, <2>1 DEF InLoop
  <2> HIDE DEF v
  <2>4. \A x \in marked : Waiting(x) => Waiting(x)'
    BY <2>1, <2>2 DEF Waiting
  <2> QED
    BY <2>1, <2>3, <2>4, <1>keep
<1>10. ASSUME NEW u \in Threads, Mark(u) PROVE ScannedOrWaiting'
  <2> DEFINE R == Refs[hand[u]]
  <2>1. /\ pc[u] = "mark" /\ marked' = marked \cup R /\ pc'[u] = "pop"
        /\ queue'[u] = queue[u] \o queued(R)
        /\ \A w \in Threads : w # u => /\ pc'[w] = pc[w] /\ hand'[w] = hand[w]
                                       /\ queue'[w] = queue[w]
        /\ R \in SUBSET Objects
    <3>1. hand[u] \in Objects
      BY <1>10 DEF Mark, MarkTypeOK
    <3>2. R \in SUBSET Objects
      BY <3>1, MarkingAssumption
    <3> HIDE DEF R
    <3>3. /\ pc[u] = "mark" /\ queue' = [queue EXCEPT ![u] = @ \o queued(R)] /\ marked' = marked \cup R
          /\ hand' = [hand EXCEPT ![u] = Nothing] /\ Goto(u, "pop")
      BY <1>10 DEF Mark, R
    <3> QED
      BY <3>2, <3>3 DEF MarkTypeOK, Goto
  <2>2. ToSet(queue'[u]) = ToSet(queue[u]) \cup (R \ marked)
    <3>1. queued(R) \in Seq(Objects) /\ ToSet(queued(R)) = R \ marked
      BY <2>1, QueuedElements
    <3>2. queue[u] \in Seq(Objects)
      BY DEF MarkTypeOK
    <3>3. ToSet(queue[u] \o queued(R)) = ToSet(queue[u]) \cup ToSet(queued(R))
      BY <3>1, <3>2, AppendedElements
    <3> HIDE DEF R
    <3> QED
      BY <2>1, <3>1, <3>3
  <2>3. InLoop' => InLoop
    BY <1>m, <2>1 DEF InLoop
  <2>4. \A x : Waiting(x) => Waiting(x)' \/ x = hand[u]
    BY <2>1, <2>2 DEF Waiting
  <2>5. \A x \in R \ marked : Waiting(x)'
    BY <2>2 DEF Waiting
  <2>6. SUFFICES ASSUME InLoop PROVE \A x \in marked' : Refs[x] \subseteq marked' \/ Waiting(x)'
    BY <2>1, <2>3 DEF ScannedOrWaiting
  <2>7. \A x \in marked : Refs[x] \subseteq marked' \/ Waiting(x)'
    BY <2>1, <2>4, <2>6 DEF ScannedOrWaiting
  <2> QED
    BY <2>1, <2>5, <2>7
<1> QED
  BY <1>1, <1>2, <1>3, <1>4, <1>5, <1>6, <1>7, <1>8, <1>9, <1>10
     DEF Next, Leads, Observes, Marks

\* The invariant of the marking: the count and the lock are right, outside the mark
\* loop nobody marks, each queue that is not empty has somebody who will look into it,
\* and what is marked is scanned or waits to be.
LEMMA MarkInvariant == Spec => []MarkInv
<1>1. Init => MarkInv
  BY MarkInitInv
<1>2. MarkInv /\ [Next]_vars => MarkInv'
  <2> SUFFICES ASSUME MarkInv, [Next]_vars PROVE MarkInv'
    OBVIOUS
  <2> USE DEF MarkInv
  <2>1. MarkTypeOK'
    BY MarkTypeStep
  <2>2. CountRight' /\ LockRight' /\ MasterAlone'
    BY ProtocolStep
  <2>3. QueuesCovered' /\ ScannedOrWaiting'
    BY CoverStep, ScanStep
  <2> QED
    BY <2>1, <2>2, <2>3
<1> QED
  BY <1>1, <1>2, PTL DEF Spec

LEMMA DoneWhenZero == MarkInv => ZeroMeansDone
<1> SUFFICES ASSUME MarkInv PROVE ZeroMeansDone
  OBVIOUS
<1> USE DEF MarkInv
<1>1. ASSUME pc[Master] \in {"left", "alone"}
      PROVE  (\A t \in Threads : queue[t] = << >>) /\ Reachable(Roots) \subseteq marked
  <2>1. InLoop /\ Counted = {}
    BY <1>1 DEF InLoop, MasterAlone
  <2>2. \A t \in Threads : queue[t] = << >>
    BY <1>1, <2>1, NobodyLooks DEF QueuesCovered
  <2>3. \A x : ~Waiting(x)
    BY <2>1, <2>2 DEF Waiting, Counted, MarkerSteps, ToSet
  <2>4. Roots \subseteq marked /\ \A x \in marked : Refs[x] \subseteq marked
    BY <2>1, <2>3 DEF ScannedOrWaiting
  <2>5. Reachable(Roots) \subseteq marked
    BY <2>4 DEF Reachable, MarkTypeOK
  <2> QED
    BY <2>2, <2>5
<1>2. ASSUME pc[Master] \in {"alone", "serial", "mutate", "announce"}
      PROVE  \A t \in MarkThreads : ~Marking(t)
  <2>1. Counted = {}
    BY <1>2 DEF MasterAlone
  <2> QED
    BY <2>1 DEF Counted, MarkerSteps, Marking, Threads
<1> QED
  BY <1>1, <1>2 DEF ZeroMeansDone

\* When the master leaves the mark loop, whatever the mark threads did in whatever order,
\* the queues are empty and all that the roots lead to is marked; and from then on until
\* the next collection no mark thread marks (gc_should_mark, gc_mark_loop_barrier).
THEOREM MarkingIsComplete == Spec => []ZeroMeansDone
BY MarkInvariant, DoneWhenZero, PTL

-----------------------------------------------------------------------------
(* The generations.                                                         *)
(*                                                                           *)
(* Between collections: who carries MARKED is remembered; an old marked     *)
(* object that is not refers to marked objects only, so that nobody has to  *)
(* scan it; and there is a set of objects, closed under references weak or  *)
(* not, that has all the program may get at and all that is marked, and     *)
(* nothing that was freed.  A collection makes that set anew: it is what is *)
(* marked when the sweep begins.                                            *)

FREE == Generations!FREE
CLEAN == Generations!CLEAN
MARKED == Generations!MARKED
OLD == Generations!OLD
OLD_MARKED == Generations!OLD_MARKED

MarkBits == {MARKED, OLD_MARKED}
HasMark(h, x) == h.bits[x] \in MarkBits

HeapShape(h) ==
  /\ h = [bits |-> h.bits, ref |-> h.ref, remset |-> h.remset, weak_refs |-> h.weak_refs,
          finalizers |-> h.finalizers, finalizer_list_marked |-> h.finalizer_list_marked,
          to_finalize |-> h.to_finalize, big_objects_marked |-> h.big_objects_marked,
          has_marked |-> h.has_marked, has_young |-> h.has_young,
          nold |-> h.nold, prev_nold |-> h.prev_nold, prev_sweep_full |-> h.prev_sweep_full]
  /\ h.bits \in [HeapObjects -> {FREE, CLEAN, MARKED, OLD, OLD_MARKED}]
  /\ h.ref \in [HeapObjects -> HeapObjects \cup {Nothing}]
  /\ h.remset \subseteq HeapObjects /\ h.weak_refs \subseteq HeapObjects \cap WeakRefs
  /\ h.prev_sweep_full \in BOOLEAN

\* Nothing of L was freed, nothing leads out of it, and its weak references are known.
Alive(h, L) ==
  /\ L \subseteq HeapObjects
  /\ h.finalizers \cup h.finalizer_list_marked \cup h.to_finalize \subseteq L
  /\ \A x \in HeapObjects : HasMark(h, x) => x \in L
  /\ \A x \in L : h.bits[x] # FREE /\ h.ref[x] \in L \cup {Nothing}
  /\ L \cap WeakRefs \subseteq h.weak_refs

\* The pages say where young and where marked objects are, and the list of the old
\* big objects has marked ones only.
PagesRight(h) ==
  /\ \A x \in HeapObjects \ Big : h.bits[x] = CLEAN => PageOf[x] \in h.has_young
  /\ \A x \in HeapObjects \ Big : HasMark(h, x) => PageOf[x] \in h.has_marked
  /\ \A x \in h.big_objects_marked : x \in HeapObjects \cap Big /\ HasMark(h, x)

\* The finalizers on the list of the old objects are for old objects.
FinalizersOld(h) ==
  \A x \in h.finalizer_list_marked : h.bits[x] # CLEAN /\ (h.prev_sweep_full \/ HasMark(h, x))

\* What a collection finds.
Between(h, R, L) ==
  /\ HeapShape(h) /\ Alive(h, L) /\ PagesRight(h) /\ FinalizersOld(h)
  /\ R \subseteq L
  /\ \A x \in HeapObjects : h.bits[x] = MARKED <=> x \in h.remset
  /\ \A x \in HeapObjects \ WeakRefs :
       h.bits[x] = OLD_MARKED /\ h.ref[x] # Nothing => HasMark(h, h.ref[x])

GenerationsInv == \E L \in SUBSET HeapObjects : Between(heap, roots, L)

\* While a collection marks.
Amid(h, L) ==
  /\ HeapShape(h) /\ Alive(h, L) /\ PagesRight(h)
  /\ \A x \in h.finalizer_list_marked :
       h.bits[x] # CLEAN /\ h.bits[x] # MARKED /\ (h.prev_sweep_full \/ h.bits[x] = OLD_MARKED)
  /\ \A x \in HeapObjects : h.bits[x] = MARKED =>
       IF x \in Big THEN x \notin h.big_objects_marked ELSE PageOf[x] \in h.has_young
  /\ \A x \in h.remset : h.bits[x] = OLD_MARKED
  /\ \A x \in HeapObjects \ WeakRefs :
       HasMark(h, x) /\ h.ref[x] # Nothing =>
         /\ HasMark(h, h.ref[x])
         /\ h.bits[x] = OLD_MARKED /\ h.bits[h.ref[x]] = MARKED => x \in h.remset

GenerationsBits == {FREE, CLEAN, MARKED, OLD, OLD_MARKED}

LEMMA BitsApart ==
  /\ FREE # CLEAN /\ FREE # MARKED /\ FREE # OLD /\ FREE # OLD_MARKED
  /\ CLEAN # MARKED /\ CLEAN # OLD /\ CLEAN # OLD_MARKED
  /\ MARKED # OLD /\ MARKED # OLD_MARKED /\ OLD # OLD_MARKED
  /\ Generations!FREE = FREE /\ Generations!CLEAN = CLEAN /\ Generations!MARKED = MARKED
  /\ Generations!OLD = OLD /\ Generations!OLD_MARKED = OLD_MARKED
  /\ \A bits : Generations!gc_marked(bits) <=> bits \in MarkBits
  /\ \A bits : Generations!gc_old(bits) <=> bits \in {OLD, OLD_MARKED}
BY DEF FREE, CLEAN, MARKED, OLD, OLD_MARKED, MarkBits, Generations!FREE, Generations!CLEAN,
   Generations!MARKED, Generations!OLD, Generations!OLD_MARKED, Generations!gc_marked,
   Generations!gc_old

\* What a step leaves alone, named by the fields that it may change.
SameRefs(h, g) == g.ref = h.ref /\ g.weak_refs = h.weak_refs
SameLists(h, g) ==
  /\ g.finalizers = h.finalizers /\ g.finalizer_list_marked = h.finalizer_list_marked
  /\ g.to_finalize = h.to_finalize /\ g.prev_sweep_full = h.prev_sweep_full
SamePages(h, g) ==
  /\ g.big_objects_marked = h.big_objects_marked /\ g.has_marked = h.has_marked
  /\ g.has_young = h.has_young
SameBits(h, g) == g.bits = h.bits /\ g.remset = h.remset
SameCounts(h, g) == g.nold = h.nold /\ g.prev_nold = h.prev_nold

LEMMA GenerationsInitInv == Generations!Init => GenerationsInv
<1> SUFFICES ASSUME Generations!Init PROVE GenerationsInv
  OBVIOUS
<1> USE BitsApart
<1>1. /\ roots = {} /\ heap.bits = [x \in HeapObjects |-> FREE]
      /\ heap.ref = [x \in HeapObjects |-> Nothing]
      /\ heap.remset = {} /\ heap.weak_refs = {} /\ heap.finalizers = {}
      /\ heap.finalizer_list_marked = {} /\ heap.to_finalize = {}
      /\ heap.big_objects_marked = {} /\ heap.prev_sweep_full = TRUE
  BY DEF Generations!Init
<1>2. HeapShape(heap)
  <2>1. heap = [bits |-> heap.bits, ref |-> heap.ref, remset |-> heap.remset,
                weak_refs |-> heap.weak_refs, finalizers |-> heap.finalizers,
                finalizer_list_marked |-> heap.finalizer_list_marked,
                to_finalize |-> heap.to_finalize, big_objects_marked |-> heap.big_objects_marked,
                has_marked |-> heap.has_marked, has_young |-> heap.has_young,
                nold |-> heap.nold, prev_nold |-> heap.prev_nold,
                prev_sweep_full |-> heap.prev_sweep_full]
    BY DEF Generations!Init
  <2> QED
    BY <1>1, <2>1 DEF HeapShape
<1>3. Alive(heap, {}) /\ PagesRight(heap) /\ FinalizersOld(heap)
  BY <1>1 DEF Alive, PagesRight, FinalizersOld, HasMark, MarkBits
<1>4. \A x \in HeapObjects : heap.bits[x] = FREE /\ heap.bits[x] # MARKED /\ heap.bits[x] # OLD_MARKED
  BY <1>1
<1>5. Between(heap, roots, {})
  BY <1>1, <1>2, <1>3, <1>4 DEF Between
<1> QED
  BY <1>5 DEF GenerationsInv

-----------------------------------------------------------------------------
(* The program.                                                             *)

LEMMA AllocateInv ==
  ASSUME NEW L \in SUBSET HeapObjects, Between(heap, roots, L),
         NEW x \in HeapObjects, NEW v \in HeapObjects \cup {Nothing}, Generations!Allocate(x, v)
  PROVE  GenerationsInv'
<1> USE BitsApart DEF MarkBits, HasMark
<1> DEFINE h == heap
           g == heap'
<1>1. /\ h.bits[x] = FREE /\ v \in roots \cup {Nothing} /\ roots' = roots \cup {x}
      /\ g = [h EXCEPT !.bits[x] = CLEAN, !.ref[x] = v,
                       !.has_young = IF x \in Big THEN @ ELSE @ \cup {PageOf[x]},
                       !.weak_refs = IF x \in WeakRefs THEN @ \cup {x} ELSE @]
  BY DEF Generations!Allocate
<1>2. HeapShape(h)
  BY DEF Between
<1>3. /\ g.bits = [h.bits EXCEPT ![x] = CLEAN] /\ g.ref = [h.ref EXCEPT ![x] = v]
      /\ g.remset = h.remset
      /\ g.weak_refs = IF x \in WeakRefs THEN h.weak_refs \cup {x} ELSE h.weak_refs
      /\ SameLists(h, g)
      /\ g.big_objects_marked = h.big_objects_marked /\ g.has_marked = h.has_marked
      /\ g.has_young = IF x \in Big THEN h.has_young ELSE h.has_young \cup {PageOf[x]}
      /\ g = [bits |-> g.bits, ref |-> g.ref, remset |-> g.remset, weak_refs |-> g.weak_refs,
              finalizers |-> g.finalizers, finalizer_list_marked |-> g.finalizer_list_marked,
              to_finalize |-> g.to_finalize, big_objects_marked |-> g.big_objects_marked,
              has_marked |-> g.has_marked, has_young |-> g.has_young,
              nold |-> g.nold, prev_nold |-> g.prev_nold, prev_sweep_full |-> g.prev_sweep_full]
  BY <1>1, <1>2 DEF HeapShape, SameLists
<1> HIDE DEF h, g
<1>4. HeapShape(g)
  BY <1>2, <1>3 DEF HeapShape, SameLists
<1>5. /\ g.bits[x] = CLEAN /\ \A y \in HeapObjects : y # x => g.bits[y] = h.bits[y]
      /\ g.ref[x] = v /\ \A y \in HeapObjects : y # x => g.ref[y] = h.ref[y]
  BY <1>2, <1>3 DEF HeapShape
<1>6. Between(h, roots, L)
  BY DEF h
<1>7. Alive(g, L \cup {x})
  BY <1>1, <1>3, <1>5, <1>6 DEF Between, Alive, SameLists
<1>8. PagesRight(g) /\ FinalizersOld(g)
  BY <1>1, <1>3, <1>5, <1>6 DEF Between, PagesRight, FinalizersOld, SameLists, Alive
<1>9. \A y \in HeapObjects : g.bits[y] = MARKED <=> y \in g.remset
  BY <1>1, <1>3, <1>5, <1>6 DEF Between
<1>10. \A y \in HeapObjects \ WeakRefs :
         g.bits[y] = OLD_MARKED /\ g.ref[y] # Nothing => HasMark(g, g.ref[y])
  BY <1>1, <1>2, <1>3, <1>5, <1>6 DEF Between, HeapShape
<1>11. Between(g, roots', L \cup {x})
  BY <1>1, <1>4, <1>6, <1>7, <1>8, <1>9, <1>10 DEF Between
<1> QED
  BY <1>11 DEF GenerationsInv, g

LEMMA StoreInv ==
  ASSUME NEW L \in SUBSET HeapObjects, Between(heap, roots, L),
         NEW x \in HeapObjects, NEW v \in HeapObjects, Generations!Store(x, v)
  PROVE  GenerationsInv'
<1> USE BitsApart DEF MarkBits, HasMark
<1> DEFINE h == heap
           g == heap'
           stop == h.bits[x] = OLD_MARKED /\ ~HasMark(h, v)
<1>0. Generations!barrier(x, v) <=> stop
  BY DEF Generations!barrier
<1>1. /\ x \in roots \ WeakRefs /\ v \in roots /\ roots' = roots
      /\ g = [h EXCEPT !.ref[x] = v, !.bits[x] = IF stop THEN MARKED ELSE @,
                       !.remset = IF stop THEN @ \cup {x} ELSE @]
  BY <1>0 DEF Generations!Store
<1>2. HeapShape(h)
  BY DEF Between
<1> HIDE DEF stop
<1>3. /\ g.bits = [h.bits EXCEPT ![x] = IF stop THEN MARKED ELSE @]
      /\ g.ref = [h.ref EXCEPT ![x] = v]
      /\ g.remset = IF stop THEN h.remset \cup {x} ELSE h.remset
      /\ g.weak_refs = h.weak_refs
      /\ SameLists(h, g) /\ SamePages(h, g)
      /\ g = [bits |-> g.bits, ref |-> g.ref, remset |-> g.remset, weak_refs |-> g.weak_refs,
              finalizers |-> g.finalizers, finalizer_list_marked |-> g.finalizer_list_marked,
              to_finalize |-> g.to_finalize, big_objects_marked |-> g.big_objects_marked,
              has_marked |-> g.has_marked, has_young |-> g.has_young,
              nold |-> g.nold, prev_nold |-> g.prev_nold, prev_sweep_full |-> g.prev_sweep_full]
  BY <1>1, <1>2 DEF HeapShape, SameLists, SamePages
<1> HIDE DEF h, g
<1>4. HeapShape(g)
  BY <1>2, <1>3 DEF HeapShape, SameLists
<1>5. /\ g.bits[x] = (IF stop THEN MARKED ELSE h.bits[x])
      /\ \A y \in HeapObjects : y # x => g.bits[y] = h.bits[y]
      /\ g.ref[x] = v /\ \A y \in HeapObjects : y # x => g.ref[y] = h.ref[y]
      /\ stop => h.bits[x] = OLD_MARKED
      /\ ~stop => h.bits[x] # OLD_MARKED \/ HasMark(h, v)
  BY <1>2, <1>3 DEF HeapShape, stop
<1>6. Between(h, roots, L)
  BY DEF h
<1>7. \A y \in HeapObjects : (HasMark(g, y) <=> HasMark(h, y)) /\ (g.bits[y] = CLEAN <=> h.bits[y] = CLEAN)
                             /\ (g.bits[y] = FREE <=> h.bits[y] = FREE)
  BY <1>5
<1>8. Alive(g, L)
  BY <1>1, <1>3, <1>5, <1>6, <1>7 DEF Between, Alive, SameLists
<1>9. PagesRight(g) /\ FinalizersOld(g)
  BY <1>3, <1>6, <1>7 DEF Between, PagesRight, FinalizersOld, SameLists, SamePages, Alive
<1>10. \A y \in HeapObjects : g.bits[y] = MARKED <=> y \in g.remset
  BY <1>3, <1>5, <1>6 DEF Between
<1>11. \A y \in HeapObjects \ WeakRefs :
         g.bits[y] = OLD_MARKED /\ g.ref[y] # Nothing => HasMark(g, g.ref[y])
  <2> SUFFICES ASSUME NEW y \in HeapObjects \ WeakRefs, g.bits[y] = OLD_MARKED, g.ref[y] # Nothing
               PROVE  HasMark(g, g.ref[y])
    OBVIOUS
  <2>1. CASE y = x
    BY <1>5, <1>7, <2>1
  <2>2. CASE y # x
    <3>1. g.ref[y] = h.ref[y] /\ h.bits[y] = OLD_MARKED /\ h.ref[y] \in HeapObjects
      BY <1>2, <1>5, <2>2 DEF HeapShape
    <3> QED
      BY <1>6, <1>7, <3>1 DEF Between
  <2> QED
    BY <2>1, <2>2
<1>12. Between(g, roots', L)
  BY <1>1, <1>4, <1>6, <1>8, <1>9, <1>10, <1>11 DEF Between
<1> QED
  BY <1>12 DEF GenerationsInv, g

LEMMA OtherStepsInv ==
  ASSUME NEW L \in SUBSET HeapObjects, Between(heap, roots, L), NEW x \in HeapObjects,
         \/ Generations!Load(x) \/ Generations!Forget(x)
         \/ Generations!AddFinalizer(x) \/ Generations!RunFinalizer(x)
  PROVE  GenerationsInv'
<1>1. CASE Generations!Load(x)
  <2>1. /\ x \in roots /\ heap.ref[x] # Nothing /\ roots' = roots \cup {heap.ref[x]} /\ heap' = heap
    BY <1>1 DEF Generations!Load
  <2>2. roots' \subseteq L
    BY <2>1 DEF Between, Alive
  <2>3. Between(heap', roots', L)
    BY <2>1, <2>2 DEF Between
  <2> QED
    BY <2>3 DEF GenerationsInv
<1>2. CASE Generations!Forget(x)
  <2>1. roots' \subseteq L /\ heap' = heap
    BY <1>2 DEF Generations!Forget, Between
  <2>2. Between(heap', roots', L)
    BY <2>1 DEF Between
  <2> QED
    BY <2>2 DEF GenerationsInv
<1>3. CASE Generations!AddFinalizer(x) \/ Generations!RunFinalizer(x)
  <2> DEFINE h == heap
             g == heap'
  <2>0. HeapShape(h)
    BY DEF Between
  <2>1. /\ roots' \subseteq L
        /\ \/ g = [h EXCEPT !.finalizers = @ \cup {x}] /\ x \in roots
           \/ g = [h EXCEPT !.to_finalize = @ \ {x}]
    BY <1>3 DEF Generations!AddFinalizer, Generations!RunFinalizer, Between, Alive
  <2>2. /\ SameBits(h, g) /\ SameRefs(h, g) /\ SamePages(h, g)
        /\ g.finalizer_list_marked = h.finalizer_list_marked
        /\ g.prev_sweep_full = h.prev_sweep_full
        /\ g = [bits |-> g.bits, ref |-> g.ref, remset |-> g.remset, weak_refs |-> g.weak_refs,
              finalizers |-> g.finalizers, finalizer_list_marked |-> g.finalizer_list_marked,
              to_finalize |-> g.to_finalize, big_objects_marked |-> g.big_objects_marked,
              has_marked |-> g.has_marked, has_young |-> g.has_young,
              nold |-> g.nold, prev_nold |-> g.prev_nold, prev_sweep_full |-> g.prev_sweep_full]
    BY <2>0, <2>1 DEF HeapShape, SameBits, SameRefs, SamePages
  <2>3. g.finalizers \subseteq L /\ g.to_finalize \subseteq L
    BY <2>0, <2>1 DEF HeapShape, Between, Alive
  <2>4. Between(h, roots, L)
    OBVIOUS
  <2> HIDE DEF g, h
  <2>5. HeapShape(g)
    BY <2>0, <2>2 DEF HeapShape, SameBits, SameRefs
  <2>6. Alive(g, L) /\ PagesRight(g) /\ FinalizersOld(g)
    BY <2>2, <2>3, <2>4 DEF Between, Alive, PagesRight, FinalizersOld, SameBits, SameRefs, SamePages, HasMark
  <2>7. Between(g, roots', L)
    BY <2>1, <2>2, <2>4, <2>5, <2>6 DEF Between, SameBits, SameRefs, HasMark
  <2> QED
    BY <2>7 DEF GenerationsInv, g
<1> QED
  BY <1>1, <1>2, <1>3

-----------------------------------------------------------------------------
(* Marking.                                                                 *)

\* What is claimed: what S leads to through objects that had no mark.
LEMMA ClaimedIs ==
  ASSUME NEW h, HeapShape(h), NEW S \in SUBSET HeapObjects, NEW C, C = Generations!Claimed(h, S)
  PROVE  /\ C \subseteq HeapObjects
         /\ \A x \in C : ~HasMark(h, x)
         /\ \A x \in S : HasMark(h, x) \/ x \in C
         /\ \A x \in C \ WeakRefs :
              h.ref[x] # Nothing => HasMark(h, h.ref[x]) \/ h.ref[x] \in C
         /\ \A L \in SUBSET HeapObjects :
              S \subseteq L /\ (\A x \in L \ WeakRefs : h.ref[x] \in L \cup {Nothing}) => C \subseteq L
<1> USE DEF HasMark
<1> DEFINE Shut(D) == Generations!Unmarked(h, S \cup Generations!Children(h, D)) \subseteq D
<1>1. C = {x \in HeapObjects : \A D \in SUBSET HeapObjects : Shut(D) => x \in D}
  BY DEF Generations!Claimed
<1>2. \A T : Generations!Unmarked(h, T) = {x \in T : ~HasMark(h, x)}
  BY BitsApart DEF Generations!Unmarked
<1>3. \A D : Generations!Children(h, D) = {h.ref[x] : x \in D \ WeakRefs} \ {Nothing}
  BY DEF Generations!Children
<1>4. \A x \in HeapObjects : h.ref[x] \in HeapObjects \cup {Nothing}
  BY DEF HeapShape
<1>5. C \subseteq HeapObjects
  BY <1>1
<1>6. Shut(C)
  <2> SUFFICES ASSUME NEW x \in Generations!Unmarked(h, S \cup Generations!Children(h, C)) PROVE x \in C
    OBVIOUS
  <2>1. x \in HeapObjects /\ ~HasMark(h, x)
    BY <1>2, <1>3, <1>4, <1>5
  <2>2. ASSUME NEW D \in SUBSET HeapObjects, Shut(D) PROVE x \in D
    <3>1. C \subseteq D
      BY <1>1, <2>2
    <3>2. x \in S \cup Generations!Children(h, D)
      BY <1>2, <1>3, <3>1
    <3>3. x \in Generations!Unmarked(h, S \cup Generations!Children(h, D))
      BY <1>2, <2>1, <3>2
    <3> QED
      BY <2>2, <3>3
  <2> HIDE DEF Shut
  <2> QED
    BY <1>1, <2>1, <2>2
<1>7. \A x \in C : ~HasMark(h, x)
  <2> DEFINE D == {x \in HeapObjects : ~HasMark(h, x)}
  <2>1. Shut(D)
    BY <1>2, <1>3, <1>4
  <2> HIDE DEF Shut
  <2>2. C \subseteq D
    BY <1>1, <2>1
  <2> QED
    BY <2>2
<1>8. \A x \in S : HasMark(h, x) \/ x \in C
  BY <1>2, <1>6
<1>9. ASSUME NEW x \in C \ WeakRefs, h.ref[x] # Nothing
      PROVE  HasMark(h, h.ref[x]) \/ h.ref[x] \in C
  <2>1. h.ref[x] \in Generations!Children(h, C)
    BY <1>3, <1>9
  <2> QED
    BY <1>2, <1>6, <2>1
<1>10. ASSUME NEW L \in SUBSET HeapObjects, S \subseteq L,
              \A x \in L \ WeakRefs : h.ref[x] \in L \cup {Nothing}
       PROVE  C \subseteq L
  <2>1. Shut(L)
    BY <1>2, <1>3, <1>10
  <2> HIDE DEF Shut
  <2> QED
    BY <1>1, <2>1
<1> QED
  BY <1>5, <1>7, <1>8, <1>9, <1>10

RecordOf(g) ==
  g = [bits |-> g.bits, ref |-> g.ref, remset |-> g.remset, weak_refs |-> g.weak_refs,
       finalizers |-> g.finalizers, finalizer_list_marked |-> g.finalizer_list_marked,
       to_finalize |-> g.to_finalize, big_objects_marked |-> g.big_objects_marked,
       has_marked |-> g.has_marked, has_young |-> g.has_young,
       nold |-> g.nold, prev_nold |-> g.prev_nold, prev_sweep_full |-> g.prev_sweep_full]

\* The old objects that refer to young ones, whichever were marked.
Refers(h, x) ==
  /\ h.ref[x] # Nothing /\ x \notin WeakRefs
  /\ h.bits[x] \in {OLD, OLD_MARKED} /\ h.bits[h.ref[x]] \notin {OLD, OLD_MARKED}

LEMMA RememberedIs ==
  ASSUME NEW h, NEW S
  PROVE  Generations!remembered(h, S) = {x \in S : Refers(h, x)}
<1>1. \A x : Generations!Children(h, {x}) = IF x \in WeakRefs \/ h.ref[x] = Nothing THEN {} ELSE {h.ref[x]}
  BY DEF Generations!Children
<1>2. \A x : Generations!refers_to_young(h, x) <=>
               x \notin WeakRefs /\ h.ref[x] # Nothing /\ h.bits[h.ref[x]] \notin {OLD, OLD_MARKED}
  <2> TAKE x
  <2>1. CASE x \in WeakRefs \/ h.ref[x] = Nothing
    BY <1>1, <2>1 DEF Generations!refers_to_young
  <2>2. CASE ~(x \in WeakRefs \/ h.ref[x] = Nothing)
    <3>1. Generations!Children(h, {x}) = {h.ref[x]}
      BY <1>1, <2>2
    <3>2. Generations!gc_old(h.bits[h.ref[x]]) <=> h.bits[h.ref[x]] \in {OLD, OLD_MARKED}
      BY BitsApart
    <3> QED
      BY <2>2, <3>1, <3>2 DEF Generations!refers_to_young
  <2> QED
    BY <2>1, <2>2
<1> QED
  BY <1>2, BitsApart DEF Generations!remembered, Refers

\* The fields after the marking from the roots, where p is the heap whose remembered
\* objects have taken their disguise off, and C is what was claimed.
MarkedFrom(h, m, p, C) ==
  /\ RecordOf(p) /\ SameRefs(h, p) /\ SameLists(h, p) /\ SamePages(h, p) /\ p.remset = {}
  /\ p.bits = [x \in HeapObjects |-> IF x \in h.remset THEN OLD_MARKED ELSE h.bits[x]]
  /\ RecordOf(m) /\ SameRefs(h, m) /\ SameLists(h, m) /\ m.has_young = h.has_young
  /\ m.bits = [x \in HeapObjects |->
                 IF x \in C THEN IF p.bits[x] \in {OLD, OLD_MARKED} THEN OLD_MARKED ELSE MARKED
                 ELSE p.bits[x]]
  /\ m.remset = {x \in C \cup h.remset : Refers(p, x)}
  /\ m.has_marked = h.has_marked \cup {PageOf[x] : x \in C \ Big}
  /\ m.big_objects_marked =
       h.big_objects_marked \cup {x \in C \cap Big : p.bits[x] \in {OLD, OLD_MARKED}}
  /\ m.prev_nold = h.prev_nold
  /\ m.nold = [q \in Generations!Pages |->
                 h.nold[q] + Generations!cells({x \in C : p.bits[x] \in {OLD, OLD_MARKED}}, q)]

LEMMA MarkedFields ==
  ASSUME NEW h, HeapShape(h), NEW R, NEW m, m = Generations!MarkRoots(h, R),
         NEW p, p = Generations!Premark(h),
         NEW C, C = Generations!Claimed(p, R \cup Generations!Children(h, h.remset))
  PROVE  MarkedFrom(h, m, p, C)
<1>1. RecordOf(h)
  BY DEF HeapShape, RecordOf
<1>2. p = [h EXCEPT !.bits = [x \in HeapObjects |-> IF x \in h.remset THEN OLD_MARKED ELSE h.bits[x]],
                    !.remset = {}]
  BY <1>1, BitsApart DEF Generations!Premark, RecordOf
<1>3. /\ RecordOf(p) /\ SameRefs(h, p) /\ SameLists(h, p) /\ SamePages(h, p) /\ p.remset = {}
      /\ p.bits = [x \in HeapObjects |-> IF x \in h.remset THEN OLD_MARKED ELSE h.bits[x]]
      /\ SameCounts(h, p)
  BY <1>1, <1>2 DEF RecordOf, SameRefs, SameLists, SamePages, SameCounts
<1> DEFINE O == {x \in C : Generations!gc_old(p.bits[x])}
           k == Generations!Mark(p, R \cup Generations!Children(h, h.remset))
<1>4. k = [p EXCEPT !.bits = [x \in HeapObjects |-> IF x \in O THEN OLD_MARKED
                                           ELSE IF x \in C THEN MARKED ELSE @[x]],
                    !.remset = @ \cup Generations!remembered(p, C),
                    !.has_marked = @ \cup Generations!pages_of(C),
                    !.nold = [q \in Generations!Pages |-> @[q] + Generations!cells(O, q)],
                    !.big_objects_marked = @ \cup (O \cap Big)]
  BY BitsApart DEF Generations!Mark
<1>5. m = [k EXCEPT !.remset = @ \cup Generations!remembered(p, h.remset)]
  BY DEF Generations!MarkRoots
<1> HIDE DEF k
<1>6. /\ RecordOf(k) /\ SameRefs(p, k) /\ SameLists(p, k) /\ k.has_young = p.has_young
      /\ k.bits = [x \in HeapObjects |-> IF x \in O THEN OLD_MARKED
                                         ELSE IF x \in C THEN MARKED ELSE p.bits[x]]
      /\ k.remset = p.remset \cup Generations!remembered(p, C)
      /\ k.has_marked = p.has_marked \cup Generations!pages_of(C)
      /\ k.big_objects_marked = p.big_objects_marked \cup (O \cap Big)
      /\ k.prev_nold = p.prev_nold
      /\ k.nold = [q \in Generations!Pages |-> p.nold[q] + Generations!cells(O, q)]
  <2> HIDE DEF O
  <2> QED
    BY <1>3, <1>4 DEF RecordOf, SameRefs, SameLists
<1>7. /\ RecordOf(m) /\ SameRefs(k, m) /\ SameLists(k, m) /\ m.has_young = k.has_young
      /\ m.bits = k.bits /\ m.remset = k.remset \cup Generations!remembered(p, h.remset)
      /\ m.has_marked = k.has_marked /\ m.big_objects_marked = k.big_objects_marked
      /\ SameCounts(k, m)
  BY <1>5, <1>6 DEF RecordOf, SameRefs, SameLists, SameCounts
<1>8. O = {x \in C : p.bits[x] \in {OLD, OLD_MARKED}}
  BY BitsApart
<1>9. SameRefs(h, m) /\ SameLists(h, m) /\ m.has_young = h.has_young
  BY <1>3, <1>6, <1>7 DEF SameRefs, SameLists, SamePages
<1>10. m.bits = [x \in HeapObjects |->
                   IF x \in C THEN IF p.bits[x] \in {OLD, OLD_MARKED} THEN OLD_MARKED ELSE MARKED
                   ELSE p.bits[x]]
  BY <1>6, <1>7, <1>8
<1>11. m.remset = {x \in C \cup h.remset : Refers(p, x)}
  BY <1>3, <1>6, <1>7, RememberedIs
<1>12. m.has_marked = h.has_marked \cup {PageOf[x] : x \in C \ Big}
  BY <1>3, <1>6, <1>7 DEF SamePages, Generations!pages_of
<1>13. m.big_objects_marked =
         h.big_objects_marked \cup {x \in C \cap Big : p.bits[x] \in {OLD, OLD_MARKED}}
  BY <1>3, <1>6, <1>7, <1>8 DEF SamePages
<1>14. /\ m.prev_nold = h.prev_nold
       /\ m.nold = [q \in Generations!Pages |->
                     h.nold[q] + Generations!cells({x \in C : p.bits[x] \in {OLD, OLD_MARKED}}, q)]
  <2> HIDE DEF O
  <2> QED
    BY <1>3, <1>6, <1>7, <1>8 DEF SameCounts
<1> QED
  BY <1>3, <1>7, <1>9, <1>10, <1>11, <1>12, <1>13, <1>14 DEF MarkedFrom

LEMMA MarkRootsInv ==
  ASSUME NEW h, NEW L, NEW R, Between(h, R, L), NEW m, m = Generations!MarkRoots(h, R)
  PROVE  /\ Amid(m, L) /\ \A x \in R : HasMark(m, x)
         /\ SameRefs(h, m) /\ SameLists(h, m)
<1> USE BitsApart DEF MarkBits, HasMark
<1> DEFINE p == Generations!Premark(h)
           S == R \cup Generations!Children(h, h.remset)
           C == Generations!Claimed(p, S)
<1>1. HeapShape(h) /\ Alive(h, L) /\ R \subseteq L
  BY DEF Between
<1>d. /\ p = Generations!Premark(h)
      /\ C = Generations!Claimed(p, R \cup Generations!Children(h, h.remset))
  OBVIOUS
<1> HIDE DEF p, C
<1>2. MarkedFrom(h, m, p, C)
  BY <1>1, <1>d, MarkedFields
<1>3. HeapShape(p)
  BY <1>1, <1>2 DEF HeapShape, RecordOf, SameRefs, SameLists, MarkedFrom
<1>4. \A x \in h.remset \ WeakRefs : h.ref[x] = Nothing \/ h.ref[x] \in S
  BY DEF Generations!Children
<1>5. S \in SUBSET HeapObjects /\ S \subseteq L
  <2>1. \A x \in h.remset : x \in L /\ h.ref[x] \in L \cup {Nothing}
    BY <1>1 DEF Between, Alive, HeapShape
  <2> QED
    BY <1>1, <2>1 DEF Generations!Children, Alive
<1> HIDE DEF S
<1>6. /\ C \subseteq HeapObjects
      /\ \A x \in C : ~HasMark(p, x)
      /\ \A x \in S : HasMark(p, x) \/ x \in C
      /\ \A x \in C \ WeakRefs : p.ref[x] # Nothing => HasMark(p, p.ref[x]) \/ p.ref[x] \in C
      /\ \A K \in SUBSET HeapObjects :
           S \subseteq K /\ (\A x \in K \ WeakRefs : p.ref[x] \in K \cup {Nothing}) => C \subseteq K
  <2>1. C = Generations!Claimed(p, S)
    BY DEF C
  <2> QED
    BY <1>3, <1>5, <2>1, ClaimedIs
<1>7. C \subseteq L
  BY <1>1, <1>2, <1>5, <1>6 DEF Alive, SameRefs, MarkedFrom
<1>8. R \subseteq S
  BY DEF S
\* The bits: before, with the disguise taken off, and after.
<1>9. \A x \in HeapObjects :
        /\ p.bits[x] = (IF h.bits[x] = MARKED THEN OLD_MARKED ELSE h.bits[x])
        /\ p.bits[x] # MARKED
        /\ HasMark(p, x) <=> HasMark(h, x)
        /\ m.bits[x] = (IF x \notin C THEN p.bits[x]
                        ELSE IF p.bits[x] = OLD THEN OLD_MARKED ELSE MARKED)
        /\ HasMark(m, x) <=> HasMark(h, x) \/ x \in C
        /\ x \in C => p.bits[x] \in {CLEAN, OLD} /\ h.bits[x] = p.bits[x]
  <2> SUFFICES ASSUME NEW x \in HeapObjects
               PROVE  /\ p.bits[x] = (IF h.bits[x] = MARKED THEN OLD_MARKED ELSE h.bits[x])
                      /\ p.bits[x] # MARKED
                      /\ HasMark(p, x) <=> HasMark(h, x)
                      /\ m.bits[x] = (IF x \notin C THEN p.bits[x]
                                      ELSE IF p.bits[x] = OLD THEN OLD_MARKED ELSE MARKED)
                      /\ HasMark(m, x) <=> HasMark(h, x) \/ x \in C
                      /\ x \in C => p.bits[x] \in {CLEAN, OLD} /\ h.bits[x] = p.bits[x]
    OBVIOUS
  <2>1. p.bits[x] = (IF h.bits[x] = MARKED THEN OLD_MARKED ELSE h.bits[x])
    BY <1>2 DEF Between, MarkedFrom
  <2>2. x \in C => h.bits[x] # FREE /\ ~HasMark(p, x)
    BY <1>1, <1>6, <1>7 DEF Alive
  <2>3. h.bits[x] \in {FREE, CLEAN, MARKED, OLD, OLD_MARKED}
    BY <1>1 DEF HeapShape
  <2>4. m.bits[x] = IF x \in C THEN IF p.bits[x] \in {OLD, OLD_MARKED} THEN OLD_MARKED ELSE MARKED
                    ELSE p.bits[x]
    BY <1>2 DEF MarkedFrom
  <2> QED
    BY <2>1, <2>2, <2>3, <2>4
<1>10. HeapShape(m)
  <2>1. m.bits \in [HeapObjects -> {FREE, CLEAN, MARKED, OLD, OLD_MARKED}]
    <3>1. \A x \in HeapObjects : m.bits[x] \in {FREE, CLEAN, MARKED, OLD, OLD_MARKED}
      BY <1>1, <1>9 DEF HeapShape
    <3> QED
      BY <1>2, <3>1 DEF MarkedFrom
  <2>2. m.remset \subseteq HeapObjects
    BY <1>1, <1>2, <1>6 DEF HeapShape, MarkedFrom
  <2> QED
    BY <1>1, <1>2, <2>1, <2>2 DEF HeapShape, RecordOf, SameRefs, SameLists, MarkedFrom
<1>11. Alive(m, L)
  <2>1. \A x \in HeapObjects : m.bits[x] = FREE => h.bits[x] = FREE
    BY <1>9
  <2> QED
    BY <1>1, <1>2, <1>7, <1>9, <2>1 DEF Alive, SameRefs, SameLists, MarkedFrom
<1>12. PagesRight(m)
  <2>1. PagesRight(h)
    BY DEF Between
  <2>2. \A x \in HeapObjects \ Big : m.bits[x] = CLEAN => PageOf[x] \in m.has_young
    BY <1>2, <1>9, <2>1 DEF PagesRight, MarkedFrom
  <2>3. \A x \in HeapObjects \ Big : HasMark(m, x) => PageOf[x] \in m.has_marked
    BY <1>2, <1>9, <2>1 DEF PagesRight, MarkedFrom
  <2>4. \A x \in m.big_objects_marked : x \in HeapObjects \cap Big /\ HasMark(m, x)
    BY <1>2, <1>6, <1>9, <2>1 DEF PagesRight, MarkedFrom
  <2> QED
    BY <2>2, <2>3, <2>4 DEF PagesRight
<1>13. ASSUME NEW x \in m.finalizer_list_marked
       PROVE  m.bits[x] # CLEAN /\ m.bits[x] # MARKED /\ (m.prev_sweep_full \/ m.bits[x] = OLD_MARKED)
  <2>1. x \in h.finalizer_list_marked /\ x \in HeapObjects /\ m.prev_sweep_full = h.prev_sweep_full
    BY <1>1, <1>2 DEF SameLists, Alive, MarkedFrom
  <2>2. h.bits[x] # CLEAN /\ (h.prev_sweep_full \/ HasMark(h, x))
    BY <2>1 DEF Between, FinalizersOld
  <2> QED
    BY <1>9, <2>1, <2>2
<1>14. ASSUME NEW x \in HeapObjects, m.bits[x] = MARKED
       PROVE  IF x \in Big THEN x \notin m.big_objects_marked ELSE PageOf[x] \in m.has_young
  <2>1. x \in C /\ h.bits[x] = CLEAN /\ p.bits[x] = CLEAN
    BY <1>9, <1>14
  <2>2. x \in Big => x \notin h.big_objects_marked
    BY <2>1 DEF Between, PagesRight
  <2>3. x \notin Big => PageOf[x] \in h.has_young
    BY <2>1 DEF Between, PagesRight
  <2> QED
    BY <1>2, <2>1, <2>2, <2>3 DEF MarkedFrom
<1>15. ASSUME NEW x \in m.remset PROVE m.bits[x] = OLD_MARKED
  <2>1. x \in C \cup h.remset /\ p.bits[x] \in {OLD, OLD_MARKED} /\ x \in HeapObjects
    BY <1>2, <1>10, <1>15 DEF Refers, HeapShape, MarkedFrom
  <2>2. x \notin C => h.bits[x] = MARKED
    BY <2>1 DEF Between
  <2> QED
    BY <1>9, <2>1, <2>2
<1>16. ASSUME NEW x \in HeapObjects \ WeakRefs, HasMark(m, x), m.ref[x] # Nothing
       PROVE  /\ HasMark(m, m.ref[x])
              /\ m.bits[x] = OLD_MARKED /\ m.bits[m.ref[x]] = MARKED => x \in m.remset
  <2> DEFINE y == h.ref[x]
  <2>1. m.ref[x] = y /\ p.ref[x] = y /\ y \in HeapObjects
    BY <1>1, <1>2, <1>16 DEF SameRefs, HeapShape, MarkedFrom
  <2> HIDE DEF y
  <2>2. HasMark(p, y) \/ y \in C
    <3>0. y # Nothing /\ h.ref[x] = y
      BY <1>2, <1>16, <2>1 DEF SameRefs, MarkedFrom
    <3>1. CASE x \in C
      BY <1>6, <1>16, <2>1, <3>0, <3>1
    <3>2. CASE x \in h.remset
      <4>1. y \in S
        BY <1>4, <1>16, <3>0, <3>2
      <4> QED
        BY <1>6, <4>1
    <3>3. CASE h.bits[x] = OLD_MARKED
      <4>1. HasMark(h, y)
        BY <1>16, <3>0, <3>3 DEF Between
      <4> QED
        BY <1>9, <2>1, <4>1
    <3>4. x \in C \/ x \in h.remset \/ h.bits[x] = OLD_MARKED
      BY <1>9, <1>16 DEF Between
    <3> QED
      BY <3>1, <3>2, <3>3, <3>4
  <2>3. HasMark(m, y)
    BY <1>9, <2>1, <2>2
  <2>4. ASSUME m.bits[x] = OLD_MARKED, m.bits[y] = MARKED PROVE x \in m.remset
    <3>1. y \in C /\ p.bits[y] = CLEAN /\ ~HasMark(h, y)
      BY <1>9, <2>1, <2>4
    <3>2. h.bits[x] # OLD_MARKED
      BY <1>16, <1>2, <2>1, <3>1 DEF Between, SameRefs, MarkedFrom
    <3>3. x \in C \cup h.remset /\ p.bits[x] \in {OLD, OLD_MARKED}
      BY <1>9, <2>4, <3>2 DEF Between
    <3>4. Refers(p, x)
      BY <1>16, <2>1, <3>1, <3>3 DEF Refers
    <3> QED
      BY <1>2, <3>3, <3>4 DEF MarkedFrom
  <2> QED
    BY <2>1, <2>3, <2>4
<1>17. \A x \in R : HasMark(m, x)
  BY <1>1, <1>5, <1>6, <1>8, <1>9
<1> QED
  BY <1>2, <1>10, <1>11, <1>12, <1>13, <1>14, <1>15, <1>16, <1>17 DEF Amid, MarkedFrom

-----------------------------------------------------------------------------
(* What follows the marking from the roots.                                 *)

LEMMA ClearWeakRefsInv ==
  ASSUME NEW h, NEW L, Amid(h, L), NEW g, g = Generations!ClearWeakRefs(h)
  PROVE  /\ Amid(g, L)
         /\ SameBits(h, g) /\ SameLists(h, g) /\ SamePages(h, g) /\ SameCounts(h, g)
         /\ g.weak_refs = h.weak_refs
         /\ \A x \in HeapObjects \ WeakRefs : g.ref[x] = h.ref[x]
         /\ \A x \in L \cap WeakRefs : g.ref[x] # Nothing => HasMark(g, g.ref[x])
<1> USE BitsApart DEF HasMark
<1>1. HeapShape(h) /\ Alive(h, L) /\ RecordOf(h)
  BY DEF Amid, HeapShape, RecordOf
<1> DEFINE r == [x \in HeapObjects |->
                   IF x \in h.weak_refs /\ Generations!dead_referent(h, x) THEN Nothing ELSE h.ref[x]]
<1>2. g = [h EXCEPT !.ref = r]
  BY <1>1 DEF Generations!ClearWeakRefs, RecordOf
<1>3. \A x \in HeapObjects :
        r[x] = IF x \in h.weak_refs /\ h.ref[x] # Nothing /\ ~HasMark(h, h.ref[x])
               THEN Nothing ELSE h.ref[x]
  BY DEF Generations!dead_referent
<1>4. r \in [HeapObjects -> HeapObjects \cup {Nothing}]
  BY <1>1 DEF HeapShape
<1> HIDE DEF r
<1>5. /\ RecordOf(g) /\ SameBits(h, g) /\ SameLists(h, g) /\ SamePages(h, g) /\ SameCounts(h, g)
      /\ g.weak_refs = h.weak_refs /\ g.ref = r
  BY <1>1, <1>2 DEF RecordOf, SameBits, SameLists, SamePages, SameCounts
<1>6. HeapShape(g)
  BY <1>1, <1>4, <1>5 DEF HeapShape, RecordOf, SameBits, SameLists
<1>7. \A x \in HeapObjects \ WeakRefs : g.ref[x] = h.ref[x]
  BY <1>1, <1>3, <1>5 DEF HeapShape
<1>8. ASSUME NEW x \in L \cap WeakRefs, g.ref[x] # Nothing PROVE HasMark(g, g.ref[x])
  BY <1>1, <1>3, <1>5, <1>8 DEF Alive, SameBits
<1>9. Alive(g, L)
  BY <1>1, <1>3, <1>5 DEF Alive, SameBits, SameLists
<1>10. PagesRight(g)
  BY <1>5 DEF Amid, PagesRight, SameBits, SamePages
<1>11. \A x \in g.finalizer_list_marked :
        g.bits[x] # CLEAN /\ g.bits[x] # MARKED /\ (g.prev_sweep_full \/ g.bits[x] = OLD_MARKED)
  BY <1>5 DEF Amid, SameBits, SameLists
<1>12. \A x \in HeapObjects : g.bits[x] = MARKED =>
         IF x \in Big THEN x \notin g.big_objects_marked ELSE PageOf[x] \in g.has_young
  BY <1>5 DEF Amid, SameBits, SamePages
<1>13. \A x \in g.remset : g.bits[x] = OLD_MARKED
  BY <1>5 DEF Amid, SameBits
<1>14. \A x \in HeapObjects \ WeakRefs :
         HasMark(g, x) /\ g.ref[x] # Nothing =>
           /\ HasMark(g, g.ref[x])
           /\ g.bits[x] = OLD_MARKED /\ g.bits[g.ref[x]] = MARKED => x \in g.remset
  BY <1>5, <1>7 DEF Amid, SameBits
<1> QED
  BY <1>5, <1>6, <1>7, <1>8, <1>9, <1>10, <1>11, <1>12, <1>13, <1>14 DEF Amid

\* Afterwards who is on a list, and not scheduled, is marked.
LEMMA SweepFinalizersInv ==
  ASSUME NEW h, NEW L, Amid(h, L), NEW g, g = Generations!SweepFinalizers(h)
  PROVE  /\ Amid(g, L)
         /\ SameBits(h, g) /\ SameRefs(h, g) /\ SamePages(h, g) /\ SameCounts(h, g)
         /\ g.prev_sweep_full = h.prev_sweep_full
         /\ \A x \in g.finalizers \cup g.finalizer_list_marked : HasMark(g, x)
         /\ \A x \in g.finalizer_list_marked : g.bits[x] = OLD_MARKED
         /\ h.finalizers \cup h.finalizer_list_marked \cup h.to_finalize
              = g.finalizers \cup g.finalizer_list_marked \cup g.to_finalize
<1> USE BitsApart DEF HasMark, MarkBits
<1>1. HeapShape(h) /\ Alive(h, L) /\ RecordOf(h)
  BY DEF Amid, HeapShape, RecordOf
<1> DEFINE swept == IF h.prev_sweep_full THEN h.finalizers \cup h.finalizer_list_marked ELSE h.finalizers
           freed == Generations!Unmarked(h, swept)
           aged == {x \in h.finalizers : h.bits[x] = OLD_MARKED}
<1>2. g = [h EXCEPT !.finalizers = @ \ (freed \cup aged),
                    !.finalizer_list_marked = (@ \ freed) \cup aged,
                    !.to_finalize = @ \cup freed]
  BY DEF Generations!SweepFinalizers
<1>3. freed = {x \in swept : ~HasMark(h, x)}
  BY DEF Generations!Unmarked
<1> HIDE DEF freed, aged
<1>4. /\ RecordOf(g) /\ SameBits(h, g) /\ SameRefs(h, g) /\ SamePages(h, g) /\ SameCounts(h, g)
      /\ g.prev_sweep_full = h.prev_sweep_full
      /\ g.finalizers = h.finalizers \ (freed \cup aged)
      /\ g.finalizer_list_marked = (h.finalizer_list_marked \ freed) \cup aged
      /\ g.to_finalize = h.to_finalize \cup freed
  BY <1>1, <1>2 DEF RecordOf, SameBits, SameRefs, SamePages, SameCounts
<1>5. HeapShape(g)
  BY <1>1, <1>4 DEF HeapShape, RecordOf, SameBits, SameRefs
<1>6. h.finalizers \cup h.finalizer_list_marked \cup h.to_finalize
        = g.finalizers \cup g.finalizer_list_marked \cup g.to_finalize
  <2>1. freed \subseteq h.finalizers \cup h.finalizer_list_marked /\ aged \subseteq h.finalizers
    BY <1>3 DEF aged
  <2> QED
    BY <1>4, <2>1
<1>7. Alive(g, L)
  BY <1>1, <1>4, <1>6 DEF Alive, SameBits, SameRefs
<1>8. ASSUME NEW x \in g.finalizer_list_marked PROVE g.bits[x] = OLD_MARKED
  <2>1. CASE x \in aged
    BY <1>4, <2>1 DEF aged, SameBits
  <2>2. CASE x \notin aged
    <3>1. x \in h.finalizer_list_marked /\ x \notin freed
      BY <1>4, <1>8, <2>2
    <3>2. /\ h.bits[x] # CLEAN /\ h.bits[x] # MARKED
          /\ h.prev_sweep_full \/ h.bits[x] = OLD_MARKED
      BY <3>1 DEF Amid
    <3>3. h.prev_sweep_full => HasMark(h, x)
      BY <1>3, <3>1
    <3> QED
      BY <1>4, <3>2, <3>3 DEF SameBits
  <2> QED
    BY <2>1, <2>2
<1>9. ASSUME NEW x \in g.finalizers PROVE HasMark(g, x)
  BY <1>3, <1>4, <1>9 DEF SameBits
<1>10. \A x \in g.finalizers \cup g.finalizer_list_marked : HasMark(g, x)
  BY <1>8, <1>9
<1>11. PagesRight(g)
  BY <1>4 DEF Amid, PagesRight, SameBits, SamePages
<1>12. \A x \in g.finalizer_list_marked :
        g.bits[x] # CLEAN /\ g.bits[x] # MARKED /\ (g.prev_sweep_full \/ g.bits[x] = OLD_MARKED)
  BY <1>8
<1>13. \A x \in HeapObjects : g.bits[x] = MARKED =>
         IF x \in Big THEN x \notin g.big_objects_marked ELSE PageOf[x] \in g.has_young
  BY <1>4 DEF Amid, SameBits, SamePages
<1>14. \A x \in g.remset : g.bits[x] = OLD_MARKED
  BY <1>4 DEF Amid, SameBits
<1>15. \A x \in HeapObjects \ WeakRefs :
         HasMark(g, x) /\ g.ref[x] # Nothing =>
           /\ HasMark(g, g.ref[x])
           /\ g.bits[x] = OLD_MARKED /\ g.bits[g.ref[x]] = MARKED => x \in g.remset
  BY <1>4 DEF Amid, SameBits, SameRefs
<1> QED
  BY <1>4, <1>5, <1>6, <1>7, <1>8, <1>10, <1>11, <1>12, <1>13, <1>14, <1>15 DEF Amid

KeepsMarks(h, g) == \A x \in HeapObjects : HasMark(h, x) => g.bits[x] = h.bits[x]

\* Who is marked with its age reset is young again: nobody among them was marked.
LEMMA MarkResetInv ==
  ASSUME NEW h, NEW L, Amid(h, L), NEW S \in SUBSET L, NEW g, g = Generations!MarkReset(h, S),
         \A x \in h.finalizer_list_marked : HasMark(h, x)
  PROVE  /\ Amid(g, L) /\ SameRefs(h, g) /\ SameLists(h, g) /\ KeepsMarks(h, g)
         /\ \A x \in S : HasMark(g, x)
         /\ g.bits = [x \in HeapObjects |-> IF x \in Generations!Claimed(h, S) THEN MARKED ELSE h.bits[x]]
         /\ SameCounts(h, g)
<1> USE BitsApart DEF HasMark, MarkBits
<1>1. HeapShape(h) /\ Alive(h, L) /\ RecordOf(h) /\ S \in SUBSET HeapObjects
  BY DEF Amid, Alive, HeapShape, RecordOf
<1> DEFINE C == Generations!Claimed(h, S)
<1>d. C = Generations!Claimed(h, S)
  OBVIOUS
<1>2. g = [h EXCEPT !.bits = [x \in HeapObjects |-> IF x \in C THEN MARKED ELSE h.bits[x]],
                    !.has_marked = @ \cup Generations!pages_of(C),
                    !.has_young = @ \cup Generations!reset_pages(C),
                    !.big_objects_marked = @ \ C]
  BY <1>1 DEF Generations!MarkReset, RecordOf
<1> HIDE DEF C
<1>3. /\ C \subseteq HeapObjects
      /\ \A x \in C : ~HasMark(h, x)
      /\ \A x \in S : HasMark(h, x) \/ x \in C
      /\ \A x \in C \ WeakRefs : h.ref[x] # Nothing => HasMark(h, h.ref[x]) \/ h.ref[x] \in C
      /\ \A K \in SUBSET HeapObjects :
           S \subseteq K /\ (\A x \in K \ WeakRefs : h.ref[x] \in K \cup {Nothing}) => C \subseteq K
  BY <1>1, <1>d, ClaimedIs
<1>4. C \subseteq L
  BY <1>1, <1>3 DEF Alive
<1>5. /\ RecordOf(g) /\ SameRefs(h, g) /\ SameLists(h, g) /\ g.remset = h.remset
      /\ g.bits = [x \in HeapObjects |-> IF x \in C THEN MARKED ELSE h.bits[x]]
      /\ g.has_marked = h.has_marked \cup Generations!pages_of(C)
      /\ g.has_young = h.has_young \cup Generations!reset_pages(C)
      /\ g.big_objects_marked = h.big_objects_marked \ C
      /\ SameCounts(h, g)
  BY <1>1, <1>2 DEF RecordOf, SameRefs, SameLists, SameCounts
<1>6. /\ Generations!reset_pages(C) = Generations!pages_of(C)
      /\ \A x \in C \ Big : PageOf[x] \in Generations!pages_of(C)
  BY DEF Generations!reset_pages, Generations!pages_of
<1>7. \A x \in HeapObjects : g.bits[x] = IF x \in C THEN MARKED ELSE h.bits[x]
  BY <1>5
<1>8. HeapShape(g)
  <2>1. g.bits \in [HeapObjects -> {FREE, CLEAN, MARKED, OLD, OLD_MARKED}]
    BY <1>1, <1>5 DEF HeapShape
  <2> QED
    BY <1>1, <1>5, <2>1 DEF HeapShape, RecordOf, SameRefs, SameLists
<1>9. Alive(g, L)
  BY <1>1, <1>4, <1>5, <1>7 DEF Alive, SameRefs, SameLists
<1>10. PagesRight(g)
  <2>1. PagesRight(h)
    BY DEF Amid
  <2>2. \A x \in HeapObjects \ Big : g.bits[x] = CLEAN => PageOf[x] \in g.has_young
    BY <1>5, <1>7, <2>1 DEF PagesRight
  <2>3. \A x \in HeapObjects \ Big : HasMark(g, x) => PageOf[x] \in g.has_marked
    BY <1>5, <1>6, <1>7, <2>1 DEF PagesRight
  <2>4. \A x \in g.big_objects_marked : x \in HeapObjects \cap Big /\ HasMark(g, x)
    BY <1>5, <1>7, <2>1 DEF PagesRight
  <2> QED
    BY <2>2, <2>3, <2>4 DEF PagesRight
<1>11. ASSUME NEW x \in g.finalizer_list_marked
       PROVE  g.bits[x] # CLEAN /\ g.bits[x] # MARKED /\ (g.prev_sweep_full \/ g.bits[x] = OLD_MARKED)
  <2>1. x \in h.finalizer_list_marked /\ x \in HeapObjects /\ HasMark(h, x)
    BY <1>1, <1>5 DEF Alive, SameLists
  <2>2. x \notin C
    BY <1>3, <2>1
  <2> QED
    BY <1>5, <1>7, <2>1, <2>2 DEF Amid, SameLists
<1>12. \A x \in HeapObjects : g.bits[x] = MARKED =>
         IF x \in Big THEN x \notin g.big_objects_marked ELSE PageOf[x] \in g.has_young
  BY <1>5, <1>6, <1>7 DEF Amid
<1>13. \A x \in g.remset : g.bits[x] = OLD_MARKED
  <2> SUFFICES ASSUME NEW x \in h.remset PROVE g.bits[x] = OLD_MARKED
    BY <1>5
  <2>1. x \in HeapObjects /\ h.bits[x] = OLD_MARKED
    BY <1>1 DEF Amid, HeapShape
  <2> QED
    BY <1>3, <1>7, <2>1
<1>14. ASSUME NEW x \in HeapObjects \ WeakRefs, HasMark(g, x), g.ref[x] # Nothing
       PROVE  /\ HasMark(g, g.ref[x])
              /\ g.bits[x] = OLD_MARKED /\ g.bits[g.ref[x]] = MARKED => x \in g.remset
  <2> DEFINE y == h.ref[x]
  <2>1. g.ref[x] = y /\ y # Nothing /\ y \in HeapObjects
    BY <1>1, <1>5, <1>14 DEF SameRefs, HeapShape
  <2>2. CASE x \in C
    <3>1. HasMark(h, y) \/ y \in C
      BY <1>3, <1>14, <2>1, <2>2
    <3> QED
      BY <1>7, <2>1, <2>2, <3>1
  <2>3. CASE x \notin C
    <3>1. HasMark(h, x)
      BY <1>7, <1>14, <2>3
    <3>2. HasMark(h, y) /\ (h.bits[x] = OLD_MARKED /\ h.bits[y] = MARKED => x \in h.remset)
      BY <1>14, <2>1, <3>1 DEF Amid
    <3>3. y \notin C
      BY <1>3, <3>2
    <3> QED
      BY <1>5, <1>7, <2>1, <2>3, <3>2, <3>3
  <2> QED
    BY <2>2, <2>3
<1>15. \A x \in S : HasMark(g, x)
  BY <1>1, <1>3, <1>7
<1>16. \A x \in HeapObjects : HasMark(h, x) => g.bits[x] = h.bits[x]
  BY <1>3, <1>7
<1>17. Amid(g, L)
  BY <1>8, <1>9, <1>10, <1>11, <1>12, <1>13, <1>14 DEF Amid
<1> QED
  BY <1>5, <1>15, <1>16, <1>17, <1>d DEF KeepsMarks

-----------------------------------------------------------------------------
(* The sweep.                                                               *)

\* What a page or the list of the old big objects spares.
Spared(h, x, full) == ~Generations!visited(h, x, full)
SweptBits(h, x, full) ==
  IF x \in Generations!freed_by(h, full) THEN FREE
  ELSE IF Spared(h, x, full) THEN h.bits[x]
  ELSE IF full \/ h.bits[x] = MARKED THEN OLD ELSE h.bits[x]

SweptFrom(h, g, full) ==
  /\ RecordOf(g) /\ g.prev_sweep_full = full
  /\ g.finalizers = h.finalizers /\ g.finalizer_list_marked = h.finalizer_list_marked
  /\ g.to_finalize = h.to_finalize
  /\ g.bits = [x \in HeapObjects |-> IF ~full /\ x \in h.remset THEN MARKED
                                     ELSE SweptBits(h, x, full)]
  /\ g.ref = [x \in HeapObjects |-> IF x \in Generations!freed_by(h, full) THEN Nothing ELSE h.ref[x]]
  /\ g.remset = IF full THEN {} ELSE h.remset
  /\ g.weak_refs = {x \in h.weak_refs : HasMark(h, x)}
  /\ g.big_objects_marked = IF full THEN {} ELSE h.big_objects_marked
  /\ \A x \in HeapObjects \ Big :
       \/ Spared(h, x, full) /\ PageOf[x] \in h.has_marked
       \/ ~Spared(h, x, full) /\ SweptBits(h, x, full) \in MarkBits
       => PageOf[x] \in g.has_marked
  /\ full => \A p \in Generations!Pages :
       /\ g.nold[p] = 0
       /\ g.prev_nold[p] = IF p \notin h.has_marked THEN 0
                          ELSE Generations!cells({x \in HeapObjects : /\ ~Spared(h, x, full)
                                                  /\ x \notin Generations!freed_by(h, full)}, p)

LEMMA SweptFields ==
  ASSUME NEW h, RecordOf(h), NEW full \in BOOLEAN, HeapShape(h),
         NEW g, g = Generations!Remember(Generations!Sweep(h, full), full)
  PROVE  SweptFrom(h, g, full)
<1> USE BitsApart DEF HasMark
<1> DEFINE dead == Generations!freed_by(h, full)
           seen == {x \in HeapObjects : Generations!visited(h, x, full)}
           bits == [x \in HeapObjects |-> IF x \in dead THEN FREE
                      ELSE IF x \in seen THEN Generations!swept_bits(h.bits[x], full) ELSE h.bits[x]]
           ref == [x \in HeapObjects |-> IF x \in dead THEN Nothing ELSE h.ref[x]]
           weak == {x \in h.weak_refs : HasMark(h, x)}
           bigs == IF full THEN {} ELSE h.big_objects_marked
           walked == {p \in Generations!Pages : p \in h.has_marked /\ ~Generations!skipped(h, p, full)}
           whole == Generations!Pages \ h.has_marked
           pages == (h.has_marked \ walked) \cup
                    Generations!pages_of({x \in seen : bits[x] \in MarkBits})
           nold == [p \in Generations!Pages |->
                      IF p \in whole \/ (full /\ p \in walked) THEN 0 ELSE h.nold[p]]
           prev == [p \in Generations!Pages |->
                      IF p \in whole THEN 0
                      ELSE IF full /\ p \in walked THEN Generations!cells(seen \ dead, p)
                      ELSE h.prev_nold[p]]
           s == Generations!Sweep(h, full)
<1>1. s = [h EXCEPT !.bits = bits, !.ref = ref, !.weak_refs = weak,
               !.big_objects_marked = bigs, !.has_marked = pages,
               !.has_young = @ \ (walked \cup whole),
               !.nold = nold, !.prev_nold = prev]
  <2>1. \A S : {x \in S : Generations!gc_marked(bits[x])} = {x \in S : bits[x] \in MarkBits}
    OBVIOUS
  <2>2. \A S : {x \in S : Generations!gc_marked(h.bits[x])} = {x \in S : HasMark(h, x)}
    OBVIOUS
  <2>3. /\ h.ref = h.ref /\ Generations!FREE = FREE
    OBVIOUS
  <2> HIDE DEF HasMark, MarkBits
  <2> QED
    BY <2>1, <2>2, <2>3 DEF Generations!Sweep
<1> HIDE DEF s, bits, ref, weak, bigs, walked, pages, dead, seen, whole, nold, prev
<1>2. /\ RecordOf(s) /\ s.bits = bits /\ s.ref = ref /\ s.weak_refs = weak
      /\ s.big_objects_marked = bigs /\ s.has_marked = pages /\ s.remset = h.remset
      /\ s.finalizers = h.finalizers /\ s.finalizer_list_marked = h.finalizer_list_marked
      /\ s.to_finalize = h.to_finalize /\ s.nold = nold /\ s.prev_nold = prev
  BY <1>1 DEF RecordOf
<1>3. g = [s EXCEPT !.bits = [x \in HeapObjects |-> IF ~full /\ x \in h.remset THEN MARKED ELSE bits[x]],
                    !.remset = IF full THEN {} ELSE h.remset,
                    !.prev_sweep_full = full]
  BY <1>2 DEF Generations!Remember, s, RecordOf
<1>4. /\ RecordOf(g) /\ g.prev_sweep_full = full
      /\ g.finalizers = h.finalizers /\ g.finalizer_list_marked = h.finalizer_list_marked
      /\ g.to_finalize = h.to_finalize
      /\ g.bits = [x \in HeapObjects |-> IF ~full /\ x \in h.remset THEN MARKED ELSE bits[x]]
      /\ g.ref = ref /\ g.remset = (IF full THEN {} ELSE h.remset)
      /\ g.weak_refs = weak /\ g.big_objects_marked = bigs /\ g.has_marked = pages
      /\ g.nold = nold /\ g.prev_nold = prev
  BY <1>2, <1>3 DEF RecordOf
<1>5. \A x \in HeapObjects : bits[x] = SweptBits(h, x, full)
  <2>1. \A y : Generations!swept_bits(y, full) = IF full \/ y = MARKED THEN OLD ELSE y
    BY DEF Generations!swept_bits
  <2> QED
    BY <2>1 DEF bits, seen, dead, SweptBits, Spared
<1>6. g.bits = [x \in HeapObjects |-> IF ~full /\ x \in h.remset THEN MARKED
                                      ELSE SweptBits(h, x, full)]
  BY <1>4, <1>5
<1>7. ASSUME NEW x \in HeapObjects \ Big,
             \/ Spared(h, x, full) /\ PageOf[x] \in h.has_marked
             \/ ~Spared(h, x, full) /\ SweptBits(h, x, full) \in MarkBits
      PROVE  PageOf[x] \in g.has_marked
  <2>1. CASE Spared(h, x, full) /\ PageOf[x] \in h.has_marked
    <3>1. Generations!skipped(h, PageOf[x], full)
      BY <2>1 DEF Spared, Generations!visited
    <3> QED
      BY <1>4, <2>1, <3>1 DEF pages, walked
  <2>2. CASE ~Spared(h, x, full) /\ SweptBits(h, x, full) \in MarkBits
    <3>1. x \in {y \in seen : bits[y] \in MarkBits}
      BY <1>5, <2>2 DEF Spared, seen
    <3>2. PageOf[x] \in Generations!pages_of({y \in seen : bits[y] \in MarkBits})
      BY <3>1 DEF Generations!pages_of
    <3> QED
      BY <1>4, <3>2 DEF pages
  <2> QED
    BY <1>7, <2>1, <2>2
<1>8. ASSUME full, NEW p \in Generations!Pages
      PROVE  /\ g.nold[p] = 0
             /\ g.prev_nold[p] = IF p \notin h.has_marked THEN 0
                                ELSE Generations!cells({x \in HeapObjects : /\ ~Spared(h, x, full)
                                                        /\ x \notin Generations!freed_by(h, full)}, p)
  <2>1. seen \ dead = {x \in HeapObjects : ~Spared(h, x, full) /\ x \notin Generations!freed_by(h, full)}
    BY DEF seen, dead, Spared
  <2>2. p \in h.has_marked => p \in walked
    BY <1>8 DEF walked, Generations!skipped
  <2>3. p \notin h.has_marked <=> p \in whole
    BY DEF whole
  <2> QED
    BY <1>4, <1>8, <2>1, <2>2, <2>3 DEF nold, prev
<1> QED
  BY <1>4, <1>6, <1>7, <1>8 DEF SweptFrom, ref, weak, bigs, dead

\* All that a sweep has to find marked.
AllMarked(h, R, L) ==
  /\ \A x \in R : HasMark(h, x)
  /\ \A x \in h.finalizers \cup h.finalizer_list_marked \cup h.to_finalize : HasMark(h, x)
  /\ \A x \in h.finalizer_list_marked : h.bits[x] = OLD_MARKED
  /\ \A x \in L \cap WeakRefs : h.ref[x] # Nothing => HasMark(h, h.ref[x])

LEMMA SweepInv ==
  ASSUME NEW h, NEW L, NEW R \in SUBSET HeapObjects, Amid(h, L), AllMarked(h, R, L), NEW full \in BOOLEAN,
         NEW g, g = Generations!Remember(Generations!Sweep(h, full), full)
  PROVE  Between(g, R, {x \in HeapObjects : HasMark(h, x)})
<1> USE BitsApart DEF HasMark, MarkBits
<1> DEFINE K == {x \in HeapObjects : HasMark(h, x)}
<1>1. HeapShape(h) /\ Alive(h, L) /\ RecordOf(h) /\ PagesRight(h)
  BY DEF Amid, HeapShape, RecordOf
<1>2. SweptFrom(h, g, full)
  BY <1>1, SweptFields
\* What is marked is not freed, and what is marked and young is seen.
<1>3. \A x \in HeapObjects : HasMark(h, x) => x \notin Generations!freed_by(h, full)
  BY <1>1 DEF PagesRight, Generations!freed_by
<1>4. \A x \in HeapObjects : h.bits[x] = MARKED \/ full => ~Spared(h, x, full)
  <2> SUFFICES ASSUME NEW x \in HeapObjects, h.bits[x] = MARKED \/ full
               PROVE  Generations!visited(h, x, full)
    BY DEF Spared
  <2>1. CASE full
    BY <2>1 DEF Generations!visited, Generations!skipped
  <2>2. CASE h.bits[x] = MARKED /\ x \in Big
    BY <2>2 DEF Amid, Generations!visited
  <2>3. CASE h.bits[x] = MARKED /\ x \notin Big
    BY <2>3 DEF Amid, Generations!visited, Generations!skipped
  <2> QED
    BY <2>1, <2>2, <2>3
<1>5. \A x \in HeapObjects : x \in Generations!freed_by(h, full) => ~Spared(h, x, full)
  BY DEF Generations!freed_by, Spared
<1>6. \A x \in HeapObjects : ~HasMark(h, x) /\ ~Spared(h, x, full) => x \in Generations!freed_by(h, full)
  BY DEF Generations!freed_by, Spared
<1>7. \A x \in h.remset : h.bits[x] = OLD_MARKED /\ x \in HeapObjects
  BY <1>1 DEF Amid, HeapShape
\* The bits afterwards.
<1>8. ASSUME NEW x \in HeapObjects
      PROVE  /\ g.bits[x] = (IF ~full /\ x \in h.remset THEN MARKED ELSE SweptBits(h, x, full))
             /\ h.bits[x] \in {FREE, CLEAN, MARKED, OLD, OLD_MARKED}
             /\ SweptBits(h, x, full) # MARKED
             /\ SweptBits(h, x, full) = OLD_MARKED <=> ~full /\ h.bits[x] = OLD_MARKED
             /\ HasMark(h, x) => SweptBits(h, x, full) \in {OLD, OLD_MARKED}
             /\ SweptBits(h, x, full) = CLEAN => h.bits[x] = CLEAN /\ Spared(h, x, full)
  <2>1. g.bits[x] = IF ~full /\ x \in h.remset THEN MARKED ELSE SweptBits(h, x, full)
    BY <1>2 DEF SweptFrom
  <2>2. h.bits[x] \in {FREE, CLEAN, MARKED, OLD, OLD_MARKED}
    BY <1>1 DEF HeapShape
  <2>3. /\ HasMark(h, x) => x \notin Generations!freed_by(h, full)
        /\ h.bits[x] = MARKED \/ full => ~Spared(h, x, full)
        /\ ~HasMark(h, x) /\ ~Spared(h, x, full) => x \in Generations!freed_by(h, full)
    BY <1>3, <1>4, <1>6
  <2> QED
    BY <2>1, <2>2, <2>3 DEF SweptBits
<1>9. \A x \in HeapObjects : HasMark(g, x) <=> ~full /\ h.bits[x] = OLD_MARKED
  BY <1>7, <1>8
<1>10. \A x \in HeapObjects : g.bits[x] = MARKED <=> x \in g.remset
  BY <1>2, <1>7, <1>8 DEF SweptFrom
<1>11. \A x \in HeapObjects : g.bits[x] # CLEAN
  <2> SUFFICES ASSUME NEW x \in HeapObjects, h.bits[x] = CLEAN, Spared(h, x, full) PROVE FALSE
    BY <1>8
  <2>1. CASE x \in Big
    BY <1>1, <2>1 DEF Spared, Generations!visited, PagesRight
  <2>2. CASE x \notin Big
    BY <1>1, <2>2 DEF Spared, Generations!visited, Generations!skipped, PagesRight
  <2> QED
    BY <2>1, <2>2
<1>12. \A x \in HeapObjects : g.ref[x] = IF x \in Generations!freed_by(h, full) THEN Nothing ELSE h.ref[x]
  BY <1>2 DEF SweptFrom
<1>13. HeapShape(g)
  <2>1. g.bits \in [HeapObjects -> {FREE, CLEAN, MARKED, OLD, OLD_MARKED}]
    <3>1. \A x \in HeapObjects : g.bits[x] \in {FREE, CLEAN, MARKED, OLD, OLD_MARKED}
      BY <1>8 DEF SweptBits
    <3> QED
      BY <1>2, <3>1 DEF SweptFrom
  <2>2. g.ref \in [HeapObjects -> HeapObjects \cup {Nothing}]
    <3>1. \A x \in HeapObjects : g.ref[x] \in HeapObjects \cup {Nothing}
      BY <1>1, <1>12 DEF HeapShape
    <3> QED
      BY <1>2, <3>1 DEF SweptFrom
  <2>3. g.remset \subseteq HeapObjects /\ g.weak_refs \subseteq HeapObjects \cap WeakRefs
    BY <1>1, <1>2 DEF SweptFrom, HeapShape
  <2> QED
    BY <1>2, <2>1, <2>2, <2>3 DEF HeapShape, SweptFrom, RecordOf
<1>14. Alive(g, K)
  <2>1. g.finalizers \cup g.finalizer_list_marked \cup g.to_finalize \subseteq K
    BY <1>1, <1>2 DEF AllMarked, SweptFrom, Alive
  <2>2. \A x \in HeapObjects : HasMark(g, x) => x \in K
    BY <1>9
  <2>3. ASSUME NEW x \in K PROVE g.bits[x] # FREE /\ g.ref[x] \in K \cup {Nothing}
    <3>1. g.bits[x] # FREE
      BY <1>8
    <3>2. g.ref[x] = h.ref[x] /\ h.ref[x] \in HeapObjects \cup {Nothing} /\ x \in HeapObjects
      BY <1>1, <1>3, <1>12 DEF HeapShape
    <3>3. h.ref[x] # Nothing => HasMark(h, h.ref[x])
      <4>1. x \in L
        BY <1>1, <3>2 DEF Alive
      <4>2. CASE x \in WeakRefs
        BY <4>1, <4>2 DEF AllMarked
      <4>3. CASE x \notin WeakRefs
        BY <3>2, <4>3 DEF Amid
      <4> QED
        BY <4>2, <4>3
    <3> QED
      BY <3>1, <3>2, <3>3
  <2>4. K \cap WeakRefs \subseteq g.weak_refs
    BY <1>1, <1>2 DEF SweptFrom, Alive
  <2> QED
    BY <2>1, <2>2, <2>3, <2>4 DEF Alive
<1>15. PagesRight(g)
  <2>1. ASSUME NEW x \in HeapObjects \ Big, HasMark(g, x) PROVE PageOf[x] \in g.has_marked
    <3>1. ~full /\ h.bits[x] = OLD_MARKED
      BY <1>9, <2>1
    <3>2. PageOf[x] \in h.has_marked
      BY <1>1, <3>1 DEF PagesRight
    <3>3. SweptBits(h, x, full) \in MarkBits
      BY <1>8, <3>1
    <3> QED
      BY <1>2, <3>2, <3>3 DEF SweptFrom
  <2>2. \A x \in g.big_objects_marked : x \in HeapObjects \cap Big /\ HasMark(g, x)
    <3> SUFFICES ASSUME NEW x \in h.big_objects_marked, ~full PROVE x \in HeapObjects \cap Big /\ HasMark(g, x)
      BY <1>2 DEF SweptFrom
    <3>1. x \in HeapObjects \cap Big /\ HasMark(h, x)
      BY <1>1 DEF PagesRight
    <3>2. h.bits[x] # MARKED
      BY <3>1 DEF Amid
    <3> QED
      BY <1>9, <3>1, <3>2
  <2> QED
    BY <1>11, <2>1, <2>2 DEF PagesRight
<1>16. FinalizersOld(g)
  <2> SUFFICES ASSUME NEW x \in h.finalizer_list_marked
               PROVE  g.bits[x] # CLEAN /\ (full \/ HasMark(g, x))
    BY <1>2 DEF SweptFrom, FinalizersOld
  <2>1. x \in HeapObjects /\ h.bits[x] = OLD_MARKED
    BY <1>1 DEF Alive, AllMarked
  <2> QED
    BY <1>9, <1>11, <2>1
<1>17. ASSUME NEW x \in HeapObjects \ WeakRefs, g.bits[x] = OLD_MARKED, g.ref[x] # Nothing
       PROVE  HasMark(g, g.ref[x])
  <2>1. ~full /\ h.bits[x] = OLD_MARKED /\ x \notin h.remset
    BY <1>8, <1>17
  <2>2. g.ref[x] = h.ref[x] /\ h.ref[x] \in HeapObjects
    BY <1>1, <1>3, <1>12, <1>17, <2>1 DEF HeapShape
  <2>3. HasMark(h, h.ref[x]) /\ h.bits[h.ref[x]] # MARKED
    BY <1>17, <2>1, <2>2 DEF Amid
  <2> QED
    BY <1>9, <2>1, <2>2, <2>3
<1>18. R \subseteq K
  BY DEF AllMarked
<1> QED
  BY <1>10, <1>13, <1>14, <1>15, <1>16, <1>17, <1>18 DEF Between

-----------------------------------------------------------------------------
(* A collection, and what follows for the program.                          *)

LEMMA MarkPhaseInv ==
  ASSUME NEW h, NEW L, Between(h, roots, L), NEW m \in Generations!MarkPhase(h)
  PROVE  Amid(m, L) /\ AllMarked(m, roots, L)
<1>1. PICK f \in {Generations!SweepFinalizers(c) : c \in {Generations!ClearWeakRefs(a) :
                    a \in {Generations!MarkRoots(h, roots)}}} : m = Generations!MarkReset(f, f.to_finalize)
  BY DEF Generations!MarkPhase
<1>2. PICK c, a : /\ a = Generations!MarkRoots(h, roots) /\ c = Generations!ClearWeakRefs(a)
                  /\ f = Generations!SweepFinalizers(c)
  BY <1>1
<1>3. Amid(a, L) /\ \A x \in roots : HasMark(a, x)
  BY <1>2, MarkRootsInv
<1>4. /\ Amid(c, L) /\ SameBits(a, c) /\ \A x \in L \cap WeakRefs : c.ref[x] # Nothing => HasMark(c, c.ref[x])
  BY <1>2, <1>3, ClearWeakRefsInv
<1>5. /\ Amid(f, L) /\ SameBits(c, f) /\ SameRefs(c, f)
      /\ \A x \in f.finalizers \cup f.finalizer_list_marked : HasMark(f, x)
      /\ \A x \in f.finalizer_list_marked : f.bits[x] = OLD_MARKED
  BY <1>2, <1>4, SweepFinalizersInv
<1>6. f.to_finalize \subseteq L /\ L \subseteq HeapObjects /\ roots \subseteq L
  BY <1>5 DEF Amid, Alive, Between
<1>7. /\ Amid(m, L) /\ SameRefs(f, m) /\ SameLists(f, m)
      /\ \A x \in HeapObjects : HasMark(f, x) => m.bits[x] = f.bits[x]
      /\ \A x \in f.to_finalize : HasMark(m, x)
  <2> DEFINE S == f.to_finalize
  <2>1. S \in SUBSET L /\ m = Generations!MarkReset(f, S) /\ Amid(f, L)
    BY <1>1, <1>5, <1>6
  <2>2. \A x \in f.finalizer_list_marked : HasMark(f, x)
    BY <1>5
  <2> HIDE DEF S
  <2>3. Amid(m, L) /\ SameRefs(f, m) /\ SameLists(f, m) /\ KeepsMarks(f, m)
    BY <2>1, <2>2, MarkResetInv
  <2>4. \A x \in S : HasMark(m, x)
    BY <2>1, <2>2, MarkResetInv
  <2> QED
    BY <2>3, <2>4 DEF S, KeepsMarks
<1>8. \A x \in HeapObjects : HasMark(f, x) => HasMark(m, x)
  BY <1>7 DEF HasMark
<1>9. \A x \in roots : HasMark(m, x)
  BY <1>3, <1>4, <1>5, <1>6, <1>8 DEF HasMark, SameBits
<1>10. \A x \in m.finalizers \cup m.finalizer_list_marked \cup m.to_finalize : HasMark(m, x)
  <2>1. f.finalizers \cup f.finalizer_list_marked \subseteq HeapObjects
    BY <1>5, <1>6 DEF Amid, Alive
  <2> QED
    BY <1>5, <1>7, <1>8, <2>1 DEF SameLists
<1>11. \A x \in m.finalizer_list_marked : m.bits[x] = OLD_MARKED
  <2>1. f.finalizer_list_marked \subseteq HeapObjects
    BY <1>5, <1>6 DEF Amid, Alive
  <2> QED
    BY <1>5, <1>7, <2>1 DEF SameLists
<1>12. ASSUME NEW x \in L \cap WeakRefs, m.ref[x] # Nothing PROVE HasMark(m, m.ref[x])
  <2>1. m.ref[x] = f.ref[x] /\ f.ref[x] = c.ref[x]
    BY <1>5, <1>7 DEF SameRefs
  <2>2. c.ref[x] \in HeapObjects
    BY <1>4, <1>6, <1>12, <2>1 DEF Amid, HeapShape
  <2>3. HasMark(f, c.ref[x])
    BY <1>4, <1>5, <1>12, <2>1 DEF HasMark, SameBits
  <2> QED
    BY <1>8, <2>1, <2>2, <2>3
<1> QED
  BY <1>7, <1>9, <1>10, <1>11, <1>12 DEF AllMarked

\* A page more on the free lists changes nothing of that.
LEMMA YoungPagesInv ==
  ASSUME NEW h, NEW L, NEW R, Amid(h, L), AllMarked(h, R, L), NEW S,
         NEW g, g = [h EXCEPT !.has_young = @ \cup S]
  PROVE  /\ Amid(g, L) /\ AllMarked(g, R, L)
         /\ SameBits(h, g) /\ SameLists(h, g) /\ SameRefs(h, g) /\ SameCounts(h, g)
<1>1. RecordOf(h) /\ HeapShape(h) /\ Alive(h, L) /\ PagesRight(h)
  BY DEF Amid, HeapShape, RecordOf
<1>2. /\ RecordOf(g) /\ SameBits(h, g) /\ SameLists(h, g) /\ SameRefs(h, g)
      /\ g.big_objects_marked = h.big_objects_marked /\ g.has_marked = h.has_marked
      /\ g.has_young = h.has_young \cup S /\ SameCounts(h, g)
  BY <1>1 DEF RecordOf, SameBits, SameLists, SameRefs, SameCounts
<1>3. \A x : HasMark(g, x) <=> HasMark(h, x)
  BY <1>2 DEF HasMark, SameBits
<1>4. HeapShape(g)
  BY <1>1, <1>2 DEF HeapShape, RecordOf, SameBits, SameLists, SameRefs
<1>5. Alive(g, L)
  BY <1>1, <1>2, <1>3 DEF Alive, SameBits, SameLists, SameRefs
<1>6. PagesRight(g)
  BY <1>1, <1>2, <1>3 DEF PagesRight, SameBits
<1>7. \A x \in g.finalizer_list_marked :
        g.bits[x] # CLEAN /\ g.bits[x] # MARKED /\ (g.prev_sweep_full \/ g.bits[x] = OLD_MARKED)
  BY <1>2 DEF Amid, SameBits, SameLists
<1>8. \A x \in HeapObjects : g.bits[x] = MARKED =>
        IF x \in Big THEN x \notin g.big_objects_marked ELSE PageOf[x] \in g.has_young
  BY <1>2 DEF Amid, SameBits
<1>9. \A x \in g.remset : g.bits[x] = OLD_MARKED
  BY <1>2 DEF Amid, SameBits
<1>10. \A x \in HeapObjects \ WeakRefs :
         HasMark(g, x) /\ g.ref[x] # Nothing =>
           /\ HasMark(g, g.ref[x])
           /\ g.bits[x] = OLD_MARKED /\ g.bits[g.ref[x]] = MARKED => x \in g.remset
  BY <1>2, <1>3 DEF Amid, SameBits, SameRefs
<1>11. AllMarked(g, R, L)
  BY <1>2, <1>3 DEF AllMarked, SameBits, SameLists, SameRefs
<1> QED
  BY <1>2, <1>4, <1>5, <1>6, <1>7, <1>8, <1>9, <1>10, <1>11 DEF Amid

\* g is what a sweep leaves of y, which is m with more pages counted as young.
SweptAfter(m, full, S, y, g) ==
  /\ y = [m EXCEPT !.has_young = @ \cup S]
  /\ g = Generations!Remember(Generations!Sweep(y, full), full)

LEMMA PassIs ==
  ASSUME NEW h, NEW kinds \in SUBSET BOOLEAN, NEW g \in Generations!Pass(h, kinds)
  PROVE  \E m \in Generations!MarkPhase(h), full \in kinds : \E S, y : SweptAfter(m, full, S, y, g)
<1> DEFINE F(m, full) == {Generations!Remember(s, full) :
                            s \in {Generations!Sweep([m EXCEPT !.has_young = @ \cup current], full) :
                                     current \in SUBSET Generations!free_pages(h)}}
<1>0. Generations!Pass(h, kinds) = UNION {F(m, full) : m \in Generations!MarkPhase(h), full \in kinds}
  BY DEF Generations!Pass
<1>1. PICK m \in Generations!MarkPhase(h), full \in kinds : g \in F(m, full)
  <2> HIDE DEF F
  <2> QED
    BY <1>0
<1>2. PICK current :
        g = Generations!Remember(
              Generations!Sweep([m EXCEPT !.has_young = @ \cup current], full), full)
  BY <1>1
<1> DEFINE y == [m EXCEPT !.has_young = @ \cup current]
<1>3. SweptAfter(m, full, current, y, g)
  BY <1>2 DEF SweptAfter
<1> HIDE DEF y
<1> QED
  BY <1>1, <1>3

LEMMA PassInv ==
  ASSUME NEW h, NEW L, Between(h, roots, L), NEW kinds \in SUBSET BOOLEAN,
         NEW g \in Generations!Pass(h, kinds)
  PROVE  \E K \in SUBSET HeapObjects : Between(g, roots, K)
<1>1. PICK m \in Generations!MarkPhase(h), full \in kinds : \E S, y : SweptAfter(m, full, S, y, g)
  BY PassIs
<1>2. PICK S, y : SweptAfter(m, full, S, y, g)
  BY <1>1
<1>3. Amid(m, L) /\ AllMarked(m, roots, L)
  BY MarkPhaseInv
<1>4. Amid(y, L) /\ AllMarked(y, roots, L)
  BY <1>2, <1>3, YoungPagesInv DEF SweptAfter
<1>5. roots \in SUBSET HeapObjects /\ full \in BOOLEAN
  BY DEF Between, Alive
<1>6. Between(g, roots, {x \in HeapObjects : HasMark(y, x)})
  BY <1>2, <1>4, <1>5, SweepInv DEF SweptAfter
<1> QED
  BY <1>6

LEMMA CollectInv ==
  ASSUME NEW L \in SUBSET HeapObjects, Between(heap, roots, L),
         Generations!Collect \/ Generations!CollectFull
  PROVE  GenerationsInv'
<1>1. \A h, g, K : Between(h, roots, K) /\ g \in Generations!AnyPass(h)
                     => \E M \in SUBSET HeapObjects : Between(g, roots, M)
  BY PassInv DEF Generations!AnyPass
<1>2. \A g : g \in Generations!Pass(heap, {TRUE}) => \E M \in SUBSET HeapObjects : Between(g, roots, M)
  BY PassInv
<1>3. roots' = roots
  BY DEF Generations!Collect, Generations!CollectFull
<1>4. \/ heap' \in Generations!AnyPass(heap)
      \/ \E h \in Generations!Pass(heap, {TRUE}) : heap' \in Generations!AnyPass(h)
  BY DEF Generations!Collect, Generations!CollectFull
<1>5. \E M \in SUBSET HeapObjects : Between(heap', roots, M)
  <2>1. CASE heap' \in Generations!AnyPass(heap)
    BY <1>1, <2>1
  <2>2. CASE \E h \in Generations!Pass(heap, {TRUE}) : heap' \in Generations!AnyPass(h)
    BY <1>1, <1>2, <2>2
  <2> QED
    BY <1>4, <2>1, <2>2
<1> QED
  BY <1>3, <1>5 DEF GenerationsInv

LEMMA GenerationsInvariant == Generations!Spec => []GenerationsInv
<1>1. Generations!Init => GenerationsInv
  BY GenerationsInitInv
<1>2. GenerationsInv /\ [Generations!Next]_(Generations!vars) => GenerationsInv'
  <2> SUFFICES ASSUME GenerationsInv, [Generations!Next]_(Generations!vars) PROVE GenerationsInv'
    OBVIOUS
  <2>1. PICK L \in SUBSET HeapObjects : Between(heap, roots, L)
    BY DEF GenerationsInv
  <2>2. CASE UNCHANGED Generations!vars
    BY <2>1, <2>2 DEF GenerationsInv, Generations!vars
  <2>3. ASSUME NEW x \in HeapObjects,
               \/ Generations!Load(x) \/ Generations!Forget(x)
               \/ Generations!AddFinalizer(x) \/ Generations!RunFinalizer(x)
        PROVE  GenerationsInv'
    BY <2>1, <2>3, OtherStepsInv
  <2>4. ASSUME NEW x \in HeapObjects, NEW v \in HeapObjects \cup {Nothing}, Generations!Allocate(x, v)
        PROVE  GenerationsInv'
    BY <2>1, <2>4, AllocateInv
  <2>5. ASSUME NEW x \in HeapObjects, NEW v \in HeapObjects, Generations!Store(x, v)
        PROVE  GenerationsInv'
    BY <2>1, <2>5, StoreInv
  <2>6. CASE Generations!Collect \/ Generations!CollectFull
    BY <2>1, <2>6, CollectInv
  <2> QED
    BY <2>2, <2>3, <2>4, <2>5, <2>6 DEF Generations!Next
<1> QED
  BY <1>1, <1>2, PTL DEF Generations!Spec

\* Nothing that the program or a finalizer can get at is ever freed by a collection, quick
\* or full: the objects that GenerationsInv speaks of are closed under references and
\* have all the roots, so that they have all that can be reached.
THEOREM NothingReachedIsFreed == Generations!Spec => []NoDangling
<1>1. GenerationsInv => NoDangling
  <2> SUFFICES ASSUME NEW L \in SUBSET HeapObjects, Between(heap, roots, L) PROVE NoDangling
    BY DEF GenerationsInv
  <2> DEFINE S == roots \cup heap.finalizers \cup heap.finalizer_list_marked \cup heap.to_finalize
  <2>1. HeapShape(heap) /\ Alive(heap, L) /\ S \subseteq L
    BY DEF Between, Alive
  <2>2. Generations!Children(heap, L) \subseteq L
    BY <2>1 DEF Generations!Children, Alive
  <2>3. Generations!Needed \subseteq L
    BY <2>1, <2>2 DEF Generations!Needed, Generations!Reachable
  <2> HIDE DEF S
  <2>4. \A x \in L : heap.bits[x] # FREE /\ (heap.ref[x] # Nothing => heap.bits[heap.ref[x]] # FREE)
    BY <2>1 DEF Alive
  <2> QED
    BY <2>3, <2>4, BitsApart DEF NoDangling, Generations!NoDangling
<1> QED
  BY <1>1, GenerationsInvariant, PTL

-----------------------------------------------------------------------------
(* A full collection frees all garbage.  It ends with a pass, quick or      *)
(* full, that starts where a full sweep ended, so with nobody marked.  Such *)
(* a pass leaves a page out only when as many old objects are marked in it  *)
(* as were left there, which has to be the right number.                    *)

OldCells(h, p) == {x \in HeapObjects \ Big : PageOf[x] = p /\ h.bits[x] = OLD}

\* After a full sweep nobody is marked, and the pages know how many old cells they have.
PagesCounted(h) ==
  h.prev_sweep_full =>
    /\ \A x \in HeapObjects : ~HasMark(h, x)
    /\ \A p \in Generations!Pages : h.nold[p] = 0 /\ h.prev_nold[p] = Cardinality(OldCells(h, p))

LEMMA SameCardinality == \A S : Generations!Cardinality(S) = Cardinality(S)
BY DEF Generations!Cardinality, Cardinality

LEMMA CellsAre == \A S, p : Generations!cells(S, p) = Cardinality({x \in S \ Big : PageOf[x] = p})
BY SameCardinality DEF Generations!cells

LEMMA InitCounts == Generations!Init => PagesCounted(heap)
<1> SUFFICES ASSUME Generations!Init PROVE PagesCounted(heap)
  OBVIOUS
<1> USE BitsApart
<1>1. /\ heap.bits = [x \in HeapObjects |-> FREE]
      /\ heap.nold = [p \in Generations!Pages |-> 0] /\ heap.prev_nold = [p \in Generations!Pages |-> 0]
  BY DEF Generations!Init
<1>2. \A p : OldCells(heap, p) = {}
  BY <1>1 DEF OldCells
<1>3. \A x \in HeapObjects : ~HasMark(heap, x)
  BY <1>1 DEF HasMark, MarkBits
<1> QED
  BY <1>1, <1>2, <1>3, FS_EmptySet DEF PagesCounted

\* What the program does changes no count: it makes young objects, and marks nobody when
\* nobody is marked.
LEMMA CountsKept ==
  ASSUME NEW h, NEW g, PagesCounted(h), SameCounts(h, g), g.prev_sweep_full = h.prev_sweep_full,
         h.prev_sweep_full =>
           \A x \in HeapObjects : /\ HasMark(g, x) => HasMark(h, x)
                                  /\ g.bits[x] = OLD <=> h.bits[x] = OLD
  PROVE  PagesCounted(g)
<1>1. ASSUME h.prev_sweep_full, NEW p PROVE OldCells(g, p) = OldCells(h, p)
  BY <1>1 DEF OldCells
<1> QED
  BY <1>1 DEF PagesCounted, SameCounts

LEMMA ProgramCounts ==
  ASSUME HeapShape(heap), PagesCounted(heap),
         NEW x \in HeapObjects, NEW v \in HeapObjects \cup {Nothing},
         \/ Generations!Allocate(x, v) \/ (v \in HeapObjects /\ Generations!Store(x, v))
         \/ Generations!Load(x) \/ Generations!Forget(x)
         \/ Generations!AddFinalizer(x) \/ Generations!RunFinalizer(x)
  PROVE  PagesCounted(heap')
<1> USE BitsApart
<1> DEFINE h == heap
           g == heap'
           stop == h.bits[x] = OLD_MARKED /\ ~HasMark(h, v)
<1>0. RecordOf(h)
  BY DEF HeapShape, RecordOf
<1>1. CASE Generations!Allocate(x, v)
  <2>1. /\ h.bits[x] = FREE
        /\ g = [h EXCEPT !.bits[x] = CLEAN, !.ref[x] = v,
                         !.has_young = IF x \in Big THEN @ ELSE @ \cup {PageOf[x]},
                         !.weak_refs = IF x \in WeakRefs THEN @ \cup {x} ELSE @]
    BY <1>1 DEF Generations!Allocate
  <2>2. /\ g.bits = [h.bits EXCEPT ![x] = CLEAN] /\ SameCounts(h, g)
        /\ g.prev_sweep_full = h.prev_sweep_full
    BY <1>0, <2>1 DEF RecordOf, SameCounts
  <2>3. h.bits \in [HeapObjects -> {FREE, CLEAN, MARKED, OLD, OLD_MARKED}]
    BY DEF HeapShape
  <2> HIDE DEF h, g
  <2>4. \A y \in HeapObjects : g.bits[y] = IF y = x THEN CLEAN ELSE h.bits[y]
    BY <2>2, <2>3
  <2>5. \A y \in HeapObjects : (HasMark(g, y) => HasMark(h, y)) /\ (g.bits[y] = OLD <=> h.bits[y] = OLD)
    BY <2>1, <2>4 DEF HasMark, MarkBits
  <2>6. PagesCounted(h)
    BY DEF h
  <2>7. PagesCounted(g)
    BY <2>2, <2>5, <2>6, CountsKept
  <2> QED
    BY <2>7 DEF g
<1>2. CASE v \in HeapObjects /\ Generations!Store(x, v)
  <2>1. Generations!barrier(x, v) <=> stop
    BY DEF Generations!barrier, HasMark
  <2>2. g = [h EXCEPT !.ref[x] = v, !.bits[x] = IF stop THEN MARKED ELSE @,
                      !.remset = IF stop THEN @ \cup {x} ELSE @]
    BY <1>2, <2>1 DEF Generations!Store
  <2>3. h.prev_sweep_full => ~stop
    BY DEF PagesCounted, HasMark, MarkBits
  <2> HIDE DEF stop
  <2>4. /\ g.bits = [h.bits EXCEPT ![x] = IF stop THEN MARKED ELSE @] /\ SameCounts(h, g)
        /\ g.prev_sweep_full = h.prev_sweep_full
    BY <1>0, <2>2 DEF RecordOf, SameCounts
  <2>5. h.bits \in [HeapObjects -> {FREE, CLEAN, MARKED, OLD, OLD_MARKED}]
    BY DEF HeapShape
  <2> HIDE DEF h, g
  <2>6. h.prev_sweep_full => g.bits = h.bits
    BY <2>3, <2>4, <2>5
  <2>7. PagesCounted(h)
    BY DEF h
  <2>8. PagesCounted(g)
    BY <2>4, <2>6, <2>7, CountsKept DEF HasMark
  <2> QED
    BY <2>8 DEF g
<1>3. CASE Generations!Load(x) \/ Generations!Forget(x)
  BY <1>3 DEF Generations!Load, Generations!Forget
<1>4. CASE Generations!AddFinalizer(x) \/ Generations!RunFinalizer(x)
  <2>1. g = [h EXCEPT !.finalizers = @ \cup {x}] \/ g = [h EXCEPT !.to_finalize = @ \ {x}]
    BY <1>4 DEF Generations!AddFinalizer, Generations!RunFinalizer
  <2>2. SameBits(h, g) /\ SameCounts(h, g) /\ g.prev_sweep_full = h.prev_sweep_full
    BY <1>0, <2>1 DEF RecordOf, SameBits, SameCounts
  <2> HIDE DEF h, g
  <2>3. PagesCounted(h)
    BY DEF h
  <2>4. PagesCounted(g)
    BY <2>2, <2>3, CountsKept DEF SameBits, HasMark
  <2> QED
    BY <2>4 DEF g
<1> QED
  BY <1>1, <1>2, <1>3, <1>4

LEMMA SweepCounts ==
  ASSUME NEW h, NEW L, Amid(h, L), NEW full \in BOOLEAN,
         NEW g, g = Generations!Remember(Generations!Sweep(h, full), full)
  PROVE  PagesCounted(g)
<1> USE BitsApart DEF HasMark, MarkBits
<1>1. HeapShape(h) /\ RecordOf(h) /\ PagesRight(h)
  BY DEF Amid, HeapShape, RecordOf
<1>2. SweptFrom(h, g, full)
  BY <1>1, SweptFields
<1> SUFFICES ASSUME full PROVE PagesCounted(g)
  BY <1>2 DEF PagesCounted, SweptFrom
<1>3. \A x \in HeapObjects : ~Spared(h, x, full)
  BY DEF Spared, Generations!visited, Generations!skipped
<1>4. \A x \in HeapObjects : g.bits[x] = IF x \in Generations!freed_by(h, full) THEN FREE ELSE OLD
  BY <1>2, <1>3 DEF SweptFrom, SweptBits
<1>5. \A x \in HeapObjects : ~HasMark(g, x)
  BY <1>4
<1>6. ASSUME NEW p \in Generations!Pages
      PROVE  g.nold[p] = 0 /\ g.prev_nold[p] = Cardinality(OldCells(g, p))
  <2>1. g.nold[p] = 0
    BY <1>2, <1>6 DEF SweptFrom
  <2>2. CASE p \in h.has_marked
    <3> DEFINE S == {x \in HeapObjects : ~Spared(h, x, full) /\ x \notin Generations!freed_by(h, full)}
    <3>1. g.prev_nold[p] = Generations!cells(S, p)
      BY <1>2, <1>6, <2>2 DEF SweptFrom
    <3>2. S = {x \in HeapObjects : g.bits[x] = OLD}
      BY <1>3, <1>4
    <3> HIDE DEF S
    <3>3. {x \in S \ Big : PageOf[x] = p} = OldCells(g, p)
      BY <3>2 DEF OldCells
    <3> QED
      BY <2>1, <3>1, <3>3, CellsAre
  <2>3. CASE p \notin h.has_marked
    <3>1. g.prev_nold[p] = 0
      BY <1>2, <1>6, <2>3 DEF SweptFrom
    <3>2. ASSUME NEW x \in HeapObjects \ Big, PageOf[x] = p PROVE x \in Generations!freed_by(h, full)
      BY <1>3, <2>3, <3>2 DEF Generations!freed_by, Spared
    <3>3. OldCells(g, p) = {}
      BY <1>4, <3>2 DEF OldCells
    <3> QED
      BY <2>1, <3>1, <3>3, FS_EmptySet
  <2> QED
    BY <2>2, <2>3
<1> QED
  BY <1>5, <1>6 DEF PagesCounted

LEMMA PassCounts ==
  ASSUME NEW h, NEW L, Between(h, roots, L), NEW kinds \in SUBSET BOOLEAN,
         NEW g \in Generations!Pass(h, kinds)
  PROVE  PagesCounted(g) /\ g.prev_sweep_full \in kinds
<1>1. PICK m \in Generations!MarkPhase(h), full \in kinds : \E S, y : SweptAfter(m, full, S, y, g)
  BY PassIs
<1>2. PICK S, y : SweptAfter(m, full, S, y, g)
  BY <1>1
<1>3. Amid(m, L) /\ AllMarked(m, roots, L)
  BY MarkPhaseInv
<1>4. Amid(y, L)
  BY <1>2, <1>3, YoungPagesInv DEF SweptAfter
<1>5. full \in BOOLEAN
  OBVIOUS
<1>6. PagesCounted(g)
  BY <1>2, <1>4, <1>5, SweepCounts DEF SweptAfter
<1>7. RecordOf(y) /\ HeapShape(y)
  BY <1>4 DEF Amid, HeapShape, RecordOf
<1>8. SweptFrom(y, g, full)
  BY <1>2, <1>5, <1>7, SweptFields DEF SweptAfter
<1> QED
  BY <1>6, <1>8 DEF SweptFrom

\* Closed under the references that a scan follows.
Shut(h, D) == \A x \in D \ WeakRefs : h.ref[x] \in D \cup {Nothing}

\* The heap m at the end of a mark phase that began, with nobody marked, with h: C1 was
\* marked from the roots, C2 for the finalizers that were scheduled.
MarkedAnew(h, m, L, C1, C2) ==
  /\ C1 \subseteq HeapObjects /\ C2 \subseteq HeapObjects
  /\ \A x \in HeapObjects : HasMark(m, x) <=> x \in C1 \cup C2
  /\ \A x \in HeapObjects : x \notin C1 \cup C2 => m.bits[x] = h.bits[x]
  /\ \A x \in HeapObjects \ WeakRefs : m.ref[x] = h.ref[x]
  /\ \A x \in L \cap WeakRefs : m.ref[x] \in C1 \cup {Nothing}
  /\ \A D \in SUBSET HeapObjects : Shut(h, D) /\ roots \subseteq D => C1 \subseteq D
  /\ \A D \in SUBSET HeapObjects : Shut(h, D) /\ m.to_finalize \subseteq D => C2 \subseteq D
  /\ m.prev_sweep_full = h.prev_sweep_full /\ m.prev_nold = h.prev_nold
  /\ m.nold = [q \in Generations!Pages |->
                 h.nold[q] + Generations!cells({x \in C1 : h.bits[x] \in {OLD, OLD_MARKED}}, q)]

LEMMA MarkedAnewIs ==
  ASSUME NEW h, NEW L, Between(h, roots, L), \A x \in HeapObjects : ~HasMark(h, x),
         NEW m \in Generations!MarkPhase(h)
  PROVE  \E C1, C2 : MarkedAnew(h, m, L, C1, C2)
<1> USE BitsApart
<1>1. PICK f \in {Generations!SweepFinalizers(c) : c \in {Generations!ClearWeakRefs(a) :
                    a \in {Generations!MarkRoots(h, roots)}}} : m = Generations!MarkReset(f, f.to_finalize)
  BY DEF Generations!MarkPhase
<1>2. PICK c, a : /\ a = Generations!MarkRoots(h, roots) /\ c = Generations!ClearWeakRefs(a)
                  /\ f = Generations!SweepFinalizers(c)
  BY <1>1
<1>3. HeapShape(h) /\ Alive(h, L) /\ roots \subseteq L /\ L \subseteq HeapObjects
  BY DEF Between, Alive
<1>4. h.remset = {}
  BY <1>3 DEF Between, HeapShape, HasMark, MarkBits
\* From the roots.
<1> DEFINE p == Generations!Premark(h)
           C1 == Generations!Claimed(p, roots \cup Generations!Children(h, h.remset))
<1>5. p = Generations!Premark(h) /\ C1 = Generations!Claimed(p, roots \cup Generations!Children(h, h.remset))
  OBVIOUS
<1> HIDE DEF p, C1
<1>6. MarkedFrom(h, a, p, C1)
  BY <1>2, <1>3, <1>5, MarkedFields
<1>7. /\ \A x \in HeapObjects : p.bits[x] = h.bits[x]
      /\ SameRefs(h, p) /\ RecordOf(p) /\ p.bits = h.bits
  BY <1>3, <1>4, <1>6 DEF MarkedFrom, HeapShape
<1>8. HeapShape(p)
  BY <1>3, <1>6, <1>7 DEF HeapShape, MarkedFrom, SameRefs, SameLists, RecordOf
<1>9. Generations!Children(h, h.remset) = {}
  BY <1>4 DEF Generations!Children
<1>10. C1 = Generations!Claimed(p, roots) /\ roots \in SUBSET HeapObjects
  <2>1. roots \cup Generations!Children(h, h.remset) = roots
    BY <1>9
  <2> QED
    BY <1>3, <1>5, <2>1
<1>11. /\ C1 \subseteq HeapObjects
       /\ \A D \in SUBSET HeapObjects :
            roots \subseteq D /\ (\A x \in D \ WeakRefs : p.ref[x] \in D \cup {Nothing}) => C1 \subseteq D
  BY <1>8, <1>10, ClaimedIs
<1>12. \A D \in SUBSET HeapObjects : Shut(h, D) /\ roots \subseteq D => C1 \subseteq D
  BY <1>7, <1>11 DEF Shut, SameRefs
<1>13. \A x \in HeapObjects : /\ HasMark(a, x) <=> x \in C1
                              /\ x \notin C1 => a.bits[x] = h.bits[x]
  <2>1. \A x \in HeapObjects :
          a.bits[x] = IF x \in C1 THEN IF p.bits[x] \in {OLD, OLD_MARKED} THEN OLD_MARKED ELSE MARKED
                      ELSE p.bits[x]
    BY <1>6 DEF MarkedFrom
  <2> QED
    BY <1>7, <2>1 DEF HasMark, MarkBits
<1>14. Amid(a, L) /\ SameRefs(h, a) /\ SameLists(h, a)
  BY <1>2, MarkRootsInv
\* The weak references and the finalizer lists.
<1>15. /\ Amid(c, L) /\ SameBits(a, c) /\ SameLists(a, c) /\ SameCounts(a, c)
       /\ \A x \in HeapObjects \ WeakRefs : c.ref[x] = a.ref[x]
       /\ \A x \in L \cap WeakRefs : c.ref[x] # Nothing => HasMark(c, c.ref[x])
  BY <1>2, <1>14, ClearWeakRefsInv
<1>16. /\ Amid(f, L) /\ SameBits(c, f) /\ SameRefs(c, f) /\ SameCounts(c, f)
       /\ f.prev_sweep_full = c.prev_sweep_full
       /\ \A x \in f.finalizers \cup f.finalizer_list_marked : HasMark(f, x)
  BY <1>2, <1>15, SweepFinalizersInv
\* For the finalizers that were scheduled.
<1> DEFINE S == f.to_finalize
           C2 == Generations!Claimed(f, S)
<1>17. /\ C2 = Generations!Claimed(f, S) /\ S \in SUBSET L /\ S \in SUBSET HeapObjects
       /\ m = Generations!MarkReset(f, S)
       /\ \A x \in f.finalizer_list_marked : HasMark(f, x)
  BY <1>1, <1>16 DEF Amid, Alive
<1>18. S = f.to_finalize
  OBVIOUS
<1> HIDE DEF S, C2
<1>19. /\ SameRefs(f, m) /\ SameLists(f, m) /\ SameCounts(f, m)
       /\ m.bits = [x \in HeapObjects |-> IF x \in C2 THEN MARKED ELSE f.bits[x]]
  BY <1>16, <1>17, MarkResetInv
<1>20. HeapShape(f)
  BY <1>16 DEF Amid
<1>21. /\ C2 \subseteq HeapObjects
       /\ \A D \in SUBSET HeapObjects :
            S \subseteq D /\ (\A x \in D \ WeakRefs : f.ref[x] \in D \cup {Nothing}) => C2 \subseteq D
  BY <1>17, <1>20, ClaimedIs
<1>22. \A x \in HeapObjects \ WeakRefs : m.ref[x] = h.ref[x] /\ f.ref[x] = h.ref[x]
  BY <1>14, <1>15, <1>16, <1>19 DEF SameRefs
<1>23. \A D \in SUBSET HeapObjects : Shut(h, D) /\ m.to_finalize \subseteq D => C2 \subseteq D
  <2> SUFFICES ASSUME NEW D \in SUBSET HeapObjects, Shut(h, D), m.to_finalize \subseteq D
               PROVE  C2 \subseteq D
    OBVIOUS
  <2>1. S \subseteq D
    BY <1>18, <1>19 DEF SameLists
  <2>2. \A x \in D \ WeakRefs : f.ref[x] \in D \cup {Nothing}
    BY <1>22 DEF Shut
  <2> QED
    BY <1>21, <2>1, <2>2
<1>24. \A x \in HeapObjects : /\ HasMark(m, x) <=> x \in C1 \cup C2
                              /\ x \notin C1 \cup C2 => m.bits[x] = h.bits[x]
  <2>1. \A x \in HeapObjects : m.bits[x] = IF x \in C2 THEN MARKED ELSE a.bits[x]
    BY <1>15, <1>16, <1>19 DEF SameBits
  <2> QED
    BY <1>13, <2>1 DEF HasMark, MarkBits
<1>25. ASSUME NEW x \in L \cap WeakRefs PROVE m.ref[x] \in C1 \cup {Nothing}
  <2>1. m.ref[x] = c.ref[x]
    BY <1>16, <1>19 DEF SameRefs
  <2>2. c.ref[x] \in HeapObjects \cup {Nothing}
    BY <1>3, <1>15 DEF Amid, HeapShape
  <2>3. c.ref[x] # Nothing => HasMark(a, c.ref[x])
    BY <1>15 DEF SameBits, HasMark
  <2> QED
    BY <1>13, <2>1, <2>2, <2>3
<1>26. m.prev_sweep_full = h.prev_sweep_full
  BY <1>14, <1>15, <1>16, <1>19 DEF SameLists
<1>27. m.nold = a.nold /\ m.prev_nold = a.prev_nold
  BY <1>15, <1>16, <1>19 DEF SameCounts
<1>28. /\ m.prev_nold = h.prev_nold
       /\ m.nold = [q \in Generations!Pages |->
                      h.nold[q] + Generations!cells({x \in C1 : h.bits[x] \in {OLD, OLD_MARKED}}, q)]
  BY <1>6, <1>7, <1>27 DEF MarkedFrom
<1>29. MarkedAnew(h, m, L, C1, C2)
  BY <1>11, <1>12, <1>21, <1>22, <1>23, <1>24, <1>25, <1>26, <1>28 DEF MarkedAnew
<1> QED
  BY <1>29

\* An old object that is left without a mark shows in the count of its page.
LEMMA CountShows ==
  ASSUME NEW h, NEW m, NEW L, NEW C1, NEW C2, MarkedAnew(h, m, L, C1, C2),
         PagesCounted(h), h.prev_sweep_full,
         NEW x \in HeapObjects \ Big, h.bits[x] = OLD, x \notin C1
  PROVE  m.nold[PageOf[x]] # m.prev_nold[PageOf[x]]
<1> USE BitsApart
<1> DEFINE p == PageOf[x]
           O == {y \in C1 : h.bits[y] \in {OLD, OLD_MARKED}}
           A == {y \in O \ Big : PageOf[y] = p}
           B == OldCells(h, p)
<1>1. p \in Generations!Pages
  BY DEF Generations!Pages
<1>2. /\ h.nold[p] = 0 /\ h.prev_nold[p] = Cardinality(B)
      /\ \A y \in HeapObjects : h.bits[y] # OLD_MARKED
  BY <1>1 DEF PagesCounted, HasMark, MarkBits
<1>3. /\ m.nold[p] = h.nold[p] + Generations!cells(O, p)
      /\ m.prev_nold[p] = h.prev_nold[p] /\ C1 \subseteq HeapObjects
  BY <1>1 DEF MarkedAnew
<1>4. Generations!cells(O, p) = Cardinality(A)
  BY CellsAre
<1>5. A \in SUBSET B /\ x \in B /\ x \notin A
  BY <1>2, <1>3 DEF OldCells
<1>6. IsFiniteSet(B) /\ Cardinality(B) \in Nat
  <2>1. B \in SUBSET HeapObjects
    BY DEF OldCells
  <2> HIDE DEF B
  <2> QED
    BY <2>1, HeapIsFinite, FS_Subset, FS_CardinalityType
<1> HIDE DEF A, B, O, p
<1>7. Cardinality(A) \in Nat /\ Cardinality(A) # Cardinality(B)
  BY <1>5, <1>6, FS_Subset, FS_CardinalityType
<1>8. m.nold[p] # m.prev_nold[p]
  BY <1>2, <1>3, <1>4, <1>6, <1>7
<1> QED
  BY <1>8 DEF p

CountsShow(h) ==
  \A x \in HeapObjects \ Big : h.bits[x] = OLD => h.nold[PageOf[x]] # h.prev_nold[PageOf[x]]

WhollySwept(h, g) ==
  /\ \A x \in HeapObjects : ~HasMark(h, x) => g.bits[x] = FREE
  /\ \A x \in HeapObjects : HasMark(h, x) => g.ref[x] = h.ref[x]
  /\ g.finalizers = h.finalizers /\ g.finalizer_list_marked = h.finalizer_list_marked
  /\ g.to_finalize = h.to_finalize

\* So the sweep frees whoever has no mark.
LEMMA SweptWhole ==
  ASSUME NEW h, NEW L, Amid(h, L), h.prev_sweep_full, NEW full \in BOOLEAN,
         CountsShow(h), NEW g, g = Generations!Remember(Generations!Sweep(h, full), full)
  PROVE  WhollySwept(h, g)
<1> USE BitsApart DEF HasMark, MarkBits
<1>1. HeapShape(h) /\ RecordOf(h) /\ PagesRight(h)
  BY DEF Amid, HeapShape, RecordOf
<1>2. SweptFrom(h, g, full)
  BY <1>1, SweptFields
<1>3. ASSUME NEW x \in HeapObjects, ~HasMark(h, x) PROVE g.bits[x] = FREE
  <2>1. x \notin h.remset
    BY <1>3 DEF Amid
  <2>2. g.bits[x] = SweptBits(h, x, full)
    BY <1>2, <2>1 DEF SweptFrom
  <2>3. CASE ~Spared(h, x, full)
    <3>1. x \in Generations!freed_by(h, full)
      BY <1>3, <2>3 DEF Generations!freed_by, Spared
    <3> QED
      BY <2>2, <3>1 DEF SweptBits
  <2>4. CASE Spared(h, x, full)
    <3>1. h.bits[x] # CLEAN /\ h.bits[x] # OLD
      <4>1. CASE x \in Big
        BY <1>1, <1>3, <2>4, <4>1 DEF Spared, Generations!visited, PagesRight
      <4>2. CASE x \notin Big
        <5>1. PageOf[x] \notin h.has_young /\ h.prev_nold[PageOf[x]] = h.nold[PageOf[x]]
          BY <2>4, <4>2 DEF Spared, Generations!visited, Generations!skipped
        <5> QED
          BY <1>1, <4>2, <5>1 DEF PagesRight, CountsShow
      <4> QED
        BY <4>1, <4>2
    <3>2. h.bits[x] = FREE
      BY <1>1, <1>3, <3>1 DEF HeapShape
    <3> QED
      BY <2>2, <2>4, <3>2 DEF SweptBits
  <2> QED
    BY <2>3, <2>4
<1>4. ASSUME NEW x \in HeapObjects, HasMark(h, x) PROVE g.ref[x] = h.ref[x]
  <2>1. x \notin Generations!freed_by(h, full)
    BY <1>1, <1>4 DEF PagesRight, Generations!freed_by
  <2> QED
    BY <1>2, <2>1 DEF SweptFrom
<1> QED
  BY <1>2, <1>3, <1>4 DEF SweptFrom, WhollySwept

\* What FullCollects says, of the heap that a pass leaves.
Collected(h, R) ==
  LET needed == Generations!Reachable(h, R \cup h.finalizers \cup h.finalizer_list_marked
                                           \cup h.to_finalize)
  IN \A x \in HeapObjects :
       /\ x \notin needed => h.bits[x] = FREE
       /\ x \in WeakRefs /\ x \in needed => h.ref[x] \in Generations!Reachable(h, R) \cup {Nothing}

LEMMA PassCollects ==
  ASSUME NEW h, NEW L, Between(h, roots, L), PagesCounted(h), h.prev_sweep_full,
         NEW g \in Generations!AnyPass(h)
  PROVE  Collected(g, roots)
<1> USE BitsApart
<1>1. PICK m \in Generations!MarkPhase(h), full \in BOOLEAN : \E S, y : SweptAfter(m, full, S, y, g)
  BY PassIs DEF Generations!AnyPass
<1>2. PICK S, y : SweptAfter(m, full, S, y, g)
  BY <1>1
<1>3. PICK C1, C2 : MarkedAnew(h, m, L, C1, C2)
  BY MarkedAnewIs DEF PagesCounted
<1>4. Amid(m, L) /\ AllMarked(m, roots, L)
  BY MarkPhaseInv
<1>5. /\ Amid(y, L) /\ AllMarked(y, roots, L)
      /\ SameBits(m, y) /\ SameLists(m, y) /\ SameRefs(m, y) /\ SameCounts(m, y)
  BY <1>2, <1>4, YoungPagesInv DEF SweptAfter
<1>6. \A x \in HeapObjects : HasMark(y, x) <=> x \in C1 \cup C2
  BY <1>3, <1>5 DEF MarkedAnew, SameBits, HasMark
<1>7. y.prev_sweep_full
  BY <1>3, <1>5 DEF MarkedAnew, SameLists
<1>8. ASSUME NEW x \in HeapObjects \ Big, y.bits[x] = OLD
      PROVE  y.nold[PageOf[x]] # y.prev_nold[PageOf[x]]
  <2>1. x \notin C1 \cup C2
    BY <1>6, <1>8 DEF HasMark, MarkBits
  <2>2. h.bits[x] = OLD
    BY <1>3, <1>5, <1>8, <2>1 DEF MarkedAnew, SameBits
  <2> QED
    BY <1>3, <1>5, <2>1, <2>2, CountShows DEF SameCounts
<1>9. /\ \A x \in HeapObjects : ~HasMark(y, x) => g.bits[x] = FREE
      /\ \A x \in HeapObjects : HasMark(y, x) => g.ref[x] = y.ref[x]
      /\ g.finalizers = y.finalizers /\ g.finalizer_list_marked = y.finalizer_list_marked
      /\ g.to_finalize = y.to_finalize
  <2>1. CountsShow(y)
    BY <1>8 DEF CountsShow
  <2>2. g = Generations!Remember(Generations!Sweep(y, full), full)
    BY <1>2 DEF SweptAfter
  <2>3. WhollySwept(y, g)
    BY <1>5, <1>7, <2>1, <2>2, SweptWhole
  <2> QED
    BY <2>3 DEF WhollySwept
<1>10. HeapShape(y) /\ Alive(y, L) /\ L \subseteq HeapObjects
  BY <1>5 DEF Amid, Alive
\* What is closed in the new heap, cut down to what was marked, was closed in the old one.
<1>11. ASSUME NEW E \in SUBSET HeapObjects, Generations!Children(g, E) \subseteq E
       PROVE  Shut(h, {x \in E : HasMark(y, x)})
  <2> SUFFICES ASSUME NEW x \in E \ WeakRefs, HasMark(y, x), h.ref[x] # Nothing
               PROVE  h.ref[x] \in E /\ HasMark(y, h.ref[x])
    BY DEF Shut
  <2>1. y.ref[x] = h.ref[x] /\ g.ref[x] = h.ref[x]
    BY <1>3, <1>5, <1>9 DEF MarkedAnew, SameRefs
  <2>2. HasMark(y, h.ref[x])
    BY <1>5, <2>1 DEF Amid
  <2>3. h.ref[x] \in Generations!Children(g, E)
    BY <2>1 DEF Generations!Children
  <2> QED
    BY <1>11, <2>2, <2>3
<1>12. ASSUME NEW E \in SUBSET HeapObjects, roots \cup Generations!Children(g, E) \subseteq E
       PROVE  C1 \subseteq E
  <2> DEFINE D == {x \in E : HasMark(y, x)}
  <2>1. Shut(h, D)
    BY <1>11, <1>12
  <2>2. roots \subseteq D /\ D \in SUBSET HeapObjects /\ D \subseteq E
    BY <1>5, <1>12 DEF AllMarked
  <2> HIDE DEF D
  <2>3. C1 \subseteq D
    BY <1>3, <2>1, <2>2 DEF MarkedAnew
  <2> QED
    BY <2>2, <2>3
<1>13. ASSUME NEW E \in SUBSET HeapObjects, g.to_finalize \cup Generations!Children(g, E) \subseteq E
       PROVE  C2 \subseteq E
  <2> DEFINE D == {x \in E : HasMark(y, x)}
  <2>1. Shut(h, D)
    BY <1>11, <1>13
  <2>2. m.to_finalize \subseteq D /\ D \in SUBSET HeapObjects /\ D \subseteq E
    BY <1>5, <1>9, <1>13 DEF AllMarked, SameLists
  <2> HIDE DEF D
  <2>3. C2 \subseteq D
    BY <1>3, <2>1, <2>2 DEF MarkedAnew
  <2> QED
    BY <2>2, <2>3
<1> DEFINE all == roots \cup g.finalizers \cup g.finalizer_list_marked \cup g.to_finalize
<1>14. ASSUME NEW x \in HeapObjects, x \notin Generations!Reachable(g, all)
       PROVE  g.bits[x] = FREE
  <2>1. PICK E \in SUBSET HeapObjects : all \cup Generations!Children(g, E) \subseteq E /\ x \notin E
    BY <1>14 DEF Generations!Reachable
  <2>2. C1 \subseteq E /\ C2 \subseteq E
    BY <1>12, <1>13, <2>1
  <2> QED
    BY <1>6, <1>9, <2>1, <2>2
<1>15. C1 \subseteq Generations!Reachable(g, roots)
  BY <1>3, <1>12 DEF Generations!Reachable, MarkedAnew
\* Whoever is still reached was marked.
<1>16. ASSUME NEW x \in Generations!Reachable(g, all) PROVE x \in HeapObjects /\ HasMark(y, x)
  <2> DEFINE K == {z \in HeapObjects : HasMark(y, z)}
  <2>1. roots \subseteq HeapObjects
    BY DEF Between, Alive
  <2>2. Between(g, roots, K)
    BY <1>2, <1>5, <2>1, SweepInv DEF SweptAfter
  <2> HIDE DEF K
  <2>3. all \subseteq K /\ Generations!Children(g, K) \subseteq K /\ K \in SUBSET HeapObjects
    BY <2>2 DEF Between, Alive, Generations!Children
  <2> HIDE DEF all
  <2>4. x \in K
    BY <1>16, <2>3 DEF Generations!Reachable
  <2> QED
    BY <2>4 DEF K
<1>17. ASSUME NEW x \in HeapObjects \cap WeakRefs, x \in Generations!Reachable(g, all)
       PROVE  g.ref[x] \in Generations!Reachable(g, roots) \cup {Nothing}
  <2>1. HasMark(y, x)
    BY <1>16, <1>17
  <2>2. x \in L
    BY <1>10, <2>1 DEF Alive
  <2>3. g.ref[x] = m.ref[x]
    BY <1>5, <1>9, <2>1 DEF SameRefs
  <2>4. m.ref[x] \in C1 \cup {Nothing}
    BY <1>3, <1>17, <2>2 DEF MarkedAnew
  <2> QED
    BY <1>15, <2>3, <2>4
<1> QED
  BY <1>14, <1>17 DEF Collected

LEMMA CollectCounts ==
  ASSUME NEW L \in SUBSET HeapObjects, Between(heap, roots, L), PagesCounted(heap),
         Generations!Collect \/ Generations!CollectFull
  PROVE  PagesCounted(heap') /\ (just_full' => Collected(heap', roots'))
<1>1. roots' = roots
  BY DEF Generations!Collect, Generations!CollectFull
<1>2. \A h, g, K : Between(h, roots, K) /\ g \in Generations!AnyPass(h) => PagesCounted(g)
  BY PassCounts DEF Generations!AnyPass
<1>3. ASSUME NEW h, NEW K, Between(h, roots, K), PagesCounted(h), h.prev_sweep_full,
             NEW g, g \in Generations!AnyPass(h)
      PROVE  Collected(g, roots)
  BY <1>3, PassCollects
<1>4. ASSUME NEW h \in Generations!Pass(heap, {TRUE})
      PROVE  (\E K : Between(h, roots, K)) /\ PagesCounted(h) /\ h.prev_sweep_full
  <2>1. \E K \in SUBSET HeapObjects : Between(h, roots, K)
    BY PassInv
  <2>2. PagesCounted(h) /\ h.prev_sweep_full \in {TRUE}
    BY PassCounts
  <2> QED
    BY <2>1, <2>2
<1>5. CASE Generations!Collect
  <2>1. heap' \in Generations!AnyPass(heap) /\ just_full' = FALSE
    BY <1>5 DEF Generations!Collect
  <2> QED
    BY <1>2, <2>1
<1>6. CASE Generations!CollectFull
  <2>1. CASE heap.prev_sweep_full
    <3>1. heap' \in Generations!AnyPass(heap)
      BY <1>6, <2>1 DEF Generations!CollectFull
    <3>2. PagesCounted(heap') /\ Collected(heap', roots)
      BY <1>2, <1>3, <2>1, <3>1
    <3> QED
      BY <1>1, <3>2
  <2>2. CASE ~heap.prev_sweep_full
    <3>1. PICK h \in Generations!Pass(heap, {TRUE}) : heap' \in Generations!AnyPass(h)
      BY <1>6, <2>2 DEF Generations!CollectFull
    <3>2. PICK K : Between(h, roots, K)
      BY <1>4
    <3>3. PagesCounted(heap') /\ Collected(heap', roots)
      BY <1>2, <1>3, <1>4, <3>1, <3>2
    <3> QED
      BY <1>1, <3>3
  <2> QED
    BY <2>1, <2>2
<1> QED
  BY <1>5, <1>6

CountedInv == GenerationsInv /\ PagesCounted(heap) /\ (just_full => Collected(heap, roots))

\* After a full collection nothing is left that neither the program nor a finalizer can
\* reach, in whatever generation and on whatever page: the number of old cells that a page
\* remembers is right, so that it is left out only when all of them were found alive.
THEOREM FullCollectionsCollect == Generations!Spec => []FullCollects
<1>1. Generations!Init => CountedInv
  <2>1. Generations!Init => just_full = FALSE
    BY DEF Generations!Init
  <2> QED
    BY <2>1, GenerationsInitInv, InitCounts DEF CountedInv
<1>2. CountedInv /\ GenerationsInv' /\ [Generations!Next]_(Generations!vars) => CountedInv'
  <2> SUFFICES ASSUME CountedInv, [Generations!Next]_(Generations!vars)
               PROVE  PagesCounted(heap') /\ (just_full' => Collected(heap', roots'))
    BY DEF CountedInv
  <2>1. PICK L \in SUBSET HeapObjects : Between(heap, roots, L)
    BY DEF CountedInv, GenerationsInv
  <2>2. HeapShape(heap) /\ PagesCounted(heap)
    BY <2>1 DEF CountedInv, Between
  <2>3. CASE UNCHANGED Generations!vars
    BY <2>3 DEF CountedInv, Generations!vars
  <2>4. ASSUME NEW x \in HeapObjects, NEW v \in HeapObjects \cup {Nothing}, just_full' = FALSE,
               \/ Generations!Allocate(x, v) \/ (v \in HeapObjects /\ Generations!Store(x, v))
               \/ Generations!Load(x) \/ Generations!Forget(x)
               \/ Generations!AddFinalizer(x) \/ Generations!RunFinalizer(x)
        PROVE  PagesCounted(heap') /\ (just_full' => Collected(heap', roots'))
    BY <2>2, <2>4, ProgramCounts
  <2>5. CASE Generations!Collect \/ Generations!CollectFull
    BY <2>1, <2>2, <2>5, CollectCounts
  <2> QED
    BY <2>3, <2>4, <2>5 DEF Generations!Next
<1>3. CountedInv => FullCollects
  BY BitsApart DEF CountedInv, Collected, FullCollects, Generations!FullCollects, Generations!Needed
<1> QED
  BY <1>1, <1>2, <1>3, GenerationsInvariant, PTL DEF Generations!Spec

-----------------------------------------------------------------------------
(* The work-stealing queue.                                                 *)
(*                                                                           *)
(* The argument is about the indices from top to `end`, the bottom as the   *)
(* owner will leave it: their slots hold what is pending, every item once,  *)
(* and there are never more of them than slots, so no two share one.  A     *)
(* thief whose top is still the top is within them, and what it has read is *)
(* in the slot, for arrays that were grown out of keep what they had there. *)

\* The bottom, or what it will be when the owner has put it back.
end == IF q_pc[Owner] \in {"pop", "last", "restore"} THEN b + 1 ELSE bottom
InWindow(i) == i \in Int /\ top <= i /\ i < end

Buffers(n) == [0..n - 1 -> Queue!Items \cup {Nothing}]
Array == UNION {[capacity : {n}, buffer : Buffers(n)] : n \in Nat \ {0}}

OwnerSteps == {"idle", "push", "publish", "pop", "last", "restore"}
ThiefSteps == {"idle", "steal", "reach", "copy", "claim"}

QueueTypeOK ==
  /\ top \in Nat /\ bottom \in Int /\ b \in Int
  /\ arrays \in Seq(Array)
  /\ array \in 1..Len(arrays)
  /\ q_pc[Owner] \in OwnerSteps /\ \A w \in Thieves : q_pc[w] \in ThiefSteps
  /\ q_pc = [w \in Queue!Workers |-> q_pc[w]]
  /\ q_t \in [Queue!Workers -> Nat] /\ ary \in [Queue!Workers -> 1..Len(arrays)]
  /\ got = [w \in Queue!Workers |-> got[w]]
  /\ pushed \in 0..MaxItems
  /\ DOMAIN winners \subseteq 1..Queue!published

\* Where the owner is.
QueueIndices ==
  /\ top <= end /\ end - top <= Queue!capacity(array)
  /\ q_pc[Owner] \in {"push", "publish"} => b = bottom /\ q_t[Owner] <= top /\ pushed > 0
  /\ q_pc[Owner] = "push" => b - q_t[Owner] <= Queue!capacity(array)
  /\ q_pc[Owner] = "publish" => b - top < Queue!capacity(array) /\ Queue!slot(array, b) = pushed
  /\ q_pc[Owner] \in {"pop", "last", "restore"} => bottom = b
  /\ q_pc[Owner] = "last" =>
       /\ q_t[Owner] = b /\ b <= top
       /\ top = b => got[Owner] = Queue!slot(array, b)
  /\ q_pc[Owner] = "restore" => top = b + 1

\* What is between top and end is what is pending, each item in one place.
QueueContents ==
  /\ \A i \in Int : InWindow(i) => Queue!slot(array, i) \in Queue!Pending
  /\ \A i, j \in Int : InWindow(i) /\ InWindow(j) /\ i < j => Queue!slot(array, i) # Queue!slot(array, j)
  /\ \A p \in Queue!Pending : \E i \in Int : InWindow(i) /\ Queue!slot(array, i) = p

\* A thief whose top is still the top has read, or will read, what is there.
QueueClaims ==
  \A w \in Thieves :
    /\ q_t[w] <= top
    /\ q_pc[w] \in {"reach", "copy", "claim"} /\ q_t[w] = top => top < end
    /\ q_pc[w] = "copy" /\ q_t[w] = top => Queue!slot(ary[w], top) = Queue!slot(array, top)
    /\ q_pc[w] = "claim" /\ q_t[w] = top => got[w] = Queue!slot(array, top)

QueueInv == QueueTypeOK /\ QueueIndices /\ QueueContents /\ QueueClaims

\* A step of the bag, or none.
BagStep == [Queue!Bag!Next]_(Queue!Bag!bagVars)

-----------------------------------------------------------------------------
(* Remainders.                                                              *)

LEMMA ModIsIn ==
  ASSUME NEW n \in Nat \ {0}, NEW i \in Int
  PROVE  \E q \in Int, r \in 0..n - 1 : r = i % n /\ i = n * q + r
<1>1. i % n \in 0..n - 1 /\ i = n * (i \div n) + (i % n) /\ i \div n \in Int
  OBVIOUS
<1> QED
  BY <1>1

LEMMA MulMono ==
  ASSUME NEW n \in Nat \ {0}, NEW d \in Int, d >= 1
  PROVE  n * d >= n
OBVIOUS

LEMMA ModUnique ==
  ASSUME NEW n \in Nat \ {0}, NEW q \in Int, NEW r \in 0..n - 1
  PROVE  (n * q + r) % n = r
OBVIOUS

LEMMA Distributes ==
  ASSUME NEW n \in Int, NEW x \in Int, NEW y \in Int
  PROVE  n * (x + y) = n * x + n * y /\ n * (x - y) = n * x - n * y /\ (2 * n) * x = n * (2 * x)
OBVIOUS

LEMMA ModDistinct ==
  ASSUME NEW n \in Nat \ {0}, NEW i \in Int, NEW j \in Int, i < j, j - i < n
  PROVE  i % n # j % n
<1> SUFFICES ASSUME i % n = j % n PROVE FALSE
  OBVIOUS
<1>1. PICK x \in Int, r \in 0..n - 1 : r = i % n /\ i = n * x + r
  BY ModIsIn
<1>2. PICK y \in Int, s \in 0..n - 1 : s = j % n /\ j = n * y + s
  BY ModIsIn
<1>3. j - i = n * (y - x)
  <2>1. n * (y - x) = n * y - n * x
    BY Distributes
  <2>2. n * x \in Int /\ n * y \in Int
    OBVIOUS
  <2> QED
    BY <1>1, <1>2, <2>1, <2>2
<1>4. y - x >= 1
  <2>1. CASE y - x <= 0
    <3>1. n * (x - y) >= 0
      BY <2>1
    <3>2. n * (x - y) = n * x - n * y
      BY Distributes
    <3>3. n * (y - x) = n * y - n * x
      BY Distributes
    <3>4. n * x \in Int /\ n * y \in Int
      OBVIOUS
    <3> QED
      BY <1>3, <3>1, <3>2, <3>3, <3>4
  <2> QED
    BY <2>1
<1>5. n * (y - x) >= n
  BY <1>4, MulMono
<1> QED
  BY <1>3, <1>5

\* An index of the array of twice the size names the slot it had in the smaller.
LEMMA ModDouble ==
  ASSUME NEW n \in Nat \ {0}, NEW i \in Int
  PROVE  (i % (2 * n)) % n = i % n
<1>1. 2 * n \in Nat \ {0}
  OBVIOUS
<1>2. PICK q \in Int, r \in 0..2 * n - 1 : r = i % (2 * n) /\ i = (2 * n) * q + r
  BY <1>1, ModIsIn
<1>3. PICK p \in Int, m \in 0..n - 1 : m = r % n /\ r = n * p + m
  BY ModIsIn
<1>4. i = n * (2 * q + p) + m
  <2>1. (2 * n) * q = n * (2 * q) /\ n * (2 * q + p) = n * (2 * q) + n * p
    <3>1. 2 * q \in Int
      OBVIOUS
    <3> QED
      BY <3>1, Distributes
  <2>2. PICK u \in Int, v \in Int : u = n * (2 * q) /\ v = n * p
    OBVIOUS
  <2>3. i = u + (v + m)
    BY <1>2, <1>3, <2>1, <2>2
  <2>4. n * (2 * q + p) = u + v
    BY <2>1, <2>2
  <2> QED
    BY <2>2, <2>3, <2>4
<1>5. (n * (2 * q + p) + m) % n = m
  <2>1. 2 * q + p \in Int
    OBVIOUS
  <2> QED
    BY <2>1, ModUnique
<1> QED
  BY <1>2, <1>3, <1>4, <1>5

-----------------------------------------------------------------------------
(* The arrays.                                                              *)

LEMMA Capacity ==
  ASSUME QueueTypeOK, NEW a \in 1..Len(arrays)
  PROVE  /\ Queue!capacity(a) \in Nat \ {0}
         /\ arrays[a] = [capacity |-> Queue!capacity(a), buffer |-> arrays[a].buffer]
         /\ arrays[a].buffer \in Buffers(Queue!capacity(a))
<1>1. arrays[a] \in Array
  BY DEF QueueTypeOK
<1>2. PICK n \in Nat \ {0} : arrays[a] \in [capacity : {n}, buffer : Buffers(n)]
  BY <1>1 DEF Array
<1> QED
  BY <1>2 DEF Queue!capacity

LEMMA IsArray ==
  ASSUME NEW n \in Nat \ {0}, NEW f \in Buffers(n)
  PROVE  [capacity |-> n, buffer |-> f] \in Array
<1>1. [capacity |-> n, buffer |-> f] \in [capacity : {n}, buffer : Buffers(n)]
  OBVIOUS
<1> QED
  BY <1>1 DEF Array

\* What a push writes goes into a slot that no index before it uses.
LEMMA Written ==
  ASSUME QueueTypeOK, b >= 0, pushed \in Queue!Items,
         arrays' = [arrays EXCEPT ![array].buffer[b % Queue!capacity(array)] = pushed]
  PROVE  /\ arrays' \in Seq(Array) /\ Len(arrays') = Len(arrays)
         /\ \A a \in 1..Len(arrays) : arrays'[a].capacity = Queue!capacity(a)
         /\ arrays'[array].buffer[b % Queue!capacity(array)] = pushed
         /\ \A a \in 1..Len(arrays) : a # array => arrays'[a] = arrays[a]
         /\ \A i \in Int : i < b /\ b - i < Queue!capacity(array) =>
              arrays'[array].buffer[i % Queue!capacity(array)] = Queue!slot(array, i)
<1> DEFINE n == Queue!capacity(array)
           k == b % n
           f == arrays[array].buffer
           g == [f EXCEPT ![k] = pushed]
<1>1. /\ n \in Nat \ {0} /\ f \in Buffers(n)
      /\ arrays[array] = [capacity |-> n, buffer |-> f]
  BY Capacity DEF QueueTypeOK
<1>2. k \in 0..n - 1
  BY <1>1, ModIsIn DEF QueueTypeOK
<1>3. g \in Buffers(n) /\ g[k] = pushed
  BY <1>1, <1>2 DEF Buffers
<1>4. arrays' = [arrays EXCEPT ![array] = [capacity |-> n, buffer |-> g]]
  <2>1. arrays' = [arrays EXCEPT ![array] = [arrays[array] EXCEPT !.buffer = g]]
    BY DEF QueueTypeOK
  <2>2. [arrays[array] EXCEPT !.buffer = g] = [capacity |-> n, buffer |-> g]
    BY <1>1
  <2> QED
    BY <2>1, <2>2
<1>5. [capacity |-> n, buffer |-> g] \in Array
  BY <1>1, <1>3, IsArray
<1>6. /\ arrays' \in Seq(Array) /\ Len(arrays') = Len(arrays)
      /\ \A a \in 1..Len(arrays) : a # array => arrays'[a] = arrays[a]
      /\ arrays'[array] = [capacity |-> n, buffer |-> g]
  <2> DEFINE e == [capacity |-> n, buffer |-> g]
  <2>1. arrays \in Seq(Array) /\ array \in 1..Len(arrays)
    BY DEF QueueTypeOK
  <2>2. arrays' = [arrays EXCEPT ![array] = e] /\ e \in Array
    BY <1>4, <1>5
  <2> HIDE DEF e
  <2>3. /\ arrays' \in Seq(Array) /\ Len(arrays') = Len(arrays)
        /\ \A a \in 1..Len(arrays) : arrays'[a] = IF a = array THEN e ELSE arrays[a]
    BY <2>1, <2>2, ExceptSeq
  <2> QED
    BY <2>1, <2>3 DEF e
<1>7. \A a \in 1..Len(arrays) : arrays'[a].capacity = Queue!capacity(a)
  <2> SUFFICES ASSUME NEW a \in 1..Len(arrays) PROVE arrays'[a].capacity = Queue!capacity(a)
    OBVIOUS
  <2>1. CASE a = array
    <3>1. arrays'[array].capacity = n
      BY <1>6
    <3> QED
      BY <2>1, <3>1
  <2>2. CASE a # array
    BY <1>6, <2>2 DEF Queue!capacity
  <2> QED
    BY <2>1, <2>2
<1>8. ASSUME NEW i \in Int, i < b, b - i < n
      PROVE  arrays'[array].buffer[i % n] = Queue!slot(array, i)
  <2>1. i % n # k
    BY <1>1, <1>8, ModDistinct DEF QueueTypeOK
  <2>2. i % n \in 0..n - 1
    BY <1>1, ModIsIn
  <2>3. g[i % n] = f[i % n]
    BY <1>1, <2>1, <2>2 DEF Buffers
  <2> QED
    BY <1>6, <2>3 DEF Queue!slot
<1> QED
  BY <1>3, <1>6, <1>7, <1>8

\* The array of twice the size has what was at the indices from t on.
LEMMA Grown ==
  ASSUME QueueTypeOK, Queue!Setting, Queue!Grow
  PROVE  /\ arrays' \in Seq(Array) /\ Len(arrays') = Len(arrays) + 1
         /\ array' \in 1..Len(arrays') /\ Queue!capacity(array)' = 2 * Queue!capacity(array)
         /\ \A a \in 1..Len(arrays) : arrays'[a] = arrays[a]
         /\ \A i \in Int : q_t[Owner] <= i /\ i < q_t[Owner] + Queue!capacity(array) =>
              Queue!slot(array, i)' = Queue!slot(array, i)
<1> DEFINE n == Queue!capacity(array)
           m == 2 * n
           f == arrays[array].buffer
           h == q_t[Owner]
           copy == [i \in 0..m - 1 |->
                      IF \E k \in 0..n - 1 : (h + k) % m = i THEN Queue!slot(array, i) ELSE Nothing]
<1>1. n \in Nat \ {0} /\ m \in Nat \ {0} /\ f \in Buffers(n) /\ h \in Nat
  <2>1. array \in 1..Len(arrays) /\ q_t[Owner] \in Nat
    BY DEF QueueTypeOK, Queue!Workers
  <2>2. n \in Nat \ {0} /\ f \in Buffers(n)
    BY <2>1, Capacity
  <2> QED
    BY <2>1, <2>2
<1>2. arrays' = Append(arrays, [capacity |-> m, buffer |-> copy]) /\ array' = Len(arrays) + 1
  BY DEF Queue!Grow
<1>3. \A i \in Int : Queue!slot(array, i) \in Queue!Items \cup {Nothing}
  <2> SUFFICES ASSUME NEW i \in Int PROVE Queue!slot(array, i) \in Queue!Items \cup {Nothing}
    OBVIOUS
  <2>1. i % n \in 0..n - 1
    BY <1>1, ModIsIn
  <2> QED
    BY <1>1, <2>1 DEF Buffers, Queue!slot
<1>4. copy \in Buffers(m)
  <2>1. \A i \in 0..m - 1 : copy[i] \in Queue!Items \cup {Nothing}
    BY <1>3
  <2> QED
    BY <2>1 DEF Buffers
<1>5. [capacity |-> m, buffer |-> copy] \in Array
  <2> HIDE DEF copy, m
  <2> QED
    BY <1>1, <1>4, IsArray
<1>6. /\ arrays' \in Seq(Array) /\ Len(arrays') = Len(arrays) + 1
      /\ \A a \in 1..Len(arrays) : arrays'[a] = arrays[a]
      /\ arrays'[Len(arrays) + 1] = [capacity |-> m, buffer |-> copy]
  <2> HIDE DEF copy, m
  <2> QED
    BY <1>2, <1>5 DEF QueueTypeOK
<1>7. array' \in 1..Len(arrays') /\ Queue!capacity(array)' = m
  BY <1>1, <1>2, <1>6 DEF Queue!capacity, QueueTypeOK
<1>8. ASSUME NEW i \in Int, h <= i, i < h + n
      PROVE  Queue!slot(array, i)' = Queue!slot(array, i)
  <2>1. i % m \in 0..m - 1
    BY <1>1, ModIsIn
  <2>2. i - h \in 0..n - 1 /\ h + (i - h) = i
    BY <1>1, <1>8
  <2>3. \E k \in 0..n - 1 : (h + k) % m = i % m
    BY <2>2
  <2>4. Queue!slot(array, i)' = copy[i % m]
    <3>1. Queue!slot(array, i)' = arrays'[array'].buffer[i % Queue!capacity(array)']
      BY DEF Queue!slot, Queue!capacity
    <3> HIDE DEF copy, m
    <3>2. arrays'[array'].buffer = copy
      BY <1>2, <1>6
    <3> QED
      BY <1>7, <3>1, <3>2
  <2>5. copy[i % m] = Queue!slot(array, i % m)
    BY <2>1, <2>3
  <2>6. (i % m) % n = i % n
    BY <1>1, ModDouble
  <2> QED
    BY <2>4, <2>5, <2>6 DEF Queue!slot
<1> QED
  BY <1>6, <1>7, <1>8

-----------------------------------------------------------------------------
(* The contents.                                                            *)

LEMMA Undisturbed ==
  ASSUME QueueContents, top' = top, end' = end, Queue!published' = Queue!published, winners' = winners,
         \A i \in Int : InWindow(i) => Queue!slot(array, i)' = Queue!slot(array, i)
  PROVE  QueueContents'
<1>1. Queue!Pending' = Queue!Pending /\ \A i \in Int : InWindow(i)' <=> InWindow(i)
  BY DEF Queue!Pending, InWindow
<1> QED
  BY <1>1 DEF QueueContents

LEMMA Stutters == ASSUME Queue!published' = Queue!published, winners' = winners PROVE BagStep
BY DEF BagStep, Queue!Bag!bagVars, Queue!Pending

\* Who takes what is at index k, at one end of the window, takes what is pending.
LEMMA Kept ==
  ASSUME QueueContents, NEW k \in Int, InWindow(k), NEW w \in Queue!Workers, Queue!Keep(Queue!slot(array, k), w),
         \A i \in Int : InWindow(i)' <=> InWindow(i) /\ i # k,
         Queue!published' = Queue!published, UNCHANGED <<arrays, array>>
  PROVE  /\ QueueContents' /\ Queue!Bag!Take(Queue!slot(array, k), w)
         /\ DOMAIN winners' = DOMAIN winners \cup {Queue!slot(array, k)} /\ Queue!slot(array, k) \in 1..Queue!published
<1> DEFINE e == Queue!slot(array, k)
<1>1. e \in Queue!Pending /\ e \in 1..Queue!published
  BY DEF QueueContents, Queue!Pending
<1>2. DOMAIN winners' = DOMAIN winners \cup {e}
  BY DEF Queue!Keep
<1>3. Queue!Pending' = Queue!Pending \ {e}
  BY <1>2 DEF Queue!Pending
<1>4. \A i \in Int : Queue!slot(array, i)' = Queue!slot(array, i)
  BY DEF Queue!slot, Queue!capacity
<1>5. \A i \in Int : InWindow(i) /\ i # k => Queue!slot(array, i) # e
  <2> SUFFICES ASSUME NEW i \in Int, InWindow(i), i # k PROVE Queue!slot(array, i) # e
    OBVIOUS
  <2>1. i < k \/ k < i
    OBVIOUS
  <2> QED
    BY <2>1 DEF QueueContents
<1>6. \A i \in Int : InWindow(i)' => Queue!slot(array, i)' \in Queue!Pending'
  BY <1>3, <1>4, <1>5 DEF QueueContents
<1>7. \A i, j \in Int : InWindow(i)' /\ InWindow(j)' /\ i < j => Queue!slot(array, i)' # Queue!slot(array, j)'
  BY <1>4 DEF QueueContents
<1>8. \A p \in Queue!Pending' : \E i \in Int : InWindow(i)' /\ Queue!slot(array, i)' = p
  BY <1>3, <1>4 DEF QueueContents
<1>9. Queue!Bag!Take(e, w)
  BY <1>1, <1>3 DEF Queue!Keep, Queue!Bag!Take
<1> QED
  BY <1>1, <1>2, <1>6, <1>7, <1>8, <1>9 DEF QueueContents

-----------------------------------------------------------------------------
(* The invariant.                                                           *)

LEMMA QueueInitInv == ASSUME Queue!Setting, Queue!Init PROVE QueueInv
<1>1. /\ q_pc[Owner] = "idle" /\ Queue!published = 0 /\ Queue!Pending = {} /\ end = 0
      /\ \A w \in Queue!Workers : q_pc[w] = "idle"
  BY DEF Queue!Init, Queue!published, Queue!Pending, end, Queue!Workers
<1>2. arrays \in Seq(Array) /\ Len(arrays) = 1 /\ Queue!capacity(1) = InitialCapacity
  <2> DEFINE f == [i \in 0..InitialCapacity - 1 |-> Nothing]
  <2>1. f \in Buffers(InitialCapacity)
    BY DEF Buffers
  <2>2. [capacity |-> InitialCapacity, buffer |-> f] \in Array
    BY <2>1, IsArray DEF Queue!Setting
  <2>3. arrays = << [capacity |-> InitialCapacity, buffer |-> f] >>
    BY DEF Queue!Init
  <2> HIDE DEF f
  <2> QED
    BY <2>2, <2>3 DEF Queue!capacity
<1>3. QueueTypeOK
  BY <1>1, <1>2 DEF Queue!Init, QueueTypeOK, Queue!Setting, Queue!Workers, OwnerSteps, ThiefSteps
<1>4. QueueIndices
  BY <1>1, <1>2 DEF Queue!Init, QueueIndices, Queue!Setting
<1>5. QueueContents
  BY <1>1 DEF Queue!Init, QueueContents, InWindow
<1>6. QueueClaims
  BY <1>1 DEF Queue!Init, QueueClaims, Queue!Workers
<1> QED
  BY <1>3, <1>4, <1>5, <1>6 DEF QueueInv

LEMMA Basics ==
  ASSUME Queue!Setting, QueueTypeOK
  PROVE  /\ Queue!capacity(array) \in Nat \ {0} /\ Len(arrays) \in Nat /\ array \in 1..Len(arrays)
         /\ top \in Nat /\ bottom \in Int /\ b \in Int /\ end \in Int
         /\ Owner \in Queue!Workers /\ \A w \in Thieves : w \in Queue!Workers /\ w # Owner
         /\ q_t[Owner] \in Nat /\ \A w \in Thieves : q_t[w] \in Nat
<1>1. /\ array \in 1..Len(arrays) /\ arrays \in Seq(Array)
      /\ top \in Nat /\ bottom \in Int /\ b \in Int /\ q_t \in [Queue!Workers -> Nat]
  BY DEF QueueTypeOK
<1>2. Owner \in Queue!Workers /\ \A w \in Thieves : w \in Queue!Workers /\ w # Owner
  BY DEF Queue!Setting, Queue!Workers
<1>3. Queue!capacity(array) \in Nat \ {0}
  BY <1>1, Capacity
<1>4. Len(arrays) \in Nat
  BY <1>1
<1>5. end \in Int
  BY <1>1 DEF end
<1>6. q_t[Owner] \in Nat /\ \A w \in Thieves : q_t[w] \in Nat
  BY <1>1, <1>2
<1> QED
  BY <1>1, <1>2, <1>3, <1>4, <1>5, <1>6

LEMMA OwnerMoves ==
  ASSUME Queue!Setting, QueueTypeOK, NEW s \in OwnerSteps, Queue!Goto(Owner, s)
  PROVE  /\ q_pc'[Owner] = s /\ \A w \in Thieves : q_pc'[w] = q_pc[w]
         /\ q_pc' = [w \in Queue!Workers |-> q_pc'[w]]
         /\ q_pc'[Owner] \in OwnerSteps /\ \A w \in Thieves : q_pc'[w] \in ThiefSteps
<1>1. Owner \in Queue!Workers /\ \A w \in Thieves : w \in Queue!Workers /\ w # Owner
  BY Basics
<1>2. q_pc = [w \in Queue!Workers |-> q_pc[w]] /\ q_pc' = [q_pc EXCEPT ![Owner] = s]
  BY DEF QueueTypeOK, Queue!Goto
<1>3. q_pc'[Owner] = s /\ \A w \in Thieves : q_pc'[w] = q_pc[w]
  BY <1>1, <1>2
<1>4. q_pc' = [w \in Queue!Workers |-> q_pc'[w]]
  BY <1>2
<1> QED
  BY <1>3, <1>4 DEF QueueTypeOK

LEMMA ThiefMoves ==
  ASSUME Queue!Setting, QueueTypeOK, NEW w \in Thieves, NEW s \in ThiefSteps, Queue!Goto(w, s)
  PROVE  /\ q_pc'[w] = s /\ q_pc'[Owner] = q_pc[Owner]
         /\ \A v \in Thieves : v # w => q_pc'[v] = q_pc[v]
         /\ q_pc' = [v \in Queue!Workers |-> q_pc'[v]]
         /\ q_pc'[Owner] \in OwnerSteps /\ \A v \in Thieves : q_pc'[v] \in ThiefSteps
<1>1. Owner \in Queue!Workers /\ \A v \in Thieves : v \in Queue!Workers /\ v # Owner
  BY Basics
<1>2. q_pc = [v \in Queue!Workers |-> q_pc[v]] /\ q_pc' = [q_pc EXCEPT ![w] = s]
  BY DEF QueueTypeOK, Queue!Goto
<1>3. /\ q_pc'[w] = s /\ q_pc'[Owner] = q_pc[Owner]
      /\ \A v \in Thieves : v # w => q_pc'[v] = q_pc[v]
  BY <1>1, <1>2
<1>4. q_pc' = [v \in Queue!Workers |-> q_pc'[v]]
  BY <1>2
<1> QED
  BY <1>3, <1>4 DEF QueueTypeOK

\* An owner's step that leaves the window and what is in it alone.
LEMMA Still ==
  ASSUME Queue!Setting, QueueInv, UNCHANGED <<top, arrays, array, ary, winners>>, pushed' \in 0..MaxItems,
         end' = end, Queue!published' = Queue!published, bottom' \in Int, b' \in Int,
         q_t' \in [Queue!Workers -> Nat], got' = [w \in Queue!Workers |-> got'[w]],
         q_pc' = [w \in Queue!Workers |-> q_pc'[w]], q_pc'[Owner] \in OwnerSteps,
         \A w \in Thieves : q_pc'[w] = q_pc[w] /\ q_t'[w] = q_t[w] /\ got'[w] = got[w]
  PROVE  QueueTypeOK' /\ QueueContents' /\ QueueClaims'
<1>1. QueueTypeOK'
  BY DEF QueueInv, QueueTypeOK
<1>2. QueueContents'
  BY Undisturbed DEF QueueInv, Queue!slot, Queue!capacity
<1>3. QueueClaims'
  BY DEF QueueInv, QueueClaims, Queue!slot, Queue!capacity
<1> QED
  BY <1>1, <1>2, <1>3

LEMMA PushReadTopInv == ASSUME Queue!Setting, QueueInv, Queue!PushReadTop PROVE QueueInv' /\ BagStep
<1>1. /\ UNCHANGED <<top, bottom, arrays, array, ary, got, winners>>
      /\ q_pc[Owner] = "idle" /\ Queue!Goto(Owner, "push") /\ pushed < MaxItems
      /\ pushed' = pushed + 1 /\ b' = bottom /\ q_t' = [q_t EXCEPT ![Owner] = top]
  BY DEF Queue!PushReadTop
<1>2. /\ q_pc'[Owner] = "push" /\ \A w \in Thieves : q_pc'[w] = q_pc[w]
      /\ q_pc' = [w \in Queue!Workers |-> q_pc'[w]] /\ q_pc'[Owner] \in OwnerSteps
  BY <1>1, OwnerMoves DEF QueueInv, OwnerSteps
<1>3. /\ bottom \in Int /\ top \in Nat /\ pushed \in 0..MaxItems /\ MaxItems \in Nat
      /\ Owner \in Queue!Workers /\ \A w \in Thieves : w \in Queue!Workers /\ w # Owner
  BY Basics DEF QueueInv, QueueTypeOK, Queue!Setting
<1>4. end' = end /\ end = bottom /\ Queue!published' = Queue!published
  BY <1>1, <1>2, <1>3 DEF end, Queue!published
<1>5. q_t' \in [Queue!Workers -> Nat] /\ q_t'[Owner] = top /\ \A w \in Thieves : q_t'[w] = q_t[w]
  BY <1>1, <1>3 DEF QueueInv, QueueTypeOK
<1>6. QueueTypeOK' /\ QueueContents' /\ QueueClaims'
  <2>1. /\ bottom' \in Int /\ b' \in Int /\ pushed' \in 0..MaxItems
        /\ got' = [w \in Queue!Workers |-> got'[w]] /\ \A w \in Thieves : got'[w] = got[w]
    BY <1>1, <1>3 DEF QueueInv, QueueTypeOK
  <2> QED
    BY <1>1, <1>2, <1>4, <1>5, <2>1, Still
<1>7. QueueIndices'
  <2>1. Queue!capacity(array)' = Queue!capacity(array) /\ top <= end /\ end - top <= Queue!capacity(array)
    BY <1>1 DEF QueueInv, QueueIndices, Queue!capacity
  <2> QED
    BY <1>1, <1>2, <1>3, <1>4, <1>5, <2>1 DEF QueueIndices
<1>8. BagStep
  BY <1>1, <1>4, Stutters
<1> QED
  BY <1>6, <1>7, <1>8 DEF QueueInv

LEMMA GrowInv == ASSUME Queue!Setting, QueueInv, Queue!Grow PROVE QueueInv' /\ BagStep
<1>1. UNCHANGED <<top, bottom, q_pc, q_t, ary, b, got, pushed, winners>> /\ q_pc[Owner] = "push"
  BY DEF Queue!Grow, Queue!history
<1>2. end' = end /\ end = b /\ Queue!published' = Queue!published
  BY <1>1 DEF end, Queue!published, QueueInv, QueueIndices
<1>3. /\ arrays' \in Seq(Array) /\ Len(arrays') = Len(arrays) + 1
      /\ array' \in 1..Len(arrays') /\ Queue!capacity(array)' = 2 * Queue!capacity(array)
      /\ \A a \in 1..Len(arrays) : arrays'[a] = arrays[a]
      /\ \A i \in Int : q_t[Owner] <= i /\ i < q_t[Owner] + Queue!capacity(array) =>
           Queue!slot(array, i)' = Queue!slot(array, i)
  BY Grown DEF QueueInv
<1>4. /\ Queue!capacity(array) \in Nat \ {0} /\ Len(arrays) \in Nat /\ q_t[Owner] \in Nat
      /\ top \in Nat /\ b \in Int
  BY Basics DEF QueueInv
<1>5. /\ q_t[Owner] <= top /\ b - q_t[Owner] <= Queue!capacity(array) /\ b - top <= Queue!capacity(array)
      /\ top <= b
  BY <1>1, <1>2 DEF QueueInv, QueueIndices
<1>6. ASSUME NEW i \in Int, InWindow(i) PROVE Queue!slot(array, i)' = Queue!slot(array, i)
  <2>1. q_t[Owner] <= i /\ i < q_t[Owner] + Queue!capacity(array)
    BY <1>2, <1>4, <1>5, <1>6 DEF InWindow
  <2> QED
    BY <1>3, <2>1
<1>7. QueueTypeOK'
  <2>1. ary' \in [Queue!Workers -> 1..Len(arrays')]
    <3>1. ary \in [Queue!Workers -> 1..Len(arrays)]
      BY DEF QueueInv, QueueTypeOK
    <3>2. \A a \in 1..Len(arrays) : a \in 1..Len(arrays')
      BY <1>3, <1>4
    <3> QED
      BY <1>1, <3>1, <3>2
  <2> QED
    BY <1>1, <1>2, <1>3, <2>1 DEF QueueInv, QueueTypeOK
<1>8. QueueIndices'
  <2>1. /\ q_pc'[Owner] = "push" /\ q_t'[Owner] = q_t[Owner] /\ top' = top /\ b' = b /\ bottom' = bottom
        /\ end' = b /\ pushed' = pushed
    BY <1>1, <1>2
  <2>2. b = bottom /\ pushed > 0
    BY <1>1 DEF QueueInv, QueueIndices
  <2>3. b - top <= 2 * Queue!capacity(array) /\ b - q_t[Owner] <= 2 * Queue!capacity(array)
    BY <1>4, <1>5
  <2> QED
    BY <1>3, <1>5, <2>1, <2>2, <2>3 DEF QueueIndices
<1>9. QueueContents'
  BY <1>1, <1>2, <1>6, Undisturbed DEF QueueInv
<1>10. QueueClaims'
  <2> SUFFICES ASSUME NEW w \in Thieves
        PROVE  /\ q_t[w] <= top
               /\ q_pc[w] \in {"reach", "copy", "claim"} /\ q_t[w] = top => top < end
               /\ q_pc[w] = "copy" /\ q_t[w] = top => Queue!slot(ary[w], top)' = Queue!slot(array, top)'
               /\ q_pc[w] = "claim" /\ q_t[w] = top => got[w] = Queue!slot(array, top)'
    BY <1>1, <1>2 DEF QueueClaims, Queue!slot, Queue!capacity
  <2>1. top < end => Queue!slot(array, top)' = Queue!slot(array, top)
    BY <1>1, <1>4, <1>6 DEF InWindow, Queue!slot, Queue!capacity
  <2>2. Queue!slot(ary[w], top)' = Queue!slot(ary[w], top)
    <3>1. ary[w] \in 1..Len(arrays) /\ ary'[w] = ary[w] /\ top' = top
      BY <1>1 DEF QueueInv, QueueTypeOK, Queue!Workers
    <3> QED
      BY <1>1, <1>3, <3>1 DEF Queue!slot, Queue!capacity
  <2> QED
    BY <2>1, <2>2 DEF QueueInv, QueueClaims
<1>11. BagStep
  BY <1>1, <1>2, Stutters
<1> QED
  BY <1>7, <1>8, <1>9, <1>10, <1>11 DEF QueueInv

LEMMA PushWriteInv == ASSUME Queue!Setting, QueueInv, Queue!PushWrite PROVE QueueInv' /\ BagStep
<1>1. /\ UNCHANGED <<top, bottom, array, q_t, ary, b, got, pushed, winners>> /\ q_pc[Owner] = "push"
      /\ Queue!Goto(Owner, "publish")
      /\ arrays' = [arrays EXCEPT ![array].buffer[b % Queue!capacity(array)] = pushed]
  BY DEF Queue!PushWrite, Queue!history
<1>2. /\ q_pc'[Owner] = "publish" /\ \A w \in Thieves : q_pc'[w] = q_pc[w]
      /\ q_pc' = [w \in Queue!Workers |-> q_pc'[w]]
      /\ q_pc'[Owner] \in OwnerSteps /\ \A w \in Thieves : q_pc'[w] \in ThiefSteps
  BY <1>1, OwnerMoves DEF QueueInv, OwnerSteps
<1>3. end' = end /\ end = b /\ Queue!published' = Queue!published
  BY <1>1, <1>2 DEF end, Queue!published, QueueInv, QueueIndices
<1>4. /\ Queue!capacity(array) \in Nat \ {0} /\ Len(arrays) \in Nat /\ q_t[Owner] \in Nat
      /\ top \in Nat /\ b \in Int /\ array \in 1..Len(arrays)
  BY Basics DEF QueueInv
<1>5. /\ q_t[Owner] <= top /\ top <= b /\ b - q_t[Owner] < Queue!capacity(array) /\ b = bottom
      /\ pushed \in Queue!Items
  <2>1. ~(b - q_t[Owner] > Queue!capacity(array) - 1)
    BY DEF Queue!PushWrite, Queue!is_full
  <2>2. q_t[Owner] <= top /\ top <= b /\ b = bottom /\ pushed > 0
    BY <1>1, <1>3 DEF QueueInv, QueueIndices
  <2>3. pushed \in 0..MaxItems /\ MaxItems \in Nat
    BY DEF QueueInv, QueueTypeOK, Queue!Setting
  <2> QED
    BY <1>4, <2>1, <2>2, <2>3 DEF Queue!Items
<1>6. /\ arrays' \in Seq(Array) /\ Len(arrays') = Len(arrays)
      /\ \A a \in 1..Len(arrays) : arrays'[a].capacity = Queue!capacity(a)
      /\ arrays'[array].buffer[b % Queue!capacity(array)] = pushed
      /\ \A a \in 1..Len(arrays) : a # array => arrays'[a] = arrays[a]
      /\ \A i \in Int : i < b /\ b - i < Queue!capacity(array) =>
           arrays'[array].buffer[i % Queue!capacity(array)] = Queue!slot(array, i)
  <2>1. QueueTypeOK /\ b >= 0
    BY <1>4, <1>5 DEF QueueInv
  <2> QED
    BY <1>1, <1>5, <2>1, Written
<1>7. Queue!capacity(array)' = Queue!capacity(array) /\ Queue!slot(array, b)' = pushed
  BY <1>1, <1>4, <1>6 DEF Queue!slot, Queue!capacity
<1>8. \A i \in Int : InWindow(i) => Queue!slot(array, i)' = Queue!slot(array, i)
  <2> SUFFICES ASSUME NEW i \in Int, InWindow(i) PROVE Queue!slot(array, i)' = Queue!slot(array, i)
    OBVIOUS
  <2>1. i < b /\ b - i < Queue!capacity(array)
    BY <1>3, <1>4, <1>5 DEF InWindow
  <2>2. Queue!slot(array, i)' = arrays'[array].buffer[i % Queue!capacity(array)]
    BY <1>1, <1>7 DEF Queue!slot, Queue!capacity
  <2> QED
    BY <1>6, <2>1, <2>2
<1>9. QueueTypeOK'
  BY <1>1, <1>2, <1>3, <1>6 DEF QueueInv, QueueTypeOK
<1>10. QueueIndices'
  BY <1>1, <1>2, <1>3, <1>4, <1>5, <1>7 DEF QueueInv, QueueIndices
<1>11. QueueContents'
  BY <1>1, <1>3, <1>8, Undisturbed DEF QueueInv
<1>12. QueueClaims'
  <2> SUFFICES ASSUME NEW w \in Thieves
        PROVE  /\ q_t[w] <= top
               /\ q_pc[w] \in {"reach", "copy", "claim"} /\ q_t[w] = top => top < end
               /\ q_pc[w] = "copy" /\ q_t[w] = top => Queue!slot(ary[w], top)' = Queue!slot(array, top)'
               /\ q_pc[w] = "claim" /\ q_t[w] = top => got[w] = Queue!slot(array, top)'
    BY <1>1, <1>2, <1>3 DEF QueueClaims, Queue!slot, Queue!capacity
  <2>1. top < end => Queue!slot(array, top)' = Queue!slot(array, top)
    BY <1>1, <1>4, <1>8 DEF InWindow, Queue!slot, Queue!capacity
  <2>2. ary[w] # array => Queue!slot(ary[w], top)' = Queue!slot(ary[w], top)
    <3>1. ary[w] \in 1..Len(arrays) /\ ary'[w] = ary[w] /\ top' = top
      BY <1>1 DEF QueueInv, QueueTypeOK, Queue!Workers
    <3> QED
      BY <1>6, <3>1 DEF Queue!slot, Queue!capacity
  <2>3. ary[w] = array => Queue!slot(ary[w], top)' = Queue!slot(array, top)'
    BY <1>1 DEF Queue!slot, Queue!capacity
  <2> QED
    BY <2>1, <2>2, <2>3 DEF QueueInv, QueueClaims
<1>13. BagStep
  BY <1>1, <1>3, Stutters
<1> QED
  BY <1>9, <1>10, <1>11, <1>12, <1>13 DEF QueueInv

\* The window gains the index of the item that is published.
LEMMA PushPublishInv == ASSUME Queue!Setting, QueueInv, Queue!PushPublish PROVE QueueInv' /\ BagStep
<1>1. /\ UNCHANGED <<top, arrays, array, q_t, ary, b, got, pushed, winners>>
      /\ q_pc[Owner] = "publish" /\ bottom' = b + 1 /\ Queue!Goto(Owner, "idle")
  BY DEF Queue!PushPublish, Queue!history
<1>2. /\ q_pc'[Owner] = "idle" /\ \A w \in Thieves : q_pc'[w] = q_pc[w]
      /\ q_pc' = [w \in Queue!Workers |-> q_pc'[w]]
      /\ q_pc'[Owner] \in OwnerSteps /\ \A w \in Thieves : q_pc'[w] \in ThiefSteps
  BY <1>1, OwnerMoves DEF QueueInv, OwnerSteps
<1>3. /\ Queue!capacity(array) \in Nat \ {0} /\ top \in Nat /\ b \in Int /\ pushed \in 0..MaxItems
      /\ MaxItems \in Nat
  BY Basics DEF QueueInv, QueueTypeOK, Queue!Setting
<1>4. /\ end' = b + 1 /\ end = b /\ Queue!published' = pushed /\ Queue!published = pushed - 1
  BY <1>1, <1>2 DEF end, Queue!published, QueueInv, QueueIndices
<1>5. /\ top <= b /\ b - top < Queue!capacity(array) /\ Queue!slot(array, b) = pushed /\ pushed > 0
      /\ DOMAIN winners \subseteq 1..pushed - 1
  BY <1>1, <1>4 DEF QueueInv, QueueTypeOK, QueueIndices
<1>6. pushed \notin Queue!Pending /\ pushed \notin DOMAIN winners /\ Queue!Pending' = Queue!Pending \cup {pushed}
  BY <1>1, <1>3, <1>4, <1>5 DEF Queue!Pending
<1>7. /\ \A i \in Int : Queue!slot(array, i)' = Queue!slot(array, i)
      /\ \A i \in Int : InWindow(i)' <=> InWindow(i) \/ i = b
      /\ ~InWindow(b)
  BY <1>1, <1>3, <1>4, <1>5 DEF Queue!slot, Queue!capacity, InWindow
<1>8. QueueTypeOK'
  BY <1>1, <1>2, <1>3, <1>4, <1>5 DEF QueueInv, QueueTypeOK
<1>9. QueueIndices'
  BY <1>1, <1>2, <1>3, <1>4, <1>5 DEF QueueInv, QueueIndices, Queue!capacity
<1>10. QueueContents'
  <2>1. \A i \in Int : InWindow(i)' => Queue!slot(array, i)' \in Queue!Pending'
    BY <1>5, <1>6, <1>7 DEF QueueInv, QueueContents
  <2>2. ASSUME NEW i \in Int, NEW j \in Int, InWindow(i)', InWindow(j)', i < j
        PROVE  Queue!slot(array, i)' # Queue!slot(array, j)'
    <3>1. InWindow(i)
      BY <1>1, <1>3, <1>4, <2>2 DEF InWindow
    <3>2. Queue!slot(array, i) \in Queue!Pending
      BY <3>1 DEF QueueInv, QueueContents
    <3>3. CASE j = b
      BY <1>5, <1>6, <1>7, <3>2, <3>3
    <3>4. CASE j # b
      BY <1>7, <2>2, <3>1, <3>4 DEF QueueInv, QueueContents
    <3> QED
      BY <3>3, <3>4
  <2>3. \A p \in Queue!Pending' : \E i \in Int : InWindow(i)' /\ Queue!slot(array, i)' = p
    BY <1>3, <1>5, <1>6, <1>7 DEF QueueInv, QueueContents
  <2> QED
    BY <2>1, <2>2, <2>3 DEF QueueContents
<1>11. QueueClaims'
  BY <1>1, <1>2, <1>3, <1>4 DEF QueueInv, QueueClaims, Queue!slot, Queue!capacity
<1>12. BagStep
  <2>1. Queue!Bag!Put(pushed)
    BY <1>1, <1>6 DEF Queue!Bag!Put
  <2>2. pushed \in Queue!Items
    BY <1>3, <1>5 DEF Queue!Items
  <2> QED
    BY <2>1, <2>2 DEF BagStep, Queue!Bag!Next
<1> QED
  BY <1>8, <1>9, <1>10, <1>11, <1>12 DEF QueueInv

LEMMA PopDecrementInv == ASSUME Queue!Setting, QueueInv, Queue!PopDecrement PROVE QueueInv' /\ BagStep
<1>1. /\ UNCHANGED <<top, arrays, array, q_t, ary, got, pushed, winners>>
      /\ q_pc[Owner] = "idle" /\ b' = bottom - 1 /\ bottom' = bottom - 1 /\ Queue!Goto(Owner, "pop")
  BY DEF Queue!PopDecrement, Queue!history
<1>2. /\ q_pc'[Owner] = "pop" /\ \A w \in Thieves : q_pc'[w] = q_pc[w]
      /\ q_pc' = [w \in Queue!Workers |-> q_pc'[w]] /\ q_pc'[Owner] \in OwnerSteps
  BY <1>1, OwnerMoves DEF QueueInv, OwnerSteps
<1>3. bottom \in Int
  BY Basics DEF QueueInv
<1>4. end' = end /\ Queue!published' = Queue!published
  BY <1>1, <1>2, <1>3 DEF end, Queue!published
<1>5. QueueTypeOK' /\ QueueContents' /\ QueueClaims'
  <2>1. /\ bottom' \in Int /\ b' \in Int /\ q_t' \in [Queue!Workers -> Nat] /\ pushed' \in 0..MaxItems
        /\ got' = [w \in Queue!Workers |-> got'[w]]
    BY <1>1, <1>3 DEF QueueInv, QueueTypeOK
  <2> QED
    BY <1>1, <1>2, <1>4, <2>1, Still
<1>6. QueueIndices'
  BY <1>1, <1>2, <1>4 DEF QueueInv, QueueIndices, Queue!capacity
<1>7. BagStep
  BY <1>1, <1>4, Stutters
<1> QED
  BY <1>5, <1>6, <1>7 DEF QueueInv

LEMMA PopLastInv == ASSUME Queue!Setting, QueueInv, Queue!PopLast PROVE QueueInv' /\ BagStep
<1>1. /\ UNCHANGED <<top, bottom, arrays, array, ary, b, pushed, winners>>
      /\ q_pc[Owner] = "pop" /\ top = b /\ Queue!Goto(Owner, "last")
      /\ q_t' = [q_t EXCEPT ![Owner] = top] /\ got' = [got EXCEPT ![Owner] = Queue!slot(array, b)]
  BY DEF Queue!PopLast, Queue!history
<1>2. /\ q_pc'[Owner] = "last" /\ \A w \in Thieves : q_pc'[w] = q_pc[w]
      /\ q_pc' = [w \in Queue!Workers |-> q_pc'[w]] /\ q_pc'[Owner] \in OwnerSteps
  BY <1>1, OwnerMoves DEF QueueInv, OwnerSteps
<1>3. /\ bottom \in Int /\ b \in Int /\ top \in Nat
      /\ Owner \in Queue!Workers /\ \A w \in Thieves : w \in Queue!Workers /\ w # Owner
  BY Basics DEF QueueInv
<1>4. end' = end /\ Queue!published' = Queue!published
  BY <1>1, <1>2, <1>3 DEF end, Queue!published
<1>5. /\ q_t' \in [Queue!Workers -> Nat] /\ got' = [w \in Queue!Workers |-> got'[w]]
      /\ \A w \in Thieves : q_t'[w] = q_t[w] /\ got'[w] = got[w]
      /\ q_t'[Owner] = b /\ got'[Owner] = Queue!slot(array, b)
  <2>1. q_t \in [Queue!Workers -> Nat] /\ got = [w \in Queue!Workers |-> got[w]]
    BY DEF QueueInv, QueueTypeOK
  <2>2. q_t' \in [Queue!Workers -> Nat] /\ q_t'[Owner] = b /\ \A w \in Thieves : q_t'[w] = q_t[w]
    BY <1>1, <1>3, <2>1
  <2>3. got' = [w \in Queue!Workers |-> got'[w]]
    BY <1>1, <2>1
  <2>4. got'[Owner] = Queue!slot(array, b) /\ \A w \in Thieves : got'[w] = got[w]
    BY <1>1, <1>3, <2>1
  <2> QED
    BY <2>2, <2>3, <2>4
<1>6. QueueTypeOK' /\ QueueContents' /\ QueueClaims'
  <2>1. bottom' \in Int /\ b' \in Int /\ pushed' \in 0..MaxItems
    BY <1>1, <1>3 DEF QueueInv, QueueTypeOK
  <2> QED
    BY <1>1, <1>2, <1>4, <1>5, <2>1, Still
<1>7. QueueIndices'
  <2>1. Queue!capacity(array)' = Queue!capacity(array) /\ Queue!slot(array, b)' = Queue!slot(array, b)
    BY <1>1 DEF Queue!slot, Queue!capacity
  <2>2. top <= end /\ end - top <= Queue!capacity(array) /\ bottom = b
    BY <1>1 DEF QueueInv, QueueIndices
  <2> QED
    BY <1>1, <1>2, <1>3, <1>4, <1>5, <2>1, <2>2 DEF QueueIndices
<1>8. BagStep
  BY <1>1, <1>4, Stutters
<1> QED
  BY <1>6, <1>7, <1>8 DEF QueueInv

LEMMA PopEmptyInv == ASSUME Queue!Setting, QueueInv, Queue!PopEmpty PROVE QueueInv' /\ BagStep
<1>1. /\ UNCHANGED <<top, bottom, arrays, array, q_t, ary, b, pushed, winners>>
      /\ q_pc[Owner] = "pop" /\ top > b /\ Queue!Goto(Owner, "restore")
      /\ got' = [got EXCEPT ![Owner] = Nothing]
  BY DEF Queue!PopEmpty, Queue!history
<1>2. /\ q_pc'[Owner] = "restore" /\ \A w \in Thieves : q_pc'[w] = q_pc[w]
      /\ q_pc' = [w \in Queue!Workers |-> q_pc'[w]] /\ q_pc'[Owner] \in OwnerSteps
  BY <1>1, OwnerMoves DEF QueueInv, OwnerSteps
<1>3. /\ bottom \in Int /\ b \in Int /\ top \in Nat
      /\ Owner \in Queue!Workers /\ \A w \in Thieves : w \in Queue!Workers /\ w # Owner
  BY Basics DEF QueueInv
<1>4. end' = end /\ end = b + 1 /\ Queue!published' = Queue!published
  BY <1>1, <1>2, <1>3 DEF end, Queue!published
<1>5. got' = [w \in Queue!Workers |-> got'[w]] /\ \A w \in Thieves : got'[w] = got[w]
  BY <1>1, <1>3 DEF QueueInv, QueueTypeOK
<1>6. QueueTypeOK' /\ QueueContents' /\ QueueClaims'
  <2>1. /\ bottom' \in Int /\ b' \in Int /\ q_t' \in [Queue!Workers -> Nat] /\ pushed' \in 0..MaxItems
        /\ \A w \in Thieves : q_t'[w] = q_t[w]
    BY <1>1, <1>3 DEF QueueInv, QueueTypeOK
  <2> QED
    BY <1>1, <1>2, <1>4, <1>5, <2>1, Still
<1>7. QueueIndices'
  BY <1>1, <1>2, <1>3, <1>4 DEF QueueInv, QueueIndices, Queue!capacity
<1>8. BagStep
  BY <1>1, <1>4, Stutters
<1> QED
  BY <1>6, <1>7, <1>8 DEF QueueInv

LEMMA PopRestoreInv == ASSUME Queue!Setting, QueueInv, Queue!PopRestore PROVE QueueInv' /\ BagStep
<1>1. /\ UNCHANGED <<top, arrays, array, q_t, ary, b, got, pushed, winners>>
      /\ q_pc[Owner] = "restore" /\ bottom' = b + 1 /\ Queue!Goto(Owner, "idle")
  BY DEF Queue!PopRestore, Queue!history
<1>2. /\ q_pc'[Owner] = "idle" /\ \A w \in Thieves : q_pc'[w] = q_pc[w]
      /\ q_pc' = [w \in Queue!Workers |-> q_pc'[w]] /\ q_pc'[Owner] \in OwnerSteps
  BY <1>1, OwnerMoves DEF QueueInv, OwnerSteps
<1>3. b \in Int
  BY Basics DEF QueueInv
<1>4. end' = end /\ Queue!published' = Queue!published
  BY <1>1, <1>2 DEF end, Queue!published
<1>5. QueueTypeOK' /\ QueueContents' /\ QueueClaims'
  <2>1. /\ bottom' \in Int /\ b' \in Int /\ q_t' \in [Queue!Workers -> Nat] /\ pushed' \in 0..MaxItems
        /\ got' = [w \in Queue!Workers |-> got'[w]]
    BY <1>1, <1>3 DEF QueueInv, QueueTypeOK
  <2> QED
    BY <1>1, <1>2, <1>4, <2>1, Still
<1>6. QueueIndices'
  BY <1>1, <1>2, <1>4 DEF QueueInv, QueueIndices, Queue!capacity
<1>7. BagStep
  BY <1>1, <1>4, Stutters
<1> QED
  BY <1>5, <1>6, <1>7 DEF QueueInv

\* The owner takes the item at the bottom of the window.
LEMMA PopTakeInv == ASSUME Queue!Setting, QueueInv, Queue!PopTake PROVE QueueInv' /\ BagStep
<1>1. /\ UNCHANGED <<top, bottom, arrays, array, q_t, ary, b, pushed>>
      /\ q_pc[Owner] = "pop" /\ top < b /\ Queue!Goto(Owner, "idle")
      /\ got' = [got EXCEPT ![Owner] = Queue!slot(array, b)] /\ Queue!Keep(Queue!slot(array, b), Owner)
  BY DEF Queue!PopTake, Queue!out_of_reach
<1>2. /\ q_pc'[Owner] = "idle" /\ \A w \in Thieves : q_pc'[w] = q_pc[w]
      /\ q_pc' = [w \in Queue!Workers |-> q_pc'[w]]
      /\ q_pc'[Owner] \in OwnerSteps /\ \A w \in Thieves : q_pc'[w] \in ThiefSteps
  BY <1>1, OwnerMoves DEF QueueInv, OwnerSteps
<1>3. /\ bottom \in Int /\ b \in Int /\ top \in Nat
      /\ Owner \in Queue!Workers /\ \A w \in Thieves : w \in Queue!Workers /\ w # Owner
  BY Basics DEF QueueInv
<1>4. end = b + 1 /\ end' = b /\ Queue!published' = Queue!published
  BY <1>1, <1>2 DEF end, Queue!published, QueueInv, QueueIndices
<1>5. InWindow(b) /\ \A i \in Int : InWindow(i)' <=> InWindow(i) /\ i # b
  BY <1>1, <1>3, <1>4 DEF InWindow
<1>6. /\ QueueContents' /\ Queue!Bag!Take(Queue!slot(array, b), Owner)
      /\ DOMAIN winners' = DOMAIN winners \cup {Queue!slot(array, b)} /\ Queue!slot(array, b) \in 1..Queue!published
  BY <1>1, <1>3, <1>4, <1>5, Kept DEF QueueInv
<1>7. got' = [w \in Queue!Workers |-> got'[w]] /\ \A w \in Thieves : got'[w] = got[w]
  BY <1>1, <1>3 DEF QueueInv, QueueTypeOK
<1>8. QueueTypeOK'
  BY <1>1, <1>2, <1>4, <1>6, <1>7 DEF QueueInv, QueueTypeOK
<1>9. QueueIndices'
  BY <1>1, <1>2, <1>3, <1>4, Basics DEF QueueInv, QueueIndices, Queue!capacity
<1>10. QueueClaims'
  <2>1. top' = top /\ top < end' /\ \A w \in Thieves : q_t'[w] = q_t[w] /\ ary'[w] = ary[w]
    BY <1>1, <1>4
  <2>2. /\ \A w \in Thieves : Queue!slot(ary[w], top)' = Queue!slot(ary[w], top)
        /\ Queue!slot(array, top)' = Queue!slot(array, top)
    BY <1>1 DEF Queue!slot, Queue!capacity
  <2> QED
    BY <1>2, <1>7, <2>1, <2>2 DEF QueueInv, QueueClaims
<1>11. BagStep
  <2>1. Queue!published = pushed \/ Queue!published = pushed - 1
    BY DEF Queue!published
  <2>2. Queue!slot(array, b) \in Queue!Items
    BY <1>6, <2>1 DEF QueueInv, QueueTypeOK, Queue!Items, Queue!Setting
  <2> QED
    BY <1>3, <1>6, <2>2 DEF BagStep, Queue!Bag!Next
<1> QED
  BY <1>6, <1>8, <1>9, <1>10, <1>11 DEF QueueInv

\* The last item: the owner takes it at the top of the window, if no thief did.
LEMMA PopRaceInv == ASSUME Queue!Setting, QueueInv, Queue!PopRace PROVE QueueInv' /\ BagStep
<1>1. /\ UNCHANGED <<bottom, arrays, array, q_t, ary, b, pushed>>
      /\ q_pc[Owner] = "last" /\ Queue!Goto(Owner, "restore")
  BY DEF Queue!PopRace
<1>2. /\ q_pc'[Owner] = "restore" /\ \A w \in Thieves : q_pc'[w] = q_pc[w]
      /\ q_pc' = [w \in Queue!Workers |-> q_pc'[w]]
      /\ q_pc'[Owner] \in OwnerSteps /\ \A w \in Thieves : q_pc'[w] \in ThiefSteps
  BY <1>1, OwnerMoves DEF QueueInv, OwnerSteps
<1>3. /\ bottom \in Int /\ b \in Int /\ top \in Nat
      /\ Owner \in Queue!Workers /\ \A w \in Thieves : w \in Queue!Workers /\ w # Owner
      /\ \A w \in Thieves : q_t[w] \in Nat
  BY Basics DEF QueueInv
<1>4. /\ end' = end /\ end = b + 1 /\ Queue!published' = Queue!published
      /\ q_t[Owner] = b /\ b <= top /\ top <= b + 1 /\ bottom = b
  BY <1>1, <1>2 DEF end, Queue!published, QueueInv, QueueIndices
<1>5. CASE top = b
  <2>1. /\ top' = top + 1 /\ Queue!Keep(Queue!slot(array, b), Owner) /\ UNCHANGED got
    <3>1. got[Owner] = Queue!slot(array, b)
      BY <1>1, <1>5 DEF QueueInv, QueueIndices
    <3> QED
      BY <1>4, <1>5, <3>1 DEF Queue!PopRace
  <2>2. InWindow(b) /\ \A i \in Int : InWindow(i)' <=> InWindow(i) /\ i # b
    BY <1>3, <1>4, <1>5, <2>1 DEF InWindow
  <2>3. /\ QueueContents' /\ Queue!Bag!Take(Queue!slot(array, b), Owner)
        /\ DOMAIN winners' = DOMAIN winners \cup {Queue!slot(array, b)} /\ Queue!slot(array, b) \in 1..Queue!published
    BY <1>1, <1>3, <1>4, <2>1, <2>2, Kept DEF QueueInv
  <2>4. QueueTypeOK'
    BY <1>1, <1>2, <1>3, <1>4, <2>1, <2>3 DEF QueueInv, QueueTypeOK
  <2>5. QueueIndices'
    BY <1>1, <1>2, <1>3, <1>4, <1>5, <2>1, Basics DEF QueueInv, QueueIndices, Queue!capacity
  <2>6. QueueClaims'
    BY <1>1, <1>2, <1>3, <1>4, <2>1 DEF QueueInv, QueueClaims
  <2>7. BagStep
    <3>1. Queue!published = pushed \/ Queue!published = pushed - 1
      BY DEF Queue!published
    <3>2. Queue!slot(array, b) \in Queue!Items
      BY <2>3, <3>1 DEF QueueInv, QueueTypeOK, Queue!Items, Queue!Setting
    <3> QED
      BY <1>3, <2>3, <3>2 DEF BagStep, Queue!Bag!Next
  <2> QED
    BY <2>3, <2>4, <2>5, <2>6, <2>7 DEF QueueInv
<1>6. CASE top # b
  <2>1. got' = [got EXCEPT ![Owner] = Nothing] /\ top' = top /\ winners' = winners
    BY <1>4, <1>6 DEF Queue!PopRace
  <2>2. got' = [w \in Queue!Workers |-> got'[w]] /\ \A w \in Thieves : got'[w] = got[w]
    BY <1>3, <2>1 DEF QueueInv, QueueTypeOK
  <2>3. QueueTypeOK' /\ QueueContents' /\ QueueClaims'
    <3>1. /\ bottom' \in Int /\ b' \in Int /\ q_t' \in [Queue!Workers -> Nat] /\ pushed' \in 0..MaxItems
          /\ \A w \in Thieves : q_t'[w] = q_t[w]
      BY <1>1, <1>3 DEF QueueInv, QueueTypeOK
    <3> QED
      BY <1>1, <1>2, <1>4, <2>1, <2>2, <3>1, Still
  <2>4. QueueIndices'
    BY <1>1, <1>2, <1>3, <1>4, <1>6, <2>1 DEF QueueInv, QueueIndices, Queue!capacity
  <2>5. BagStep
    BY <1>4, <2>1, Stutters
  <2> QED
    BY <2>3, <2>4, <2>5 DEF QueueInv
<1> QED
  BY <1>5, <1>6

-----------------------------------------------------------------------------
(* The thieves.                                                             *)

\* A thief's step that leaves everything but its own locals alone.
LEMMA ThiefStill ==
  ASSUME Queue!Setting, QueueInv, NEW w \in Thieves, NEW s \in ThiefSteps, Queue!Goto(w, s),
         UNCHANGED <<top, bottom, arrays, array, b, pushed, winners>>,
         q_t' \in [Queue!Workers -> Nat], ary' \in [Queue!Workers -> 1..Len(arrays)],
         got' = [v \in Queue!Workers |-> got'[v]],
         \A v \in Queue!Workers : v # w => q_t'[v] = q_t[v] /\ ary'[v] = ary[v] /\ got'[v] = got[v],
         /\ q_t'[w] <= top
         /\ s \in {"reach", "copy", "claim"} /\ q_t'[w] = top => top < end
         /\ s = "copy" /\ q_t'[w] = top => Queue!slot(ary'[w], top) = Queue!slot(array, top)
         /\ s = "claim" /\ q_t'[w] = top => got'[w] = Queue!slot(array, top)
  PROVE  QueueInv' /\ BagStep
<1>1. /\ q_pc'[w] = s /\ q_pc'[Owner] = q_pc[Owner]
      /\ \A v \in Thieves : v # w => q_pc'[v] = q_pc[v]
      /\ q_pc' = [v \in Queue!Workers |-> q_pc'[v]]
      /\ q_pc'[Owner] \in OwnerSteps /\ \A v \in Thieves : q_pc'[v] \in ThiefSteps
  BY ThiefMoves DEF QueueInv
<1>2. Owner \in Queue!Workers /\ \A v \in Thieves : v \in Queue!Workers /\ v # Owner
  BY Basics DEF QueueInv
<1>3. end' = end /\ Queue!published' = Queue!published
  BY <1>1 DEF end, Queue!published
<1>4. q_t'[Owner] = q_t[Owner] /\ got'[Owner] = got[Owner]
  BY <1>2
<1>5. QueueTypeOK'
  BY <1>1, <1>3 DEF QueueInv, QueueTypeOK
<1>6. QueueIndices'
  BY <1>1, <1>3, <1>4 DEF QueueInv, QueueIndices, Queue!slot, Queue!capacity
<1>7. QueueContents'
  BY <1>3, Undisturbed DEF QueueInv, Queue!slot, Queue!capacity
<1>8. QueueClaims'
  <2> SUFFICES ASSUME NEW v \in Thieves
        PROVE  /\ q_t'[v] <= top
               /\ q_pc'[v] \in {"reach", "copy", "claim"} /\ q_t'[v] = top => top < end
               /\ q_pc'[v] = "copy" /\ q_t'[v] = top => Queue!slot(ary'[v], top) = Queue!slot(array, top)
               /\ q_pc'[v] = "claim" /\ q_t'[v] = top => got'[v] = Queue!slot(array, top)
    BY <1>3 DEF QueueClaims, Queue!slot, Queue!capacity
  <2>1. CASE v = w
    BY <1>1, <2>1
  <2>2. CASE v # w
    <3>1. q_pc'[v] = q_pc[v] /\ q_t'[v] = q_t[v] /\ ary'[v] = ary[v] /\ got'[v] = got[v]
      BY <1>1, <1>2, <2>2
    <3> QED
      BY <3>1 DEF QueueInv, QueueClaims
  <2> QED
    BY <2>1, <2>2
<1>9. BagStep
  BY <1>3, Stutters
<1> QED
  BY <1>5, <1>6, <1>7, <1>8, <1>9 DEF QueueInv

LEMMA StealReadTopInv ==
  ASSUME Queue!Setting, QueueInv, NEW w \in Thieves, Queue!StealReadTop(w) PROVE QueueInv' /\ BagStep
<1>1. /\ UNCHANGED <<top, bottom, arrays, array, ary, b, pushed, winners>> /\ Queue!Goto(w, "steal")
      /\ q_t' = [q_t EXCEPT ![w] = top] /\ got' = [got EXCEPT ![w] = Nothing]
  BY DEF Queue!StealReadTop, Queue!history
<1>2. /\ q_t \in [Queue!Workers -> Nat] /\ got = [v \in Queue!Workers |-> got[v]] /\ w \in Queue!Workers /\ top \in Nat
      /\ ary' \in [Queue!Workers -> 1..Len(arrays)]
  BY <1>1, Basics DEF QueueInv, QueueTypeOK
<1>3. /\ q_t' \in [Queue!Workers -> Nat] /\ got' = [v \in Queue!Workers |-> got'[v]] /\ q_t'[w] = top
      /\ \A v \in Queue!Workers : v # w => q_t'[v] = q_t[v] /\ ary'[v] = ary[v] /\ got'[v] = got[v]
  <2>1. q_t' \in [Queue!Workers -> Nat] /\ q_t'[w] = top /\ \A v \in Queue!Workers : v # w => q_t'[v] = q_t[v]
    BY <1>1, <1>2
  <2>2. got' = [v \in Queue!Workers |-> got'[v]]
    BY <1>1, <1>2
  <2>3. \A v \in Queue!Workers : v # w => ary'[v] = ary[v] /\ got'[v] = got[v]
    BY <1>1, <1>2
  <2> QED
    BY <2>1, <2>2, <2>3
<1>4. "steal" \in ThiefSteps /\ q_t'[w] <= top
  BY <1>2, <1>3 DEF ThiefSteps
<1> QED
  BY <1>1, <1>2, <1>3, <1>4, ThiefStill

LEMMA StealReadBottomInv ==
  ASSUME Queue!Setting, QueueInv, NEW w \in Thieves, Queue!StealReadBottom(w) PROVE QueueInv' /\ BagStep
<1> DEFINE s == IF q_t[w] < bottom THEN "reach" ELSE "idle"
<1>1. UNCHANGED <<top, bottom, arrays, array, q_t, ary, b, got, pushed, winners>> /\ Queue!Goto(w, s)
  BY DEF Queue!StealReadBottom, Queue!history
<1>2. /\ q_t' \in [Queue!Workers -> Nat] /\ got' = [v \in Queue!Workers |-> got'[v]]
      /\ ary' \in [Queue!Workers -> 1..Len(arrays)]
      /\ \A v \in Queue!Workers : v # w => q_t'[v] = q_t[v] /\ ary'[v] = ary[v] /\ got'[v] = got[v]
  BY <1>1 DEF QueueInv, QueueTypeOK
<1>3. bottom <= end
  BY Basics DEF QueueInv, QueueIndices, end
<1>4. q_t'[w] <= top /\ (s = "reach" /\ q_t'[w] = top => top < end)
  BY <1>1, <1>3, Basics DEF QueueInv, QueueClaims
<1>5. s \in ThiefSteps /\ s \in {"reach", "idle"}
  BY DEF ThiefSteps
<1> HIDE DEF s
<1> QED
  BY <1>1, <1>2, <1>4, <1>5, ThiefStill

LEMMA StealReadArrayInv ==
  ASSUME Queue!Setting, QueueInv, NEW w \in Thieves, Queue!StealReadArray(w) PROVE QueueInv' /\ BagStep
<1>1. /\ UNCHANGED <<top, bottom, arrays, array, q_t, b, got, pushed, winners>> /\ Queue!Goto(w, "copy")
      /\ q_pc[w] = "reach" /\ ary' = [ary EXCEPT ![w] = array]
  BY DEF Queue!StealReadArray, Queue!history
<1>2. /\ q_t' \in [Queue!Workers -> Nat] /\ got' = [v \in Queue!Workers |-> got'[v]] /\ w \in Queue!Workers
      /\ ary \in [Queue!Workers -> 1..Len(arrays)] /\ array \in 1..Len(arrays)
  BY <1>1, Basics DEF QueueInv, QueueTypeOK
<1>3. /\ ary' \in [Queue!Workers -> 1..Len(arrays)] /\ ary'[w] = array
      /\ \A v \in Queue!Workers : v # w => q_t'[v] = q_t[v] /\ ary'[v] = ary[v] /\ got'[v] = got[v]
  BY <1>1, <1>2
<1>4. q_t'[w] <= top /\ (q_t'[w] = top => top < end)
  BY <1>1 DEF QueueInv, QueueClaims
<1>5. "copy" \in ThiefSteps
  BY DEF ThiefSteps
<1> QED
  BY <1>1, <1>2, <1>3, <1>4, <1>5, ThiefStill

LEMMA StealReadSlotInv ==
  ASSUME Queue!Setting, QueueInv, NEW w \in Thieves, Queue!StealReadSlot(w) PROVE QueueInv' /\ BagStep
<1>1. /\ UNCHANGED <<top, bottom, arrays, array, q_t, ary, b, pushed, winners>> /\ Queue!Goto(w, "claim")
      /\ q_pc[w] = "copy" /\ got' = [got EXCEPT ![w] = Queue!slot(ary[w], q_t[w])]
  BY DEF Queue!StealReadSlot, Queue!history
<1>2. /\ q_t' \in [Queue!Workers -> Nat] /\ ary' \in [Queue!Workers -> 1..Len(arrays)] /\ w \in Queue!Workers
      /\ got = [v \in Queue!Workers |-> got[v]]
  BY <1>1, Basics DEF QueueInv, QueueTypeOK
<1>3. /\ got' = [v \in Queue!Workers |-> got'[v]] /\ got'[w] = Queue!slot(ary[w], q_t[w])
      /\ \A v \in Queue!Workers : v # w => q_t'[v] = q_t[v] /\ ary'[v] = ary[v] /\ got'[v] = got[v]
  <2>1. got' = [v \in Queue!Workers |-> got'[v]]
    BY <1>1, <1>2
  <2>2. got'[w] = Queue!slot(ary[w], q_t[w])
    BY <1>1, <1>2
  <2>3. \A v \in Queue!Workers : v # w => q_t'[v] = q_t[v] /\ ary'[v] = ary[v] /\ got'[v] = got[v]
    BY <1>1, <1>2
  <2> QED
    BY <2>1, <2>2, <2>3
<1>4. /\ q_t'[w] <= top /\ (q_t'[w] = top => top < end)
      /\ q_t'[w] = top => got'[w] = Queue!slot(array, top)
  BY <1>1, <1>3 DEF QueueInv, QueueClaims
<1>5. "claim" \in ThiefSteps
  BY DEF ThiefSteps
<1> QED
  BY <1>1, <1>2, <1>3, <1>4, <1>5, ThiefStill

\* A thief that still finds its top takes the item at the top of the window.
LEMMA StealClaimInv ==
  ASSUME Queue!Setting, QueueInv, NEW w \in Thieves, Queue!StealClaim(w) PROVE QueueInv' /\ BagStep
<1>1. /\ UNCHANGED <<bottom, arrays, array, q_t, ary, b, pushed>> /\ Queue!Goto(w, "idle") /\ q_pc[w] = "claim"
  BY DEF Queue!StealClaim
<1>2. /\ w \in Queue!Workers /\ Owner \in Queue!Workers /\ \A v \in Thieves : v \in Queue!Workers /\ q_t[v] \in Nat
      /\ top \in Nat /\ bottom \in Int /\ b \in Int /\ end \in Int
      /\ Queue!capacity(array) \in Nat \ {0}
  BY Basics DEF QueueInv
<1>3. CASE top = q_t[w]
  <2>1. top' = top + 1 /\ Queue!Keep(Queue!slot(array, top), w) /\ UNCHANGED got
    <3>1. got[w] = Queue!slot(array, top)
      BY <1>1, <1>3 DEF QueueInv, QueueClaims
    <3> QED
      BY <1>3, <3>1 DEF Queue!StealClaim, Queue!claim_wins
  <2>2. /\ q_pc'[w] = "idle" /\ q_pc'[Owner] = q_pc[Owner]
        /\ \A v \in Thieves : v # w => q_pc'[v] = q_pc[v]
        /\ q_pc' = [v \in Queue!Workers |-> q_pc'[v]]
        /\ q_pc'[Owner] \in OwnerSteps /\ \A v \in Thieves : q_pc'[v] \in ThiefSteps
    BY <1>1, ThiefMoves DEF QueueInv, ThiefSteps
  <2>3. end' = end /\ Queue!published' = Queue!published
    BY <1>1, <2>2 DEF end, Queue!published
  <2>4. InWindow(top)
    BY <1>1, <1>2, <1>3 DEF QueueInv, QueueClaims, InWindow
  <2>5. \A i \in Int : InWindow(i)' <=> InWindow(i) /\ i # top
    BY <1>2, <2>1, <2>3 DEF InWindow
  <2>6. /\ QueueContents' /\ Queue!Bag!Take(Queue!slot(array, top), w)
        /\ DOMAIN winners' = DOMAIN winners \cup {Queue!slot(array, top)}
        /\ Queue!slot(array, top) \in 1..Queue!published
    <3>1. PICK k \in Int : k = top
      BY <1>2
    <3>2. InWindow(k) /\ Queue!Keep(Queue!slot(array, k), w)
      BY <2>1, <2>4, <3>1
    <3>3. \A i \in Int : InWindow(i)' <=> InWindow(i) /\ i # k
      BY <2>5, <3>1
    <3>4. /\ QueueContents' /\ Queue!Bag!Take(Queue!slot(array, k), w)
          /\ DOMAIN winners' = DOMAIN winners \cup {Queue!slot(array, k)}
          /\ Queue!slot(array, k) \in 1..Queue!published
      BY <1>1, <1>2, <2>3, <3>2, <3>3, Kept DEF QueueInv
    <3> QED
      BY <3>1, <3>4
  <2>7. QueueTypeOK'
    <3>1. top' \in Nat
      BY <1>2, <2>1
    <3>2. DOMAIN winners \subseteq 1..Queue!published
      BY DEF QueueInv, QueueTypeOK
    <3>3. DOMAIN winners' \subseteq 1..Queue!published'
      BY <2>3, <2>6, <3>2
    <3> QED
      BY <1>1, <2>1, <2>2, <3>1, <3>3 DEF QueueInv, QueueTypeOK
  <2>8. QueueIndices'
    <3>1. top + 1 <= end /\ end' = end /\ top' = top + 1 /\ Queue!capacity(array)' = Queue!capacity(array)
      BY <1>1, <1>2, <2>1, <2>3, <2>4 DEF InWindow, Queue!capacity
    <3>2. q_t[Owner] \in Nat
      BY Basics DEF QueueInv
    <3>3. Queue!slot(array, b)' = Queue!slot(array, b)
      BY <1>1 DEF Queue!slot, Queue!capacity
    <3>4. q_pc[Owner] # "restore"
      BY <1>2, <3>1 DEF QueueInv, QueueIndices, end
    <3> QED
      BY <1>1, <1>2, <2>1, <2>2, <3>1, <3>2, <3>3, <3>4 DEF QueueInv, QueueIndices, end
  <2>9. QueueClaims'
    BY <1>1, <1>2, <2>1, <2>2 DEF QueueInv, QueueClaims
  <2>10. BagStep
    <3>1. Queue!published = pushed \/ Queue!published = pushed - 1
      BY DEF Queue!published
    <3>2. Queue!slot(array, top) \in Queue!Items
      BY <2>6, <3>1 DEF QueueInv, QueueTypeOK, Queue!Items, Queue!Setting
    <3> QED
      BY <1>2, <2>6, <3>2 DEF BagStep, Queue!Bag!Next
  <2> QED
    BY <2>6, <2>7, <2>8, <2>9, <2>10 DEF QueueInv
<1>4. CASE top # q_t[w]
  <2>1. got' = [got EXCEPT ![w] = Nothing] /\ top' = top /\ winners' = winners
    BY <1>4 DEF Queue!StealClaim, Queue!claim_wins
  <2>2. got' = [v \in Queue!Workers |-> got'[v]]
    BY <2>1 DEF QueueInv, QueueTypeOK
  <2>3. /\ q_t' \in [Queue!Workers -> Nat] /\ ary' \in [Queue!Workers -> 1..Len(arrays)]
        /\ \A v \in Queue!Workers : v # w => q_t'[v] = q_t[v] /\ ary'[v] = ary[v] /\ got'[v] = got[v]
    BY <1>1, <1>2, <2>1 DEF QueueInv, QueueTypeOK
  <2>4. q_t'[w] <= top
    BY <1>1 DEF QueueInv, QueueClaims
  <2>5. "idle" \in ThiefSteps
    BY DEF ThiefSteps
  <2> QED
    BY <1>1, <2>1, <2>2, <2>3, <2>4, <2>5, ThiefStill
<1> QED
  BY <1>3, <1>4

-----------------------------------------------------------------------------
(* The theorems.                                                            *)

LEMMA QueueStepInv == ASSUME Queue!Setting, QueueInv, [Queue!Next]_(Queue!vars) PROVE QueueInv' /\ BagStep
<1>1. CASE Queue!PushReadTop BY <1>1, PushReadTopInv
<1>2. CASE Queue!Grow BY <1>2, GrowInv
<1>3. CASE Queue!PushWrite BY <1>3, PushWriteInv
<1>4. CASE Queue!PushPublish BY <1>4, PushPublishInv
<1>5. CASE Queue!PopDecrement BY <1>5, PopDecrementInv
<1>6. CASE Queue!PopTake BY <1>6, PopTakeInv
<1>7. CASE Queue!PopLast BY <1>7, PopLastInv
<1>8. CASE Queue!PopRace BY <1>8, PopRaceInv
<1>9. CASE Queue!PopEmpty BY <1>9, PopEmptyInv
<1>10. CASE Queue!PopRestore BY <1>10, PopRestoreInv
<1>11. ASSUME NEW w \in Thieves, Queue!Steal(w) PROVE QueueInv' /\ BagStep
  <2>1. CASE Queue!StealReadTop(w) BY <2>1, StealReadTopInv
  <2>2. CASE Queue!StealReadBottom(w) BY <2>2, StealReadBottomInv
  <2>3. CASE Queue!StealReadArray(w) BY <2>3, StealReadArrayInv
  <2>4. CASE Queue!StealReadSlot(w) BY <2>4, StealReadSlotInv
  <2>5. CASE Queue!StealClaim(w) BY <2>5, StealClaimInv
  <2> QED
    BY <1>11, <2>1, <2>2, <2>3, <2>4, <2>5 DEF Queue!Steal
<1>12. CASE UNCHANGED Queue!vars
  <2>1. /\ UNCHANGED <<top, bottom, arrays, array, q_pc, q_t, ary, b, got, pushed, winners>>
        /\ end' = end /\ Queue!published' = Queue!published
    BY <1>12 DEF Queue!vars, end, Queue!published
  <2>2. QueueTypeOK'
    BY <2>1 DEF QueueInv, QueueTypeOK
  <2>3. QueueIndices'
    BY <2>1 DEF QueueInv, QueueIndices, Queue!slot, Queue!capacity
  <2>4. QueueContents'
    BY <2>1, Undisturbed DEF QueueInv, Queue!slot, Queue!capacity
  <2>5. QueueClaims'
    BY <2>1 DEF QueueInv, QueueClaims, Queue!slot, Queue!capacity
  <2>6. BagStep
    BY <2>1, Stutters
  <2> QED
    BY <2>2, <2>3, <2>4, <2>5, <2>6 DEF QueueInv
<1> QED
  BY <1>1, <1>2, <1>3, <1>4, <1>5, <1>6, <1>7, <1>8, <1>9, <1>10, <1>11, <1>12
  DEF Queue!Next, Queue!Push, Queue!Pop

LEMMA QueueInvariant == Queue!Spec => []QueueInv
<1>1. Queue!Init => QueueInv
  BY QueueInitInv, QueueSetting
<1>2. QueueInv /\ [Queue!Next]_(Queue!vars) => QueueInv'
  BY QueueStepInv, QueueSetting
<1> QED
  BY <1>1, <1>2, PTL DEF Queue!Spec

\* The queue is a bag of work: of the owner and the thieves, at most one keeps an
\* item, and only an item that was published and is not an empty or an old slot.
THEOREM QueueIsABag == Queue!Spec => TakenOnce
<1>1. Queue!Init => Queue!Bag!Init
  <2> SUFFICES ASSUME Queue!Init PROVE Queue!Bag!Init
    OBVIOUS
  <2>1. Queue!published = 0 /\ winners = [i \in {} |-> Owner]
    BY DEF Queue!Init, Queue!published, Queue!Workers
  <2>2. DOMAIN winners = {} /\ winners = [i \in {} |-> {}]
    BY <2>1
  <2>3. Queue!Pending = {}
    BY <2>1 DEF Queue!Pending
  <2> QED
    BY <2>2, <2>3 DEF Queue!Bag!Init
<1>2. QueueInv /\ [Queue!Next]_(Queue!vars) => [Queue!Bag!Next]_(Queue!Bag!bagVars)
  BY QueueStepInv, QueueSetting DEF BagStep
<1> QED
  BY <1>1, <1>2, QueueInvariant, PTL DEF Queue!Spec, TakenOnce, Queue!TakenOnce, Queue!Bag!Spec

\* Nothing is lost: between its operations the owner finds what nobody kept, and
\* all of it, between top and bottom, and it finds the queue empty only if it is.
THEOREM QueueLosesNothing == Queue!Spec => []NothingLost
<1>1. QueueInv => NothingLost
  <2> SUFFICES ASSUME QueueInv PROVE NothingLost
    OBVIOUS
  <2>1. top \in Nat /\ bottom \in Int /\ b \in Int /\ end \in Int
    BY QueueSetting, Basics DEF QueueInv
  <2>2. ASSUME q_pc[Owner] = "idle" PROVE {Queue!slot(array, i) : i \in top..bottom - 1} = Queue!Pending
    <3>1. \A i \in Int : InWindow(i) <=> i \in top..bottom - 1
      BY <2>1, <2>2 DEF InWindow, end
    <3>2. \A i \in top..bottom - 1 : i \in Int
      BY <2>1
    <3> QED
      BY <3>1, <3>2 DEF QueueInv, QueueContents
  <2>3. ASSUME q_pc[Owner] = "restore" PROVE Queue!Pending = {}
    <3>1. \A i \in Int : ~InWindow(i)
      BY <2>1, <2>3 DEF QueueInv, QueueIndices, InWindow, end
    <3> QED
      BY <3>1 DEF QueueInv, QueueContents
  <2> QED
    BY <2>2, <2>3 DEF NothingLost, Queue!NothingLost
<1> QED
  BY <1>1, QueueInvariant, PTL

-----------------------------------------------------------------------------
(* The whole.                                                               *)

\* A behaviour of the whole is one of each of its parts: a part takes its own steps or
\* stands still.
THEOREM HeapKeepsItsParts == HeapSpec => Spec /\ Queue!Spec /\ Generations!Spec /\ Fin!Spec
<1>1. HeapInit => Init /\ Queue!Init /\ Generations!Init /\ Fin!Init
  BY DEF HeapInit
<1>2. [HeapNext]_allVars => /\ [Next]_vars /\ [Queue!Next]_(Queue!vars)
                            /\ [Generations!Next]_(Generations!vars) /\ [Fin!Next]_(Fin!vars)
  BY DEF HeapNext, MarkStep, QueueStep, GenerationStep, FinStep, allVars, queueVars, heapVars,
     finVars, vars, Queue!vars, Generations!vars, Fin!vars, Fin!lists, Fin!global, Fin!locals,
     Fin!heap, Fin!progress, Fin!control
<1>3. HeapSpec => HeapInit /\ [][HeapNext]_allVars
  BY PTL DEF HeapSpec
<1> QED
  BY <1>1, <1>2, <1>3, PTL DEF Spec, Queue!Spec, Generations!Spec, Fin!Spec

\* In particular what is checked of the whole: the marking ends when all is marked, the
\* queue hands out each item once, no item is lost, nothing reachable is freed, and a
\* full collection leaves no garbage; finalizers are scheduled when they are due, and
\* none is lost or run twice until the program ends, nor then if no thread runs on.
THEOREM HeapCorrect ==
  HeapSpec => /\ []ZeroMeansDone /\ TakenOnce /\ []NothingLost
              /\ []NoDangling /\ []FullCollects /\ []PendingIsDue
              /\ [](~(exiting /\ ExitWhileRunning) => OnceInOnePlace)
BY HeapKeepsItsParts, MarkingIsComplete, QueueIsABag, QueueLosesNothing, NothingReachedIsFreed,
   FullCollectionsCollect, PendingIsDueInvariant, OnceUntilExit

=============================================================================
