-------------------------------- MODULE Sums --------------------------------
(***************************************************************************)
(* Facts about the sum of a function over a finite set, SumFunctionOnSet of  *)
(* the module Functions: the totals of balances, stakes and reservations.    *)
(*                                                                           *)
(* They are proved by induction over finite sets, in the form that needs no  *)
(* operator as a parameter: the subsets for which a fact fails are a set of  *)
(* sets, and if it is not empty it has a minimal element (SubsetInduction).    *)
(* In the same form: induction and recursion along 1..n.                     *)
(***************************************************************************)
EXTENDS Functions, FiniteSetTheorems, TLAPS

\* Induction over the subsets of a finite set, with the set of the good ones in
\* the place of a predicate.
LEMMA SubsetInduction ==
  ASSUME NEW S, IsFiniteSet(S), NEW Good,
         \A s \in SUBSET S :
           IsFiniteSet(s) /\ (\A u \in SUBSET s : u # s => u \in Good) => s \in Good
  PROVE  \A s \in SUBSET S : s \in Good
<1> DEFINE Bad == (SUBSET S) \ Good
<1>1. SUFFICES ASSUME Bad # {} PROVE FALSE
  OBVIOUS
<1>2. IsWellFoundedOn(StrictSubsetOrdering(S), SUBSET S)
  BY FS_StrictSubsetOrderingWellFounded, FS_FiniteSubsetsOfFinite
<1>3. Bad \subseteq SUBSET S
  OBVIOUS
<1> HIDE DEF Bad
<1>4. PICK s \in Bad : \A u \in Bad : <<u, s>> \notin StrictSubsetOrdering(S)
  BY <1>1, <1>2, <1>3, WFMin
<1>5. \A u \in SUBSET s : u # s => u \notin Bad
  BY <1>3, <1>4 DEF StrictSubsetOrdering
<1>6. s \in SUBSET S /\ IsFiniteSet(s)
  BY <1>3, FS_Subset
<1> QED
  BY <1>4, <1>5, <1>6 DEF Bad

-----------------------------------------------------------------------------
(* Induction and recursion along the numbers up to n.                       *)

\* Induction along 0..n, with a set in the place of a predicate.
LEMMA PrefixInduction ==
  ASSUME NEW n \in Nat, NEW Good, 0 \in Good,
         \A i \in 1..n : i - 1 \in Good => i \in Good
  PROVE  \A i \in 0..n : i \in Good
<1> DEFINE Fine == {s \in SUBSET (1..n) : \A i \in 0..n : s = 1..i => i \in Good}
<1>1. ASSUME NEW s \in SUBSET (1..n), \A u \in SUBSET s : u # s => u \in Fine
      PROVE  s \in Fine
  <2> SUFFICES ASSUME NEW i \in 1..n, s = 1..i PROVE i \in Good
    OBVIOUS
  <2>1. 1..i - 1 \in SUBSET s /\ 1..i - 1 # s
    OBVIOUS
  <2>2. 1..i - 1 \in Fine /\ i - 1 \in 0..n
    <3> HIDE DEF Fine
    <3> QED
      BY <1>1, <2>1
  <2>3. i - 1 \in Good
    BY <2>2
  <2> QED
    BY <2>3
<1>2. \A s \in SUBSET (1..n) : s \in Fine
  <2> HIDE DEF Fine
  <2>1. IsFiniteSet(1..n)
    BY FS_Interval
  <2> QED
    BY <1>1, <2>1, SubsetInduction
<1> SUFFICES ASSUME NEW i \in 0..n PROVE i \in Good
  OBVIOUS
<1>3. 1..i \in Fine
  <2>1. 1..i \in SUBSET (1..n)
    OBVIOUS
  <2> HIDE DEF Fine
  <2> QED
    BY <1>2, <2>1
<1> QED
  BY <1>3

\* A value can be computed along 1..n, step by step.
Computes(f, n, X, base, step) ==
  /\ f \in [0..n -> X] /\ f[0] = base
  /\ \A i \in 1..n : f[i] = step[<<i, f[i - 1]>>]

\* ... and so there is a function with these values.
LEMMA PrefixRecursion ==
  ASSUME NEW n \in Nat, NEW X, NEW base \in X, NEW step \in [(1..n) \X X -> X]
  PROVE  \E f : Computes(f, n, X, base, step)
<1> DEFINE Steps(f, k) == /\ f \in [0..k -> X] /\ f[0] = base
                          /\ \A i \in 1..k : f[i] = step[<<i, f[i - 1]>>]
           Good == {k \in 0..n : \E f : Steps(f, k)}
<1>1. 0 \in Good
  <2> DEFINE g == [i \in 0..0 |-> base]
  <2>1. Steps(g, 0)
    OBVIOUS
  <2>2. 0 \in 0..n
    OBVIOUS
  <2> HIDE DEF g, Steps
  <2> QED
    BY <2>1, <2>2
<1>2. ASSUME NEW k \in 1..n, k - 1 \in Good PROVE k \in Good
  <2>1. PICK f : Steps(f, k - 1)
    BY <1>2
  <2> DEFINE g == [i \in 0..k |-> IF i = k THEN step[<<k, f[k - 1]>>] ELSE f[i]]
  <2>2. \A i \in 0..k - 1 : i \in 0..k /\ i # k /\ f[i] \in X
    BY <2>1
  <2>3. step[<<k, f[k - 1]>>] \in X
    BY <2>2
  <2>4. Steps(g, k)
    <3>1. g \in [0..k -> X]
      <4>1. \A i \in 0..k : i = k \/ i \in 0..k - 1
        OBVIOUS
      <4>2. \A i \in 0..k : g[i] \in X
        BY <2>2, <2>3, <4>1
      <4> QED
        BY <4>2
    <3>2. g[0] = base
      BY <2>1
    <3>3. ASSUME NEW i \in 1..k PROVE g[i] = step[<<i, g[i - 1]>>]
      <4>1. g[i - 1] = f[i - 1]
        OBVIOUS
      <4>2. CASE i = k
        <5>1. g[k] = step[<<k, f[k - 1]>>]
          OBVIOUS
        <5> HIDE DEF g
        <5> QED
          BY <4>1, <4>2, <5>1
      <4>3. CASE i # k
        <5>1. i \in 1..k - 1 /\ g[i] = f[i]
          BY <4>3
        <5> QED
          BY <4>1, <5>1, <2>1
      <4> QED
        BY <4>2, <4>3
    <3> QED
      BY <3>1, <3>2, <3>3
  <2>5. k \in 0..n
    OBVIOUS
  <2> HIDE DEF g, Steps
  <2> QED
    BY <2>4, <2>5
<1>3. n \in Good
  <2> HIDE DEF Good
  <2> QED
    BY <1>1, <1>2, PrefixInduction
<1> QED
  BY <1>3 DEF Computes

-----------------------------------------------------------------------------
(* The recursive function behind the sum.                                   *)

chosen(s) == CHOOSE x \in s : TRUE

IsSum(g, f, S) ==
  g = [s \in SUBSET S |-> IF s = {} THEN 0 ELSE f[chosen(s)] + g[s \ {chosen(s)}]]

\* Two such functions agree where both are defined.
LEMMA SumUnique ==
  ASSUME NEW f, NEW A, NEW B, NEW g, NEW h, IsSum(g, f, A), IsSum(h, f, B),
         NEW S \in SUBSET (A \cap B), IsFiniteSet(S)
  PROVE  g[S] = h[S]
<1> DEFINE Good == {s \in SUBSET S : g[s] = h[s]}
<1>1. ASSUME NEW s \in SUBSET S, IsFiniteSet(s), \A u \in SUBSET s : u # s => u \in Good
      PROVE  s \in Good
  <2>1. /\ g[s] = IF s = {} THEN 0 ELSE f[chosen(s)] + g[s \ {chosen(s)}]
        /\ h[s] = IF s = {} THEN 0 ELSE f[chosen(s)] + h[s \ {chosen(s)}]
    BY DEF IsSum
  <2>2. CASE s # {}
    <3>1. chosen(s) \in s
      BY <2>2 DEF chosen
    <3>2. g[s \ {chosen(s)}] = h[s \ {chosen(s)}]
      BY <1>1, <3>1
    <3> QED
      BY <2>1, <2>2, <3>2
  <2> QED
    BY <2>1, <2>2
<1>2. S \in Good
  <2> HIDE DEF Good
  <2> QED
    BY <1>1, SubsetInduction
<1> QED
  BY <1>2

\* On a finite set there is one.
LEMMA SumExists ==
  ASSUME NEW f, NEW S, IsFiniteSet(S)
  PROVE  \E g : IsSum(g, f, S)
<1> DEFINE Good == {s \in SUBSET S : \E g : IsSum(g, f, s)}
<1>1. ASSUME NEW s \in SUBSET S, IsFiniteSet(s), \A u \in SUBSET s : u # s => u \in Good
      PROVE  s \in Good
  <2> DEFINE of(u) == CHOOSE g : IsSum(g, f, u)
  <2> DEFINE g == [u \in SUBSET s |-> IF u = {} THEN 0
                                      ELSE f[chosen(u)] + of(u \ {chosen(u)})[u \ {chosen(u)}]]
  <2>1. ASSUME NEW u \in SUBSET s, u # s
        PROVE  IsSum(of(u), f, u)
    <3>1. \E h : IsSum(h, f, u)
      BY <1>1, <2>1
    <3> QED
      BY <3>1
  <2>2. ASSUME NEW u \in SUBSET s, u # {}
        PROVE  of(u \ {chosen(u)})[u \ {chosen(u)}] = g[u \ {chosen(u)}]
    <3> DEFINE w == u \ {chosen(u)}
    <3>1. w \in SUBSET s /\ w # s /\ IsFiniteSet(w)
      <4>1. chosen(u) \in u
        BY <2>2 DEF chosen
      <4> QED
        BY <4>1, <1>1, FS_Subset
    <3>2. IsSum(of(w), f, w)
      BY <3>1, <2>1
    <3> HIDE DEF of
    <3>3. of(w)[w] = IF w = {} THEN 0 ELSE f[chosen(w)] + of(w)[w \ {chosen(w)}]
      BY <3>2 DEF IsSum
    <3>4. CASE w = {}
      BY <3>3, <3>4, <3>1
    <3>5. CASE w # {}
      <4> DEFINE v == w \ {chosen(w)}
      <4>1. v \in SUBSET s /\ v # s /\ v \in SUBSET (w \cap v) /\ IsFiniteSet(v)
        <5>1. chosen(w) \in w
          BY <3>5 DEF chosen
        <5> QED
          BY <5>1, <3>1, FS_Subset
      <4>2. IsSum(of(v), f, v)
        BY <4>1, <2>1
      <4>3. of(w)[v] = of(v)[v]
        BY <3>2, <4>1, <4>2, SumUnique
      <4>4. g[w] = f[chosen(w)] + of(v)[v]
        BY <3>1, <3>5
      <4> QED
        BY <3>3, <3>5, <4>3, <4>4
    <3> QED
      BY <3>4, <3>5
  <2>3. IsSum(g, f, s)
    <3> HIDE DEF of
    <3>1. \A u \in SUBSET s : g[u] = IF u = {} THEN 0 ELSE f[chosen(u)] + g[u \ {chosen(u)}]
      BY <2>2
    <3>2. g = [u \in SUBSET s |-> g[u]]
      OBVIOUS
    <3> HIDE DEF g
    <3> QED
      BY <3>1, <3>2 DEF IsSum
  <2> QED
    BY <2>3
<1>2. S \in Good
  <2> HIDE DEF Good
  <2> QED
    BY <1>1, SubsetInduction
<1> QED
  BY <1>2

\* The sum is the value of such a function.
LEMMA SumIs ==
  ASSUME NEW f, NEW S, IsFiniteSet(S)
  PROVE  \E g : IsSum(g, f, S) /\ SumFunctionOnSet(f, S) = g[S]
<1> DEFINE iter[s \in SUBSET S] ==
             IF s = {} THEN 0 ELSE LET x == chosen(s) IN f[x] + iter[s \ {x}]
<1>1. SumFunctionOnSet(f, S) = iter[S]
  BY DEF SumFunctionOnSet, FoldFunctionOnSet, MapThenFoldSet, chosen
<1>2. iter = CHOOSE g : IsSum(g, f, S)
  BY DEF IsSum
<1> HIDE DEF iter
<1> QED
  BY <1>1, <1>2, SumExists

-----------------------------------------------------------------------------
(* What a proof needs to know of sums.                                      *)

LEMMA SumEmpty == ASSUME NEW f PROVE SumFunctionOnSet(f, {}) = 0
<1>1. PICK g : IsSum(g, f, {}) /\ SumFunctionOnSet(f, {}) = g[{}]
  BY SumIs, FS_EmptySet
<1> QED
  BY <1>1 DEF IsSum

LEMMA SumChosen ==
  ASSUME NEW f, NEW S, IsFiniteSet(S), S # {}
  PROVE  /\ chosen(S) \in S
         /\ SumFunctionOnSet(f, S) = f[chosen(S)] + SumFunctionOnSet(f, S \ {chosen(S)})
<1> DEFINE R == S \ {chosen(S)}
<1>1. chosen(S) \in S /\ IsFiniteSet(R)
  BY FS_Subset DEF chosen
<1>2. PICK g : IsSum(g, f, S) /\ SumFunctionOnSet(f, S) = g[S]
  BY SumIs
<1>3. PICK h : IsSum(h, f, R) /\ SumFunctionOnSet(f, R) = h[R]
  BY SumIs, <1>1
<1>4. g[R] = h[R]
  BY <1>1, <1>2, <1>3, SumUnique
<1>5. g[S] = f[chosen(S)] + g[R]
  BY <1>2 DEF IsSum
<1> QED
  BY <1>1, <1>2, <1>3, <1>4, <1>5

\* A sum of integers is an integer, one of natural numbers a natural number.
LEMMA SumType ==
  ASSUME NEW S, IsFiniteSet(S), NEW f, \A x \in S : f[x] \in Int
  PROVE  /\ SumFunctionOnSet(f, S) \in Int
         /\ (\A x \in S : f[x] >= 0) => SumFunctionOnSet(f, S) >= 0
<1> DEFINE Good == {s \in SUBSET S :
                      /\ SumFunctionOnSet(f, s) \in Int
                      /\ (\A x \in S : f[x] >= 0) => SumFunctionOnSet(f, s) >= 0}
<1>1. ASSUME NEW s \in SUBSET S, IsFiniteSet(s), \A u \in SUBSET s : u # s => u \in Good
      PROVE  s \in Good
  <2>1. CASE s = {}
    BY <2>1, SumEmpty
  <2>2. CASE s # {}
    <3>1. /\ chosen(s) \in s
          /\ SumFunctionOnSet(f, s) = f[chosen(s)] + SumFunctionOnSet(f, s \ {chosen(s)})
      BY <1>1, <2>2, SumChosen
    <3>2. s \ {chosen(s)} \in Good
      BY <1>1, <3>1
    <3> QED
      BY <3>1, <3>2
  <2> QED
    BY <2>1, <2>2
<1>2. S \in Good
  <2> HIDE DEF Good
  <2> QED
    BY <1>1, SubsetInduction
<1> QED
  BY <1>2

\* Any element can be taken out of a sum.
LEMMA SumTakeOut ==
  ASSUME NEW S, IsFiniteSet(S), NEW f, \A x \in S : f[x] \in Int, NEW x \in S
  PROVE  SumFunctionOnSet(f, S) = f[x] + SumFunctionOnSet(f, S \ {x})
<1> DEFINE Good == {s \in SUBSET S : \A y \in s :
                      SumFunctionOnSet(f, s) = f[y] + SumFunctionOnSet(f, s \ {y})}
<1>1. ASSUME NEW s \in SUBSET S, IsFiniteSet(s), \A u \in SUBSET s : u # s => u \in Good
      PROVE  s \in Good
  <2> SUFFICES ASSUME NEW y \in s
               PROVE  SumFunctionOnSet(f, s) = f[y] + SumFunctionOnSet(f, s \ {y})
    OBVIOUS
  <2>1. PICK z \in s : SumFunctionOnSet(f, s) = f[z] + SumFunctionOnSet(f, s \ {z})
    <3> HIDE DEF Good
    <3>1. s # {}
      OBVIOUS
    <3> QED
      BY <1>1, <3>1, SumChosen
  <2>2. CASE y = z
    BY <2>1, <2>2
  <2>3. CASE y # z
    <3> DEFINE r == (s \ {z}) \ {y}
    <3>1. y \in s \ {z} /\ z \in s \ {y} /\ (s \ {y}) \ {z} = r
      BY <2>3
    <3>2. s \ {z} \in Good /\ s \ {y} \in Good
      <4> HIDE DEF Good
      <4> QED
        BY <1>1
    <3>3. /\ SumFunctionOnSet(f, s \ {z}) = f[y] + SumFunctionOnSet(f, r)
          /\ SumFunctionOnSet(f, s \ {y}) = f[z] + SumFunctionOnSet(f, r)
      BY <3>1, <3>2
    <3>4. IsFiniteSet(r) /\ r \subseteq S
      BY <1>1, FS_Subset
    <3>5. SumFunctionOnSet(f, r) \in Int /\ f[y] \in Int /\ f[z] \in Int
      BY <3>4, SumType
    <3> HIDE DEF r, Good
    <3> QED
      BY <2>1, <3>3, <3>5
  <2> QED
    BY <2>2, <2>3
<1>2. S \in Good
  <2> HIDE DEF Good
  <2> QED
    BY <1>1, SubsetInduction
<1> QED
  BY <1>2

\* A sum only depends on the values it adds.
LEMMA SumAgree ==
  ASSUME NEW S, IsFiniteSet(S), NEW f, NEW g, \A x \in S : f[x] = g[x]
  PROVE  SumFunctionOnSet(f, S) = SumFunctionOnSet(g, S)
<1> DEFINE Good == {s \in SUBSET S : SumFunctionOnSet(f, s) = SumFunctionOnSet(g, s)}
<1>1. ASSUME NEW s \in SUBSET S, IsFiniteSet(s), \A u \in SUBSET s : u # s => u \in Good
      PROVE  s \in Good
  <2>1. CASE s = {}
    BY <2>1, SumEmpty
  <2>2. CASE s # {}
    <3>1. /\ chosen(s) \in s
          /\ SumFunctionOnSet(f, s) = f[chosen(s)] + SumFunctionOnSet(f, s \ {chosen(s)})
          /\ SumFunctionOnSet(g, s) = g[chosen(s)] + SumFunctionOnSet(g, s \ {chosen(s)})
      BY <1>1, <2>2, SumChosen
    <3>2. s \ {chosen(s)} \in Good
      BY <1>1, <3>1
    <3> QED
      BY <3>1, <3>2
  <2> QED
    BY <2>1, <2>2
<1>2. S \in Good
  <2> HIDE DEF Good
  <2> QED
    BY <1>1, SubsetInduction
<1> QED
  BY <1>2

\* When one value changes, the sum changes by as much.
LEMMA SumChange ==
  ASSUME NEW S, IsFiniteSet(S), NEW x \in S,
         NEW f, \A y \in S : f[y] \in Int,
         NEW g, g[x] \in Int, \A y \in S : y # x => g[y] = f[y]
  PROVE  SumFunctionOnSet(g, S) = SumFunctionOnSet(f, S) - f[x] + g[x]
<1>1. IsFiniteSet(S \ {x})
  BY FS_Subset
<1>2. SumFunctionOnSet(g, S \ {x}) = SumFunctionOnSet(f, S \ {x})
  BY <1>1, SumAgree
<1>3. /\ SumFunctionOnSet(f, S) = f[x] + SumFunctionOnSet(f, S \ {x})
      /\ SumFunctionOnSet(g, S) = g[x] + SumFunctionOnSet(g, S \ {x})
  BY SumTakeOut
<1>4. SumFunctionOnSet(f, S \ {x}) \in Int
  BY <1>1, SumType
<1> QED
  BY <1>2, <1>3, <1>4

\* A new element adds its value.
LEMMA SumAdd ==
  ASSUME NEW S, IsFiniteSet(S), NEW x, x \notin S, NEW f, \A y \in S \cup {x} : f[y] \in Int
  PROVE  SumFunctionOnSet(f, S \cup {x}) = SumFunctionOnSet(f, S) + f[x]
<1>1. IsFiniteSet(S \cup {x}) /\ (S \cup {x}) \ {x} = S
  BY FS_AddElement
<1>2. SumFunctionOnSet(f, S \cup {x}) = f[x] + SumFunctionOnSet(f, S)
  BY <1>1, SumTakeOut
<1>3. SumFunctionOnSet(f, S) \in Int
  BY SumType
<1> QED
  BY <1>2, <1>3

\* Larger values have a larger sum.
LEMMA SumMonotone ==
  ASSUME NEW S, IsFiniteSet(S), NEW f, NEW g,
         \A x \in S : f[x] \in Int /\ g[x] \in Int /\ f[x] <= g[x]
  PROVE  SumFunctionOnSet(f, S) <= SumFunctionOnSet(g, S)
<1> DEFINE Good == {s \in SUBSET S : SumFunctionOnSet(f, s) <= SumFunctionOnSet(g, s)}
<1>1. ASSUME NEW s \in SUBSET S, IsFiniteSet(s), \A u \in SUBSET s : u # s => u \in Good
      PROVE  s \in Good
  <2>1. CASE s = {}
    BY <2>1, SumEmpty
  <2>2. CASE s # {}
    <3> DEFINE r == s \ {chosen(s)}
    <3>1. /\ chosen(s) \in s
          /\ SumFunctionOnSet(f, s) = f[chosen(s)] + SumFunctionOnSet(f, r)
          /\ SumFunctionOnSet(g, s) = g[chosen(s)] + SumFunctionOnSet(g, r)
      BY <1>1, <2>2, SumChosen
    <3>2. SumFunctionOnSet(f, r) <= SumFunctionOnSet(g, r)
      BY <1>1, <3>1
    <3>3. IsFiniteSet(r) /\ r \subseteq S
      BY <1>1, FS_Subset
    <3>4. SumFunctionOnSet(f, r) \in Int /\ SumFunctionOnSet(g, r) \in Int
      BY <3>3, SumType
    <3>5. SumFunctionOnSet(f, s) <= SumFunctionOnSet(g, s)
      <4> HIDE DEF r
      <4> QED
        BY <3>1, <3>2, <3>4
    <3> QED
      BY <3>5
  <2> QED
    BY <2>1, <2>2
<1>2. S \in Good
  <2> HIDE DEF Good
  <2> QED
    BY <1>1, SubsetInduction
<1> QED
  BY <1>2

\* The sum of a constant.
LEMMA SumConstant ==
  ASSUME NEW S, IsFiniteSet(S), NEW k \in Int, NEW f, \A x \in S : f[x] = k
  PROVE  SumFunctionOnSet(f, S) = k * Cardinality(S)
<1> DEFINE Good == {s \in SUBSET S : SumFunctionOnSet(f, s) = k * Cardinality(s)}
<1>1. ASSUME NEW s \in SUBSET S, IsFiniteSet(s), \A u \in SUBSET s : u # s => u \in Good
      PROVE  s \in Good
  <2>1. CASE s = {}
    BY <2>1, SumEmpty, FS_EmptySet
  <2>2. CASE s # {}
    <3> DEFINE r == s \ {chosen(s)}
    <3>1. chosen(s) \in s /\ SumFunctionOnSet(f, s) = f[chosen(s)] + SumFunctionOnSet(f, r)
      BY <1>1, <2>2, SumChosen
    <3>2. SumFunctionOnSet(f, r) = k * Cardinality(r)
      BY <1>1, <3>1
    <3>3. Cardinality(r) = Cardinality(s) - 1 /\ Cardinality(s) \in Nat
      BY <1>1, <3>1, FS_RemoveElement, FS_CardinalityType
    <3>4. PICK n \in Int : n = Cardinality(r)
      BY <3>3
    <3>5. SumFunctionOnSet(f, s) = k + k * n /\ Cardinality(s) = n + 1
      BY <3>1, <3>2, <3>3, <3>4
    <3>6. k + k * n = k * (n + 1)
      OBVIOUS
    <3> QED
      BY <3>5, <3>6
  <2> QED
    BY <2>1, <2>2
<1>2. S \in Good
  <2> HIDE DEF Good
  <2> QED
    BY <1>1, SubsetInduction
<1> QED
  BY <1>2

\* Elements of value zero add nothing.
LEMMA SumZeros ==
  ASSUME NEW S, IsFiniteSet(S), NEW T \in SUBSET S, NEW f,
         \A x \in S : f[x] \in Int, \A x \in S \ T : f[x] = 0
  PROVE  SumFunctionOnSet(f, S) = SumFunctionOnSet(f, T)
<1> DEFINE Good == {s \in SUBSET S : T \subseteq s =>
                      SumFunctionOnSet(f, s) = SumFunctionOnSet(f, T)}
<1>1. ASSUME NEW s \in SUBSET S, IsFiniteSet(s), \A u \in SUBSET s : u # s => u \in Good
      PROVE  s \in Good
  <2> SUFFICES ASSUME T \subseteq s, s # T
               PROVE  SumFunctionOnSet(f, s) = SumFunctionOnSet(f, T)
    OBVIOUS
  <2>1. PICK x \in s : x \notin T
    OBVIOUS
  <2>2. SumFunctionOnSet(f, s) = f[x] + SumFunctionOnSet(f, s \ {x})
    <3> HIDE DEF Good
    <3> QED
      BY <1>1, SumTakeOut
  <2>3. SumFunctionOnSet(f, s \ {x}) = SumFunctionOnSet(f, T)
    BY <1>1, <2>1
  <2>4. SumFunctionOnSet(f, T) \in Int
    <3> HIDE DEF Good
    <3>1. IsFiniteSet(T)
      BY FS_Subset
    <3> QED
      BY <3>1, SumType
  <2>5. f[x] = 0
    BY <2>1
  <2> QED
    BY <2>2, <2>3, <2>4, <2>5
<1>2. S \in Good
  <2> HIDE DEF Good
  <2> QED
    BY <1>1, SubsetInduction
<1> QED
  BY <1>2

\* g is f with one value changed by n ...
Changed(g, f, S, x, n) ==
  /\ f \in [S -> Int] /\ g \in [S -> Int] /\ x \in S /\ n \in Int
  /\ \A z \in S : g[z] = f[z] + IF z = x THEN n ELSE 0

LEMMA SumChanged ==
  ASSUME NEW S, IsFiniteSet(S), NEW f, NEW g, NEW x, NEW n, Changed(g, f, S, x, n)
  PROVE  /\ SumFunctionOnSet(f, S) \in Int
         /\ SumFunctionOnSet(g, S) = SumFunctionOnSet(f, S) + n
<1>1. /\ f \in [S -> Int] /\ g \in [S -> Int] /\ x \in S /\ n \in Int
      /\ g[x] = f[x] + n /\ \A y \in S : y # x => g[y] = f[y]
  BY DEF Changed
<1>2. \A y \in S : f[y] \in Int
  BY <1>1
<1>3. SumFunctionOnSet(f, S) \in Int
  BY <1>2, SumType
<1>4. SumFunctionOnSet(g, S) = SumFunctionOnSet(f, S) - f[x] + g[x]
  BY <1>1, <1>2, SumChange
<1> QED
  BY <1>1, <1>2, <1>3, <1>4

\* ... and f with n taken from one place and m added in another, which may be the
\* same one.
Moved(g, f, S, x, n, y, m) ==
  /\ f \in [S -> Int] /\ g \in [S -> Int] /\ x \in S /\ y \in S /\ n \in Int /\ m \in Int
  /\ \A z \in S : g[z] = f[z] - (IF z = x THEN n ELSE 0) + (IF z = y THEN m ELSE 0)

LEMMA SumMoved ==
  ASSUME NEW S, IsFiniteSet(S), NEW f, NEW g, NEW x, NEW y, NEW n, NEW m,
         Moved(g, f, S, x, n, y, m)
  PROVE  /\ SumFunctionOnSet(f, S) \in Int
         /\ SumFunctionOnSet(g, S) = SumFunctionOnSet(f, S) - n + m
<1> DEFINE k == 0 - n
           h == [z \in S |-> f[z] + IF z = x THEN k ELSE 0]
<1>1. /\ f \in [S -> Int] /\ g \in [S -> Int] /\ x \in S /\ y \in S
      /\ n \in Int /\ m \in Int /\ k \in Int
  BY DEF Moved
<1>2. Changed(h, f, S, x, k)
  <2>1. h \in [S -> Int]
    BY <1>1
  <2> QED
    BY <1>1, <2>1 DEF Changed
<1>3. Changed(g, h, S, y, m)
  <2>1. h \in [S -> Int]
    BY <1>1
  <2>2. \A z \in S : g[z] = h[z] + IF z = y THEN m ELSE 0
    BY <1>1 DEF Moved
  <2> HIDE DEF h
  <2> QED
    BY <1>1, <2>1, <2>2 DEF Changed
<1>4. n \in Int /\ k = 0 - n
  BY <1>1
<1> HIDE DEF h, k
<1>5. SumFunctionOnSet(h, S) = SumFunctionOnSet(f, S) + k /\ SumFunctionOnSet(f, S) \in Int
  BY <1>2, SumChanged
<1>6. SumFunctionOnSet(g, S) = SumFunctionOnSet(h, S) + m
  BY <1>3, SumChanged
<1> QED
  BY <1>1, <1>4, <1>5, <1>6

\* The sum of two functions.
LEMMA SumPlus ==
  ASSUME NEW S, IsFiniteSet(S), NEW f, NEW g, NEW h,
         \A x \in S : f[x] \in Int /\ g[x] \in Int /\ h[x] = f[x] + g[x]
  PROVE  SumFunctionOnSet(h, S) = SumFunctionOnSet(f, S) + SumFunctionOnSet(g, S)
<1> DEFINE Good == {s \in SUBSET S :
             SumFunctionOnSet(h, s) = SumFunctionOnSet(f, s) + SumFunctionOnSet(g, s)}
<1>1. ASSUME NEW s \in SUBSET S, IsFiniteSet(s), \A u \in SUBSET s : u # s => u \in Good
      PROVE  s \in Good
  <2>1. CASE s = {}
    BY <2>1, SumEmpty
  <2>2. CASE s # {}
    <3> DEFINE x == chosen(s)
               r == s \ {x}
    <3>1. /\ x \in s
          /\ SumFunctionOnSet(f, s) = f[x] + SumFunctionOnSet(f, r)
          /\ SumFunctionOnSet(g, s) = g[x] + SumFunctionOnSet(g, r)
          /\ SumFunctionOnSet(h, s) = h[x] + SumFunctionOnSet(h, r)
      BY <1>1, <2>2, SumChosen
    <3>2. SumFunctionOnSet(h, r) = SumFunctionOnSet(f, r) + SumFunctionOnSet(g, r)
      BY <1>1, <3>1
    <3>3. SumFunctionOnSet(f, r) \in Int /\ SumFunctionOnSet(g, r) \in Int
      <4>1. IsFiniteSet(r) /\ \A y \in r : f[y] \in Int /\ g[y] \in Int
        BY <1>1, FS_Subset
      <4> QED
        BY <4>1, SumType
    <3>4. f[x] \in Int /\ g[x] \in Int /\ h[x] = f[x] + g[x]
      BY <3>1
    <3> HIDE DEF x, r
    <3> QED
      BY <3>1, <3>2, <3>3, <3>4
  <2> QED
    BY <2>1, <2>2
<1>2. S \in Good
  <2> HIDE DEF Good
  <2> QED
    BY <1>1, SubsetInduction
<1> QED
  BY <1>2

=============================================================================
